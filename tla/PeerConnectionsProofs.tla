------------------------ MODULE PeerConnectionsProofs ------------------------
(* Proofs about PeerConnections, for any number of peers and connections. *)
EXTENDS PeerConnections, TLAPS

(* The ends of a connection. *)
LEMMA EndsArePeers ==
    \A c \in Conns : /\ Dialer[c] \in Peers
                     /\ Acceptor[c] \in Peers
                     /\ Dialer[c] # Acceptor[c]
                     /\ Ends(c) \subseteq Peers
                     /\ \A p \in Ends(c) : Other(c, p) \in Ends(c) \ {p}
  BY ConnsAssumption DEF Ends, Other

(***************************************************************************)
(* Types.                                                                  *)
(***************************************************************************)

LEMMA TypeInit == Init => TypeOK
  BY DEF Init, TypeOK, Stages, Busy, Statuses

(* Changing handles takes ends away from a connection and adds none.       *)
LEMMA ReholdType ==
    ASSUME TypeOK, NEW p \in Peers, NEW new, NEW old, Rehold(p, new, old)
    PROVE  /\ refs' \in [Peers -> [Conns -> Int]]
           /\ up' \in [Conns -> SUBSET Peers]
           /\ \A c \in Conns : up'[c] \subseteq up[c]
  BY DEF TypeOK, Rehold, One

LEMMA TypeTasks ==
    ASSUME TypeOK, NEW c \in Conns, Dial(c) \/ connect_to_peer(c) \/ accept_loop(c)
    PROVE  TypeOK'
<1> USE EndsArePeers
<1>1. CASE Dial(c)
  BY <1>1 DEF Dial, useVars, TypeOK, Stages, Busy
<1>2. CASE ReadInfo(c)
  BY <1>2 DEF ReadInfo, GoTo, netVars, useVars, TypeOK, Stages, Busy
<1>3. CASE AnswerInfo(c)
  BY <1>3 DEF AnswerInfo, GoTo, netVars, useVars, TypeOK, Stages, Busy
<1>4. ASSUME NEW p \in Ends(c), ExchangeFails(c, p) PROVE TypeOK'
  BY <1>4, ReholdType DEF ExchangeFails, Drop, GoTo, useVars, TypeOK, Stages, Busy
<1>5. ASSUME NEW p \in Ends(c), Ensure(c, p) PROVE TypeOK'
  BY <1>5 DEF Ensure, GoTo, netVars, useVars, TypeOK, Stages, Busy, Statuses
<1>6. ASSUME NEW p \in Ends(c), Mark(c, p) PROVE TypeOK'
  BY <1>6 DEF Mark, GoTo, set_status, netVars, useVars, TypeOK, Stages, Busy, Statuses
<1>7. ASSUME NEW p \in Ends(c), Store(c, p) PROVE TypeOK'
  <2>1. PICK new, old : Rehold(p, new, old)
    BY <1>7 DEF Store, Drop
  <2>2. /\ refs' \in [Peers -> [Conns -> Int]]
        /\ up' \in [Conns -> SUBSET Peers]
    BY <2>1, ReholdType
  <2>3. PICK stage \in {"serving", "done"} : pc' = [pc EXCEPT ![c][p] = stage]
    BY <1>7 DEF Store, GoTo
  <2> QED
    BY <1>7, <2>2, <2>3 DEF Store, useVars, TypeOK, Stages
<1>8. CASE ServingEnds(c)
  BY <1>8, ReholdType DEF ServingEnds, EndServing, Drop, GoTo, useVars, TypeOK, Stages, Busy
<1>9. CASE ServingBreaks(c)
  BY <1>9, ReholdType DEF ServingBreaks, EndServing, Drop, GoTo, TypeOK, Stages, Busy
<1> QED
  BY <1>1, <1>2, <1>3, <1>4, <1>5, <1>6, <1>7, <1>8, <1>9
  DEF connect_to_peer, accept_loop, Finish, Ends

LEMMA TypeSends ==
    ASSUME TypeOK, NEW c \in Conns, NEW p \in Ends(c),
           send_file(p, c) \/ ServeStream(c) \/ EndReceive(c)
    PROVE  TypeOK'
<1> USE EndsArePeers
<1>1. CASE BeginSend(p, c)
  BY <1>1, ReholdType DEF BeginSend, Take, TypeOK
<1>2. CASE OpenStream(p, c)
  BY <1>2 DEF OpenStream, netVars, TypeOK
<1>3. CASE ServeStream(c)
  BY <1>3, ReholdType DEF ServeStream, Take, TypeOK
<1>4. CASE EndReceive(c)
  BY <1>4, ReholdType DEF EndReceive, Drop, TypeOK
<1>5. CASE EndSend(p, c)
  BY <1>5, ReholdType DEF EndSend, Drop, TypeOK
<1> QED
  BY <1>1, <1>2, <1>3, <1>4, <1>5 DEF send_file

LEMMA TypeCleanup ==
    ASSUME TypeOK, NEW p \in Peers, idle_cleanup_loop(p)
    PROVE  TypeOK'
<1>1. CASE Collect(p)
  BY <1>1 DEF Collect, netVars, useVars, TypeOK
<1>2. ASSUME NEW q \in Peers, RemoveEntry(p, q) PROVE TypeOK'
  BY <1>2, ReholdType DEF RemoveEntry, Drop, useVars, TypeOK
<1>3. ASSUME NEW q \in Peers, MarkDiscovered(p, q) PROVE TypeOK'
  BY <1>3 DEF MarkDiscovered, set_status, netVars, useVars, TypeOK, Statuses
<1> QED
  BY <1>1, <1>2, <1>3 DEF idle_cleanup_loop

LEMMA TypeOthers ==
    ASSUME TypeOK,
           \/ \E c \in Conns : \E p \in Ends(c) : LearnClosed(c, p) \/ Lose(c, p)
           \/ \E p, q \in Peers : Announce(p, q) \/ Forget(p, q)
    PROVE  TypeOK'
<1>1. ASSUME NEW c \in Conns, NEW p \in Ends(c), LearnClosed(c, p) \/ Lose(c, p) PROVE TypeOK'
  BY <1>1 DEF LearnClosed, Lose, useVars, TypeOK
<1>2. ASSUME NEW p \in Peers, NEW q \in Peers, Announce(p, q) PROVE TypeOK'
  BY <1>2 DEF Announce, netVars, useVars, TypeOK, Statuses
<1>3. ASSUME NEW p \in Peers, NEW q \in Peers, Forget(p, q) PROVE TypeOK'
  BY <1>3 DEF Forget, netVars, useVars, TypeOK, Statuses
<1> QED
  BY <1>1, <1>2, <1>3

LEMMA TypeStep == TypeOK /\ [Next]_vars => TypeOK'
<1> SUFFICES ASSUME TypeOK, [Next]_vars PROVE TypeOK'
  OBVIOUS
<1>1. CASE UNCHANGED vars
  BY <1>1 DEF vars, netVars, useVars, TypeOK
<1>2. CASE Next
  BY <1>2, TypeTasks, TypeSends, TypeCleanup, TypeOthers DEF Next, Ends
<1> QED
  BY <1>1, <1>2

(* The connections keep their types. *)
THEOREM TypeCorrect == Spec => []TypeOK
  BY TypeInit, TypeStep, PTL DEF Spec

(***************************************************************************)
(* A dial begins the tasks of both ends.                                   *)
(***************************************************************************)

IdleTogether == \A c \in Conns : pc[c][Dialer[c]] = "idle" => pc[c][Acceptor[c]] = "idle"

LEMMA IdleStep == TypeOK /\ IdleTogether /\ [Next]_vars => IdleTogether'
<1> SUFFICES ASSUME TypeOK, IdleTogether, [Next]_vars PROVE IdleTogether'
  OBVIOUS
<1> USE EndsArePeers
<1>1. ASSUME NEW c \in Conns, Dial(c) PROVE IdleTogether'
  BY <1>1 DEF Dial, IdleTogether, TypeOK, Ends
<1>2. ASSUME NEW c \in Conns, NEW p \in Ends(c), pc[c][p] # "idle",
             NEW stage \in Stages \ {"idle"}, pc' = [pc EXCEPT ![c][p] = stage]
      PROVE  IdleTogether'
  BY <1>2 DEF IdleTogether, TypeOK, Ends
<1>3. ASSUME NEW c \in Conns, connect_to_peer(c) \/ accept_loop(c) PROVE IdleTogether'
  <2>1. PICK p \in Ends(c), stage \in Stages \ {"idle"} :
           pc[c][p] # "idle" /\ pc' = [pc EXCEPT ![c][p] = stage]
    BY <1>3 DEF connect_to_peer, accept_loop, Finish, ReadInfo, AnswerInfo, ExchangeFails,
                Ensure, Mark, Store, ServingEnds, ServingBreaks, EndServing, GoTo, Ends, Stages, Busy
  <2> QED
    BY <1>2, <2>1
<1>4. CASE pc' = pc
  BY <1>4 DEF IdleTogether
<1> QED
  BY <1>1, <1>3, <1>4 DEF Next, vars, ServeStream, EndReceive, send_file, BeginSend, OpenStream, EndSend,
     LearnClosed, Lose, idle_cleanup_loop, Collect, RemoveEntry, MarkDiscovered, Announce, Forget

(* No task of a connection has begun before its dial. *)
LEMMA BothIdle == Spec => []IdleTogether
<1>1. Init => IdleTogether
  BY EndsArePeers DEF Init, IdleTogether
<1> QED
  BY <1>1, IdleStep, TypeCorrect, PTL DEF Spec

(***************************************************************************)
(* A status has something behind it.                                       *)
(***************************************************************************)

(* A step that marks nobody, drops no entry and takes no task out of its   *)
(* last stages keeps all statuses backed.                                  *)
LEMMA BackedFrame ==
    ASSUME ConnectedIsBacked,
           \A p, q \in Peers :
              /\ status'[p][q] = "Connected" => status[p][q] = "Connected"
              /\ active[p][q] # None => active'[p][q] # None
              /\ sweep[p][q] = "removed" => sweep'[p][q] = "removed",
           \A c \in Conns : \A p \in Ends(c) :
              pc[c][p] \in {"mark", "store"} => pc'[c][p] \in {"mark", "store"}
    PROVE  ConnectedIsBacked'
  BY DEF ConnectedIsBacked, Other, Ends

LEMMA BackedTasks ==
    ASSUME TypeOK, IdleTogether, ConnectedIsBacked, NEW c \in Conns,
           Dial(c) \/ connect_to_peer(c) \/ accept_loop(c)
    PROVE  ConnectedIsBacked'
<1> USE EndsArePeers
<1>1. CASE Dial(c)
  <2>1. \A d \in Conns : \A p \in Ends(d) :
           pc[d][p] \in {"mark", "store"} => pc'[d][p] \in {"mark", "store"}
    <3> SUFFICES ASSUME NEW d \in Conns, NEW p \in Ends(d), pc[d][p] \in {"mark", "store"}
                 PROVE  pc'[d][p] \in {"mark", "store"}
      OBVIOUS
    <3>1. CASE d # c
      BY <1>1, <3>1 DEF Dial, TypeOK
    <3>2. CASE d = c
      BY <1>1, <3>2 DEF Dial, IdleTogether, Ends
    <3> QED
      BY <3>1, <3>2
  <2> QED
    BY <1>1, <2>1, BackedFrame DEF Dial
<1>2. CASE ReadInfo(c)
  BY <1>2, BackedFrame DEF ReadInfo, GoTo, TypeOK
<1>3. CASE AnswerInfo(c)
  BY <1>3, BackedFrame DEF AnswerInfo, GoTo, TypeOK
<1>4. ASSUME NEW p \in Ends(c), ExchangeFails(c, p) PROVE ConnectedIsBacked'
  BY <1>4, BackedFrame DEF ExchangeFails, GoTo, TypeOK
<1>5. CASE ServingEnds(c)
  BY <1>5, BackedFrame DEF ServingEnds, EndServing, GoTo, TypeOK
<1>8. CASE ServingBreaks(c)
  BY <1>8, BackedFrame DEF ServingBreaks, EndServing, GoTo, TypeOK
<1>6. ASSUME NEW p \in Ends(c), Ensure(c, p) \/ Mark(c, p) PROVE ConnectedIsBacked'
  <2> DEFINE q == Other(c, p)
  <2>1. p \in Peers /\ q \in Peers
    OBVIOUS
  <2>2. pc'[c][p] \in {"mark", "store"}
    BY <1>6 DEF Ensure, Mark, GoTo, TypeOK
  <2>3. \A d \in Conns : \A r \in Ends(d) :
           pc[d][r] \in {"mark", "store"} => pc'[d][r] \in {"mark", "store"}
    <3>1. PICK stage \in {"mark", "store"} : pc' = [pc EXCEPT ![c][p] = stage]
      BY <1>6 DEF Ensure, Mark, GoTo
    <3> QED
      BY <3>1 DEF TypeOK
  <2>4. \A r, s \in Peers : (r # p \/ s # q) => status'[r][s] = status[r][s]
    <3>1. CASE Ensure(c, p)
      BY <3>1, <2>1 DEF Ensure, TypeOK
    <3>2. CASE Mark(c, p)
      BY <3>2, <2>1 DEF Mark, set_status, TypeOK
    <3> QED
      BY <1>6, <3>1, <3>2
  <2>5. active' = active /\ sweep' = sweep
    BY <1>6 DEF Ensure, Mark
  <2> QED
    BY <2>1, <2>2, <2>3, <2>4, <2>5 DEF ConnectedIsBacked
<1>7. ASSUME NEW p \in Ends(c), Store(c, p) PROVE ConnectedIsBacked'
  <2> DEFINE q == Other(c, p)
  <2>1. p \in Peers /\ q \in Peers /\ c # None
    BY ConnsAssumption
  <2>2. active'[p][q] # None
    BY <1>7, <2>1 DEF Store, TypeOK
  <2>3. \A r, s \in Peers : (r # p \/ s # q) => active'[r][s] = active[r][s]
    BY <1>7, <2>1 DEF Store, TypeOK
  <2>4. \A d \in Conns : \A r \in Ends(d) : (d # c \/ r # p) => pc'[d][r] = pc[d][r]
    BY <1>7 DEF Store, GoTo, TypeOK
  <2>5. status' = status /\ sweep' = sweep
    BY <1>7 DEF Store
  <2> QED
    BY <2>1, <2>2, <2>3, <2>4, <2>5 DEF ConnectedIsBacked
<1> QED
  BY <1>1, <1>2, <1>3, <1>4, <1>5, <1>6, <1>7, <1>8 DEF connect_to_peer, accept_loop, Finish, Ends

LEMMA BackedCleanup ==
    ASSUME TypeOK, ConnectedIsBacked, NEW p \in Peers, idle_cleanup_loop(p)
    PROVE  ConnectedIsBacked'
<1>1. CASE Collect(p)
  <2>1. \A r, s \in Peers : sweep[r][s] = "removed" => sweep'[r][s] = "removed"
    BY <1>1 DEF Collect, Sweeping, TypeOK
  <2> QED
    BY <1>1, <2>1, BackedFrame DEF Collect
<1>2. ASSUME NEW q \in Peers, RemoveEntry(p, q) PROVE ConnectedIsBacked'
  BY <1>2 DEF RemoveEntry, TypeOK, ConnectedIsBacked
<1>3. ASSUME NEW q \in Peers, MarkDiscovered(p, q) PROVE ConnectedIsBacked'
  <2>1. status'[p][q] # "Connected"
    BY <1>3 DEF MarkDiscovered, set_status, TypeOK
  <2>2. \A r, s \in Peers : (r # p \/ s # q) =>
           status'[r][s] = status[r][s] /\ sweep'[r][s] = sweep[r][s]
    BY <1>3 DEF MarkDiscovered, set_status, TypeOK
  <2> QED
    BY <1>3, <2>1, <2>2 DEF MarkDiscovered, ConnectedIsBacked
<1> QED
  BY <1>1, <1>2, <1>3 DEF idle_cleanup_loop

LEMMA BackedOthers ==
    ASSUME TypeOK, ConnectedIsBacked,
           \/ \E c \in Conns : ServeStream(c) \/ EndReceive(c)
           \/ \E c \in Conns : \E p \in Ends(c) : send_file(p, c) \/ LearnClosed(c, p) \/ Lose(c, p)
           \/ \E p, q \in Peers : Announce(p, q) \/ Forget(p, q)
    PROVE  ConnectedIsBacked'
<1>1. UNCHANGED <<pc, active, sweep>>
  BY DEF ServeStream, EndReceive, send_file, BeginSend, OpenStream, EndSend, LearnClosed, Lose, Announce, Forget
<1>2. \A r, s \in Peers : status'[r][s] = "Connected" => status[r][s] = "Connected"
  <2>1. CASE status' = status
    BY <2>1
  <2>2. ASSUME NEW p \in Peers, NEW q \in Peers, Announce(p, q) \/ Forget(p, q)
        PROVE  \A r, s \in Peers : status'[r][s] = "Connected" => status[r][s] = "Connected"
    <3>1. PICK new \in {"absent", "Discovered"} : status' = [status EXCEPT ![p][q] = new]
      BY <2>2 DEF Announce, Forget
    <3> QED
      BY <3>1 DEF TypeOK
  <2> QED
    BY <2>1, <2>2 DEF ServeStream, EndReceive, send_file, BeginSend, OpenStream, EndSend, LearnClosed, Lose
<1> QED
  BY <1>1, <1>2, BackedFrame

LEMMA BackedStep == TypeOK /\ IdleTogether /\ ConnectedIsBacked /\ [Next]_vars => ConnectedIsBacked'
<1> SUFFICES ASSUME TypeOK, IdleTogether, ConnectedIsBacked, [Next]_vars PROVE ConnectedIsBacked'
  OBVIOUS
<1>1. CASE UNCHANGED vars
  BY <1>1, BackedFrame DEF vars
<1>2. CASE Next
  BY <1>2, BackedTasks, BackedCleanup, BackedOthers DEF Next
<1> QED
  BY <1>1, <1>2

(* No status outlives its connection. *)
THEOREM StatusesBacked == Spec => []ConnectedIsBacked
<1>1. Init => ConnectedIsBacked
  BY DEF Init, ConnectedIsBacked
<1> QED
  BY <1>1, BackedStep, TypeCorrect, BothIdle, PTL DEF Spec

(***************************************************************************)
(* Handles: each peer has one for each task, entry and transfer.           *)
(***************************************************************************)

EntriesMatch == \A p, q \in Peers : \A c \in Conns : active[p][q] = c => p \in Ends(c) /\ q = Other(c, p)

\* The handles to c that p should have.
Owed(c, p) ==
    One(pc[c][p] \in Busy \cup {"serving"}) + One(active[p][Other(c, p)] = c)
    + One(sends[p][c] # "none") + One(p = Acceptor[c] /\ incoming[c])

HandlesCounted == \A c \in Conns : \A p \in Ends(c) : refs[p][c] = Owed(c, p)

OpenIsHeld == \A c \in Conns : \A p \in Ends(c) : p \in up[c] => refs[p][c] > 0

StoredLate ==
    \A c \in Conns : \A p \in Ends(c) :
        pc[c][p] \in Busy \cup {"idle"} => active[p][Other(c, p)] # c

NotUsedYet ==
    \A c \in Conns : pc[c][Dialer[c]] = "idle" =>
        /\ \A p \in Ends(c) : pc[c][p] = "idle" /\ sends[p][c] = "none"
        /\ ~incoming[c]

HandleInv == EntriesMatch /\ HandlesCounted /\ OpenIsHeld /\ StoredLate /\ NotUsedYet

LEMMA HandleInit == Init => HandleInv
  BY EndsArePeers, ConnsAssumption
  DEF Init, HandleInv, EntriesMatch, HandlesCounted, Owed, One, OpenIsHeld, StoredLate, NotUsedYet, Busy

(* A step that takes and drops a handle as much as it changes what is owed *)
(* keeps the count, and what stays open held.                              *)
LEMMA ReholdCounts ==
    ASSUME TypeOK, HandleInv, NEW p \in Peers, NEW new, NEW old, Rehold(p, new, old),
           \A c \in Conns : \A r \in Ends(c) :
              Owed(c, r)' = IF r = p THEN (Owed(c, r) + One(c = new)) - One(c = old) ELSE Owed(c, r)
    PROVE  HandlesCounted' /\ OpenIsHeld'
<1>1. \A c \in Conns : \A r \in Peers :
         refs'[r][c] = IF r = p THEN (refs[r][c] + One(c = new)) - One(c = old) ELSE refs[r][c]
  BY DEF Rehold, TypeOK
<1>2. HandlesCounted'
  BY <1>1, EndsArePeers DEF HandleInv, HandlesCounted
<1>3. \A c \in Conns : \A r \in Ends(c) : Owed(c, r)' >= 0
  BY DEF Owed, One
<1>4. OpenIsHeld'
  <2> SUFFICES ASSUME NEW c \in Conns, NEW r \in Ends(c), r \in up'[c] PROVE refs'[r][c] > 0
    BY DEF OpenIsHeld
  <2>1. r \in Peers /\ r \in up[c] /\ refs[r][c] > 0
    BY EndsArePeers DEF Rehold, HandleInv, OpenIsHeld, TypeOK
  <2>2. CASE r = p /\ c = old
    <3>1. refs'[p][c] # 0
      BY <2>2 DEF Rehold, TypeOK
    <3>2. refs'[p][c] >= 0
      BY <1>2, <1>3, <2>2 DEF HandlesCounted
    <3> QED
      BY <2>2, <3>1, <3>2, <1>1, <2>1 DEF One, TypeOK
  <2>3. CASE ~(r = p /\ c = old)
    <3>1. One(c = new) \in Nat /\ (r = p => One(c = old) = 0) /\ refs[r][c] \in Int
      BY <2>1, <2>3 DEF One, TypeOK
    <3> QED
      BY <1>1, <2>1, <3>1
  <2> QED
    BY <2>2, <2>3
<1> QED
  BY <1>2, <1>4

(* A step that changes neither handles nor what is owed.                   *)
LEMMA SameCounts ==
    ASSUME HandleInv, UNCHANGED netVars,
           \A c \in Conns : \A r \in Ends(c) : Owed(c, r)' = Owed(c, r)
    PROVE  HandlesCounted' /\ OpenIsHeld'
  BY DEF HandleInv, HandlesCounted, OpenIsHeld, netVars

(* A task moves on; nothing else changes but its handle and the transfer   *)
(* it serves.                                                              *)
LEMMA HandleTasks ==
    ASSUME TypeOK, HandleInv, NEW c \in Conns, NEW p \in Ends(c), UNCHANGED <<active, incoming>>,
           NEW stage \in Stages \ {"idle"}, pc' = [pc EXCEPT ![c][p] = stage],
           \/ pc[c][p] \in Busy /\ stage \in Busy /\ UNCHANGED <<netVars, sends>>
           \/ pc[c][p] \in Busy /\ stage = "failed" /\ Drop(p, c) /\ UNCHANGED sends
           \/ pc[c][p] = "serving" /\ stage = "closed" /\ Drop(p, c) /\ UNCHANGED sends
           \/ /\ pc[c][p] = "serving" /\ stage = "closed" /\ Drop(p, c)
              /\ sends[Dialer[c]][c] = "requested"
              /\ sends' = [sends EXCEPT ![Dialer[c]][c] = "dropped"]
    PROVE  HandleInv'
<1> USE EndsArePeers
<1>1. p \in Peers /\ c # None
  BY ConnsAssumption
<1>2. \A d \in Conns : \A r \in Peers : pc'[d][r] = IF d = c /\ r = p THEN stage ELSE pc[d][r]
  BY <1>1 DEF TypeOK
<1>3. \A d \in Conns : \A r \in Peers : sends'[r][d] = "none" <=> sends[r][d] = "none"
  <2>1. CASE UNCHANGED sends
    BY <2>1
  <2>2. CASE /\ sends[Dialer[c]][c] = "requested"
             /\ sends' = [sends EXCEPT ![Dialer[c]][c] = "dropped"]
    BY <2>2 DEF TypeOK
  <2> QED
    BY <2>1, <2>2
<1>4. EntriesMatch' /\ StoredLate' /\ NotUsedYet'
  BY <1>1, <1>2, <1>3 DEF HandleInv, EntriesMatch, StoredLate, NotUsedYet, Busy
<1>5. CASE stage \in Busy
  <2>1. \A d \in Conns : \A r \in Ends(d) : Owed(d, r)' = Owed(d, r)
    BY <1>1, <1>2, <1>3, <1>5 DEF Owed, One, Busy
  <2> QED
    BY <1>4, <1>5, <2>1, SameCounts DEF HandleInv, Busy
<1>6. CASE stage \notin Busy
  <2>1. Rehold(p, None, c)
    BY <1>6 DEF Drop
  <2>2. \A d \in Conns : \A r \in Ends(d) :
           Owed(d, r)' = IF r = p THEN (Owed(d, r) + One(d = None)) - One(d = c) ELSE Owed(d, r)
    BY <1>1, <1>2, <1>3, <1>6, ConnsAssumption DEF Owed, One, Busy
  <2> QED
    BY <1>1, <1>4, <2>1, <2>2, ReholdCounts DEF HandleInv
<1> QED
  BY <1>5, <1>6

LEMMA HandleBegins ==
    ASSUME TypeOK, HandleInv, NEW c \in Conns, Dial(c)
    PROVE  HandleInv'
<1> USE EndsArePeers
<1>1. \A d \in Conns : \A r \in Ends(d) : pc'[d][r] = IF d = c THEN "exchange" ELSE pc[d][r]
  BY DEF Dial, TypeOK
<1>2. \A d \in Conns : \A r \in Ends(d) :
         /\ refs'[r][d] = IF d = c THEN 1 ELSE refs[r][d]
         /\ up'[d] = IF d = c THEN Ends(c) ELSE up[d]
  BY DEF Dial, TypeOK
<1>3. EntriesMatch' /\ StoredLate' /\ NotUsedYet'
  BY <1>1 DEF Dial, useVars, HandleInv, EntriesMatch, StoredLate, NotUsedYet, Ends
<1>4. \A d \in Conns : \A r \in Ends(d) : Owed(d, r)' = IF d = c THEN 1 ELSE Owed(d, r)
  <2> SUFFICES ASSUME NEW d \in Conns, NEW r \in Ends(d)
               PROVE  Owed(d, r)' = IF d = c THEN 1 ELSE Owed(d, r)
    OBVIOUS
  <2>1. UNCHANGED <<active, sends, incoming>>
    BY DEF Dial, useVars
  <2>2. CASE d = c
    <3>1. sends[r][c] = "none" /\ ~incoming[c] /\ active[r][Other(c, r)] # c
      BY <2>2 DEF Dial, HandleInv, StoredLate, NotUsedYet
    <3> QED
      BY <1>1, <2>1, <2>2, <3>1 DEF Owed, One, Busy
  <2>3. CASE d # c
    BY <1>1, <2>1, <2>3 DEF Owed
  <2> QED
    BY <2>2, <2>3
<1> QED
  BY <1>2, <1>3, <1>4 DEF HandleInv, HandlesCounted, OpenIsHeld

LEMMA HandleStore ==
    ASSUME TypeOK, HandleInv, NEW c \in Conns, NEW p \in Ends(c), Store(c, p)
    PROVE  HandleInv'
<1> USE EndsArePeers
<1> DEFINE q == Other(c, p)
           old == active[p][q]
           new == IF p = Acceptor[c] THEN c ELSE None
<1>1. p \in Peers /\ q \in Peers /\ c # None /\ old # c
  BY ConnsAssumption DEF Store, HandleInv, StoredLate, Busy
<1>2. \A r, s \in Peers : active'[r][s] = IF r = p /\ s = q THEN c ELSE active[r][s]
  BY <1>1 DEF Store, TypeOK
<1>3. \A d \in Conns : \A r \in Peers :
         pc'[d][r] = IF d = c /\ r = p THEN IF p = Acceptor[c] THEN "serving" ELSE "done" ELSE pc[d][r]
  BY <1>1 DEF Store, GoTo, TypeOK
<1>4. Rehold(p, new, old)
  BY DEF Store, Drop
<1>5. pc[c][p] = "store" /\ UNCHANGED <<sends, incoming>>
  BY DEF Store, useVars
<1>6. EntriesMatch' /\ StoredLate' /\ NotUsedYet'
  BY <1>1, <1>2, <1>3, <1>5 DEF HandleInv, EntriesMatch, StoredLate, NotUsedYet, Busy
<1>7. \A d \in Conns : \A r \in Ends(d) : d = c \/ d = old \/ r # p =>
         Owed(d, r)' = IF r = p THEN (Owed(d, r) + One(d = new)) - One(d = old) ELSE Owed(d, r)
  <2> SUFFICES ASSUME NEW d \in Conns, NEW r \in Ends(d), d = c \/ d = old \/ r # p
               PROVE  Owed(d, r)' = IF r = p THEN (Owed(d, r) + One(d = new)) - One(d = old) ELSE Owed(d, r)
    OBVIOUS
  <2>1. CASE d = c /\ r = p
    BY <1>1, <1>2, <1>3, <1>5, <2>1, ConnsAssumption DEF Owed, One, Busy
  <2>2. CASE d = old /\ r = p
    <3>1. Other(d, p) = q
      BY <1>1, <2>2 DEF HandleInv, EntriesMatch
    <3> QED
      BY <1>1, <1>2, <1>3, <1>5, <2>2, <3>1, ConnsAssumption DEF Owed, One
  <2>3. CASE r # p
    BY <1>1, <1>2, <1>3, <1>5, <2>3 DEF Owed, One
  <2> QED
    BY <2>1, <2>2, <2>3
<1>8. \A d \in Conns : d # c /\ d # old /\ p \in Ends(d) =>
         Owed(d, p)' = (Owed(d, p) + One(d = new)) - One(d = old)
  <2> SUFFICES ASSUME NEW d \in Conns, d # c, d # old, p \in Ends(d)
               PROVE  Owed(d, p)' = Owed(d, p) /\ Owed(d, p) \in Int /\ d # new
    BY <1>1 DEF One
  <2>1. active'[p][Other(d, p)] = d <=> active[p][Other(d, p)] = d
    BY <1>1, <1>2
  <2> QED
    BY <1>1, <1>3, <1>5, <2>1, ConnsAssumption DEF Owed, One
<1> QED
  BY <1>1, <1>4, <1>6, <1>7, <1>8, ReholdCounts DEF HandleInv

LEMMA HandleUses ==
    ASSUME TypeOK, HandleInv, NEW c \in Conns, NEW p \in Ends(c),
           send_file(p, c) \/ ServeStream(c) \/ EndReceive(c)
    PROVE  HandleInv'
<1> USE EndsArePeers, ConnsAssumption
<1>1. p \in Peers /\ c # None /\ UNCHANGED <<pc, active>>
  BY DEF send_file, BeginSend, OpenStream, EndSend, ServeStream, EndReceive
<1>2. EntriesMatch' /\ StoredLate'
  BY <1>1 DEF HandleInv, EntriesMatch, StoredLate
<1>3. CASE BeginSend(p, c)
  <2>1. \A d \in Conns : \A r \in Peers :
           sends'[r][d] = IF d = c /\ r = p THEN "cloned" ELSE sends[r][d]
    BY <1>3 DEF BeginSend, TypeOK
  <2>2. \A d \in Conns : \A r \in Ends(d) :
           Owed(d, r)' = IF r = p THEN (Owed(d, r) + One(d = c)) - One(d = None) ELSE Owed(d, r)
    BY <1>1, <1>3, <2>1 DEF BeginSend, Owed, One
  <2>3. NotUsedYet'
    BY <1>1, <1>3, <2>1 DEF BeginSend, HandleInv, NotUsedYet, StoredLate, Ends
  <2> QED
    BY <1>1, <1>2, <1>3, <2>2, <2>3, ReholdCounts DEF BeginSend, Take, HandleInv
<1>4. CASE OpenStream(p, c)
  <2>1. \A d \in Conns : \A r \in Peers : sends'[r][d] = "none" <=> sends[r][d] = "none"
    BY <1>4 DEF OpenStream, TypeOK
  <2>2. \A d \in Conns : \A r \in Ends(d) : Owed(d, r)' = Owed(d, r)
    BY <1>1, <1>4, <2>1 DEF OpenStream, Owed, One
  <2>3. NotUsedYet'
    BY <1>1, <1>4, <2>1 DEF OpenStream, HandleInv, NotUsedYet
  <2> QED
    BY <1>2, <1>4, <2>2, <2>3, SameCounts DEF OpenStream, HandleInv
<1>5. CASE ServeStream(c)
  <2> DEFINE new == IF incoming[c] THEN None ELSE c
  <2>1. \A d \in Conns : \A r \in Peers : sends'[r][d] = "none" <=> sends[r][d] = "none"
    BY <1>5 DEF ServeStream, TypeOK
  <2>2. \A d \in Conns : incoming'[d] = IF d = c THEN TRUE ELSE incoming[d]
    BY <1>5 DEF ServeStream, TypeOK
  <2>3. \A d \in Conns : \A r \in Ends(d) :
           Owed(d, r)' = IF r = Acceptor[c] THEN (Owed(d, r) + One(d = new)) - One(d = None) ELSE Owed(d, r)
    BY <1>1, <1>5, <2>1, <2>2 DEF ServeStream, Owed, One, TypeOK
  <2>4. NotUsedYet'
    BY <1>1, <1>5, <2>1, <2>2 DEF ServeStream, HandleInv, NotUsedYet, Ends
  <2> QED
    BY <1>2, <1>5, <2>3, <2>4, ReholdCounts DEF ServeStream, Take, HandleInv
<1>6. CASE EndReceive(c)
  <2>1. \A d \in Conns : incoming'[d] = IF d = c THEN FALSE ELSE incoming[d]
    BY <1>6 DEF EndReceive, TypeOK
  <2>2. \A d \in Conns : \A r \in Ends(d) :
           Owed(d, r)' = IF r = Acceptor[c] THEN (Owed(d, r) + One(d = None)) - One(d = c) ELSE Owed(d, r)
    BY <1>1, <1>6, <2>1 DEF EndReceive, Owed, One, TypeOK
  <2>3. NotUsedYet'
    BY <1>1, <1>6, <2>1 DEF EndReceive, HandleInv, NotUsedYet
  <2> QED
    BY <1>2, <1>6, <2>2, <2>3, ReholdCounts DEF EndReceive, Drop, HandleInv
<1>7. CASE EndSend(p, c)
  <2>1. \A d \in Conns : \A r \in Peers :
           sends'[r][d] = IF d = c /\ r = p THEN "none" ELSE sends[r][d]
    BY <1>7 DEF EndSend, TypeOK
  <2>2. \A d \in Conns : \A r \in Ends(d) :
           Owed(d, r)' = IF r = p THEN (Owed(d, r) + One(d = None)) - One(d = c) ELSE Owed(d, r)
    BY <1>1, <1>7, <2>1 DEF EndSend, Owed, One
  <2>3. NotUsedYet'
    BY <1>1, <1>7, <2>1 DEF EndSend, HandleInv, NotUsedYet
  <2> QED
    BY <1>1, <1>2, <1>7, <2>2, <2>3, ReholdCounts DEF EndSend, Drop, HandleInv
<1> QED
  BY <1>3, <1>4, <1>5, <1>6, <1>7 DEF send_file

LEMMA HandleRemoval ==
    ASSUME TypeOK, HandleInv, NEW p \in Peers, NEW q \in Peers, RemoveEntry(p, q)
    PROVE  HandleInv'
<1> USE EndsArePeers, ConnsAssumption
<1> DEFINE old == active[p][q]
<1>1. \A r, s \in Peers : active'[r][s] = IF r = p /\ s = q THEN None ELSE active[r][s]
  BY DEF RemoveEntry, TypeOK
<1>2. UNCHANGED <<pc, sends, incoming>> /\ Rehold(p, None, old)
  BY DEF RemoveEntry, Drop, useVars
<1>3. EntriesMatch' /\ StoredLate' /\ NotUsedYet'
  BY <1>1, <1>2 DEF HandleInv, EntriesMatch, StoredLate, NotUsedYet
<1>4. \A d \in Conns : \A r \in Ends(d) :
         Owed(d, r)' = IF r = p THEN (Owed(d, r) + One(d = None)) - One(d = old) ELSE Owed(d, r)
  <2> SUFFICES ASSUME NEW d \in Conns, NEW r \in Ends(d)
               PROVE  Owed(d, r)' = IF r = p THEN (Owed(d, r) + One(d = None)) - One(d = old) ELSE Owed(d, r)
    OBVIOUS
  <2>1. CASE d = old /\ r = p
    <3>1. Other(d, p) = q
      BY <2>1 DEF HandleInv, EntriesMatch
    <3> QED
      BY <1>1, <1>2, <2>1, <3>1 DEF Owed, One
  <2>2. CASE r # p
    BY <1>1, <1>2, <2>2 DEF Owed, One
  <2>3. CASE d # old /\ r = p
    BY <1>1, <1>2, <2>3 DEF Owed, One
  <2> QED
    BY <2>1, <2>2, <2>3
<1> QED
  BY <1>2, <1>3, <1>4, ReholdCounts DEF HandleInv

LEMMA HandleStep == TypeOK /\ HandleInv /\ [Next]_vars => HandleInv'
<1> SUFFICES ASSUME TypeOK, HandleInv, [Next]_vars PROVE HandleInv'
  OBVIOUS
<1> USE EndsArePeers
<1>1. ASSUME UNCHANGED <<pc, netVars, active, useVars>> PROVE HandleInv'
  BY <1>1 DEF HandleInv, EntriesMatch, HandlesCounted, Owed, OpenIsHeld, StoredLate, NotUsedYet,
     netVars, useVars
<1>2. ASSUME NEW c \in Conns, connect_to_peer(c) \/ accept_loop(c) PROVE HandleInv'
  <2>1. ASSUME NEW p \in Ends(c), Store(c, p) PROVE HandleInv'
    BY <2>1, HandleStore
  <2>2. ASSUME NEW p \in Ends(c), Ensure(c, p) \/ Mark(c, p) \/ ExchangeFails(c, p) PROVE HandleInv'
    BY <2>2, HandleTasks DEF Ensure, Mark, ExchangeFails, GoTo, useVars, Stages, Busy
  <2>3. CASE ReadInfo(c) \/ AnswerInfo(c)
    BY <2>3, HandleTasks DEF ReadInfo, AnswerInfo, GoTo, useVars, Stages, Busy, Ends
  <2>4. CASE ServingEnds(c) \/ ServingBreaks(c)
    BY <2>4, HandleTasks DEF ServingEnds, ServingBreaks, EndServing, GoTo, useVars, Stages, Ends
  <2> QED
    BY <1>2, <2>1, <2>2, <2>3, <2>4 DEF connect_to_peer, accept_loop, Finish, Ends
<1>3. ASSUME NEW c \in Conns, NEW p \in Ends(c), LearnClosed(c, p) \/ Lose(c, p) PROVE HandleInv'
  <2>1. UNCHANGED <<pc, refs, active, useVars>> /\ \A d \in Conns : up'[d] \subseteq up[d]
    BY <1>3 DEF LearnClosed, Lose, TypeOK
  <2> QED
    BY <2>1 DEF HandleInv, EntriesMatch, HandlesCounted, Owed, OpenIsHeld, StoredLate, NotUsedYet, useVars
<1>4. ASSUME NEW p \in Peers, idle_cleanup_loop(p) PROVE HandleInv'
  BY <1>1, <1>4, HandleRemoval DEF idle_cleanup_loop, Collect, MarkDiscovered
<1>5. ASSUME NEW p \in Peers, NEW q \in Peers, Announce(p, q) \/ Forget(p, q) PROVE HandleInv'
  BY <1>1, <1>5 DEF Announce, Forget
<1>6. CASE UNCHANGED vars
  BY <1>1, <1>6 DEF vars
<1> QED
  BY <1>2, <1>3, <1>4, <1>5, <1>6, HandleBegins, HandleUses DEF Next, Ends

LEMMA HandlesKept == Spec => []HandleInv
  BY HandleInit, HandleStep, TypeCorrect, PTL DEF Spec

(* Over every step of tasks, table, clean-up and transfers, what keeps a   *)
(* connection open where its task is over is an entry or a transfer.       *)
THEOREM NothingLeaks == Spec => []LiveIsListed
<1>1. TypeOK /\ HandleInv => LiveIsListed
  BY DEF HandleInv, HandlesCounted, OpenIsHeld, Owed, One, LiveIsListed, Busy
<1> QED
  BY <1>1, HandlesKept, TypeCorrect, PTL

(***************************************************************************)
(* Dials of one peer never harm each other.                                *)
(***************************************************************************)

(* Nothing is lost, streams begin with a message, and no two peers dial    *)
(* each other.                                                             *)
OneWay ==
    /\ ~LossPossible
    /\ ~BadRequests
    /\ \A c, d \in Conns : ~(Dialer[c] = Acceptor[d] /\ Acceptor[c] = Dialer[d])

\* While the dialler makes or lists a connection, it is open and the other
\* end has a task for it.
HeldIsOpen ==
    \A c \in Conns :
        (pc[c][Dialer[c]] \in Busy \/ active[Dialer[c]][Acceptor[c]] = c) =>
            /\ up[c] = Ends(c)
            /\ pc[c][Acceptor[c]] \in Busy \cup {"serving"}

NeverSwept == \A c \in Conns : sweep[Dialer[c]][Acceptor[c]] = "no"

ReturnedIsListed == \A c \in Conns : pc[c][Dialer[c]] = "done" => active[Dialer[c]][Acceptor[c]] # None

DialInv == HeldIsOpen /\ NeverSwept /\ ReturnedIsListed

LEMMA DialInit == Init => DialInv
  BY EndsArePeers, ConnsAssumption DEF Init, DialInv, HeldIsOpen, NeverSwept,
     ReturnedIsListed, Busy

(* A connection held at both ends stays open when handles are dropped.     *)
LEMMA HeldStays ==
    ASSUME TypeOK, HandlesCounted', NEW p \in Peers, NEW new, NEW old, Rehold(p, new, old),
           NEW c \in Conns, up[c] = Ends(c),
           pc'[c][Dialer[c]] \in Busy \/ active'[Dialer[c]][Acceptor[c]] = c,
           pc'[c][Acceptor[c]] \in Busy \cup {"serving"}
    PROVE  up'[c] = Ends(c)
<1>1. \A r \in Ends(c) : refs'[r][c] # 0
  BY EndsArePeers DEF HandlesCounted, Owed, One, Ends, Other
<1> QED
  BY <1>1 DEF Rehold, TypeOK

(* The dialler's entry for the peer it dials is a connection it dialled.   *)
LEMMA EntryIsDialled ==
    ASSUME OneWay, HandleInv, NEW c \in Conns, NEW d \in Conns,
           active[Dialer[c]][Acceptor[c]] = d
    PROVE  Dialer[d] = Dialer[c] /\ Acceptor[d] = Acceptor[c]
  BY EndsArePeers DEF OneWay, HandleInv, EntriesMatch, Ends, Other

(* The steps of the tasks up to the store, and the end of a loop.          *)
LEMMA DialTasks ==
    ASSUME TypeOK, HandlesCounted', DialInv, NEW c \in Conns, NEW p \in Ends(c),
           pc[c][p] \in Busy \cup {"serving"}, UNCHANGED <<active, sweep>>,
           \/ /\ \E stage \in Busy : pc' = [pc EXCEPT ![c][p] = stage]
              /\ pc[c][p] \in Busy
              /\ up' = up
           \/ /\ \E stage \in {"failed", "closed"} : pc' = [pc EXCEPT ![c][p] = stage]
              /\ p \notin up[c]
              /\ Drop(p, c)
    PROVE  DialInv'
<1> USE EndsArePeers
<1>1. p \in Peers
  OBVIOUS
<1>2. \A d \in Conns : \A r \in Peers : (d # c \/ r # p) => pc'[d][r] = pc[d][r]
  BY DEF TypeOK
<1>3. pc'[c][p] \notin {"idle", "done"}
  BY <1>1 DEF TypeOK, Busy
<1>4. \A d \in Conns : up'[d] \subseteq up[d] /\ (up'[d] = up[d] \/ d = c)
  BY DEF Drop, Rehold, TypeOK
<1>5. HeldIsOpen'
  <2> SUFFICES ASSUME NEW d \in Conns, (pc[d][Dialer[d]] \in Busy \/ active[Dialer[d]][Acceptor[d]] = d)'
               PROVE  up'[d] = Ends(d) /\ pc'[d][Acceptor[d]] \in Busy \cup {"serving"}
    BY DEF HeldIsOpen
  <2>1. CASE d # c
    BY <1>2, <1>4, <2>1 DEF DialInv, HeldIsOpen
  <2>2. CASE d = c /\ pc'[c][p] \in Busy
    <3>1. pc[c][p] \in Busy /\ up' = up
      BY <1>1, <2>2 DEF TypeOK, Busy
    <3>2. pc[c][Dialer[c]] \in Busy \/ active[Dialer[c]][Acceptor[c]] = c
      BY <1>2, <2>2, <3>1
    <3> QED
      BY <1>2, <2>2, <3>1, <3>2 DEF DialInv, HeldIsOpen
  <2>3. CASE d = c /\ pc'[c][p] \notin Busy
    <3>1. p \notin up[c] /\ pc'[c][p] \in {"failed", "closed"}
      BY <1>1, <2>3 DEF TypeOK
    <3>2. pc[c][Dialer[c]] \notin Busy /\ active[Dialer[c]][Acceptor[c]] # c
      BY <3>1 DEF DialInv, HeldIsOpen
    <3>3. FALSE
      BY <1>2, <2>3, <3>1, <3>2 DEF Busy
    <3> QED
      BY <3>3
  <2> QED
    BY <2>1, <2>2, <2>3
<1>6. ReturnedIsListed'
  BY <1>2, <1>3 DEF DialInv, ReturnedIsListed
<1> QED
  BY <1>5, <1>6 DEF DialInv, NeverSwept

LEMMA DialBegins ==
    ASSUME TypeOK, DialInv, NEW c \in Conns, Dial(c)
    PROVE  DialInv'
<1> USE EndsArePeers
<1>1. \A d \in Conns : \A p \in Peers : d # c => pc'[d][p] = pc[d][p] /\ up'[d] = up[d]
  BY DEF Dial, TypeOK
<1>2. up'[c] = Ends(c) /\ \A p \in Ends(c) : pc'[c][p] = "exchange"
  BY DEF Dial, TypeOK
<1>3. HeldIsOpen'
  BY <1>1, <1>2 DEF Dial, DialInv, HeldIsOpen, Busy, Ends
<1>4. ReturnedIsListed'
  BY <1>1, <1>2 DEF Dial, DialInv, ReturnedIsListed, Ends
<1> QED
  BY <1>3, <1>4 DEF Dial, DialInv, NeverSwept

LEMMA DialStores ==
    ASSUME OneWay, TypeOK, HandleInv, HandlesCounted', DialInv, NEW c \in Conns, NEW p \in Ends(c), Store(c, p)
    PROVE  DialInv'
<1> USE EndsArePeers
<1> DEFINE q == Other(c, p)
<1>1. p \in Peers /\ q \in Peers /\ c # None
  BY ConnsAssumption
<1>2. active'[p][q] = c /\ \A r, s \in Peers : (r # p \/ s # q) => active'[r][s] = active[r][s]
  BY <1>1 DEF Store, TypeOK
<1>3. \A d \in Conns : \A r \in Peers : (d # c \/ r # p) => pc'[d][r] = pc[d][r]
  BY DEF Store, GoTo, TypeOK
<1>4. pc[c][p] \in Busy /\ pc'[c][p] = IF p = Acceptor[c] THEN "serving" ELSE "done"
  BY <1>1 DEF Store, GoTo, TypeOK, Busy
<1>8. PICK new, old : Rehold(p, new, old)
  BY DEF Store, Drop
<1>6. HeldIsOpen'
  <2> SUFFICES ASSUME NEW d \in Conns, (pc[d][Dialer[d]] \in Busy \/ active[Dialer[d]][Acceptor[d]] = d)'
               PROVE  up'[d] = Ends(d) /\ pc'[d][Acceptor[d]] \in Busy \cup {"serving"}
    BY DEF HeldIsOpen
  <2>1. pc[d][Dialer[d]] \in Busy \/ active[Dialer[d]][Acceptor[d]] = d
    <3>1. CASE d = c /\ p = Dialer[c]
      BY <1>4, <3>1
    <3>2. CASE d = c /\ p # Dialer[c]
      BY <1>1, <1>2, <1>3, <3>2 DEF Ends, Other
    <3>3. CASE d # c
      BY <1>1, <1>2, <1>3, <3>3
    <3> QED
      BY <3>1, <3>2, <3>3
  <2>2. up[d] = Ends(d) /\ pc[d][Acceptor[d]] \in Busy \cup {"serving"}
    BY <2>1 DEF DialInv, HeldIsOpen
  <2>3. pc'[d][Acceptor[d]] \in Busy \cup {"serving"}
    BY <1>3, <1>4, <2>2
  <2> QED
    BY <1>1, <2>1, <2>2, <2>3, <1>8, HeldStays
<1>7. ReturnedIsListed'
  BY <1>1, <1>2, <1>3, <1>4 DEF DialInv, ReturnedIsListed, Ends, Other
<1> QED
  BY <1>6, <1>7 DEF Store, DialInv, NeverSwept

LEMMA DialCleanup ==
    ASSUME OneWay, TypeOK, HandleInv, HandlesCounted', DialInv, NEW p \in Peers, idle_cleanup_loop(p)
    PROVE  DialInv'
<1> USE EndsArePeers
<1>1. CASE Collect(p)
  <2>1. ASSUME NEW c \in Conns, p = Dialer[c], active[p][Acceptor[c]] # None
        PROVE  p \in up[active[p][Acceptor[c]]]
    <3>1. PICK d \in Conns : active[p][Acceptor[c]] = d
      BY <2>1 DEF TypeOK
    <3>2. Dialer[d] = Dialer[c] /\ Acceptor[d] = Acceptor[c]
      BY <2>1, <3>1, EntryIsDialled
    <3> QED
      BY <2>1, <3>1, <3>2 DEF DialInv, HeldIsOpen, Ends
  <2>2. NeverSwept'
    BY <1>1, <2>1 DEF Collect, DialInv, NeverSwept, TypeOK
  <2> QED
    BY <1>1, <2>2 DEF Collect, netVars, DialInv, HeldIsOpen, ReturnedIsListed
<1>2. ASSUME NEW q \in Peers, RemoveEntry(p, q) PROVE DialInv'
  <2>1. \A c \in Conns : p # Dialer[c] \/ q # Acceptor[c]
    BY <1>2 DEF RemoveEntry, DialInv, NeverSwept
  <2>2. active'[p][q] = None
    BY <1>2 DEF RemoveEntry, TypeOK
  <2>3. \A r, s \in Peers : (r # p \/ s # q) =>
           active'[r][s] = active[r][s] /\ sweep'[r][s] = sweep[r][s]
    BY <1>2 DEF RemoveEntry, TypeOK
  <2>4. HeldIsOpen'
    BY <1>2, <2>1, <2>3, HeldStays DEF RemoveEntry, Drop, DialInv, HeldIsOpen
  <2>6. NeverSwept' /\ ReturnedIsListed'
    BY <1>2, <2>1, <2>3 DEF RemoveEntry, DialInv, NeverSwept, ReturnedIsListed
  <2> QED
    BY <2>4, <2>6 DEF DialInv
<1>3. ASSUME NEW q \in Peers, MarkDiscovered(p, q) PROVE DialInv'
  <2>1. NeverSwept'
    BY <1>3 DEF MarkDiscovered, DialInv, NeverSwept, TypeOK
  <2> QED
    BY <1>3, <2>1 DEF MarkDiscovered, netVars, DialInv, HeldIsOpen, ReturnedIsListed
<1> QED
  BY <1>1, <1>2, <1>3 DEF idle_cleanup_loop

LEMMA DialOthers ==
    ASSUME OneWay, TypeOK, HandleInv, HandlesCounted', DialInv,
           \/ \E c \in Conns : ServeStream(c) \/ EndReceive(c)
           \/ \E c \in Conns : \E p \in Ends(c) : send_file(p, c) \/ LearnClosed(c, p) \/ Lose(c, p)
           \/ \E p, q \in Peers : Announce(p, q) \/ Forget(p, q)
    PROVE  DialInv'
<1>1. UNCHANGED <<pc, active, sweep>>
  BY DEF ServeStream, EndReceive, send_file, BeginSend, OpenStream, EndSend, LearnClosed, Lose, Announce, Forget
<1>2. HeldIsOpen'
  <2>1. CASE up' = up
    BY <1>1, <2>1 DEF DialInv, HeldIsOpen
  <2>2. ASSUME NEW p \in Peers, NEW new, NEW old, Rehold(p, new, old) PROVE HeldIsOpen'
    BY <1>1, <2>2, HeldStays DEF DialInv, HeldIsOpen
  <2>3. ASSUME NEW c \in Conns, NEW p \in Ends(c), LearnClosed(c, p) PROVE HeldIsOpen'
    BY <1>1, <2>3 DEF LearnClosed, DialInv, HeldIsOpen, TypeOK
  <2>4. ASSUME NEW c \in Conns, ServeStream(c) \/ EndReceive(c) PROVE HeldIsOpen'
    BY <2>2, <2>4, EndsArePeers DEF ServeStream, EndReceive, Take, Drop
  <2>5. ASSUME NEW c \in Conns, NEW p \in Ends(c), send_file(p, c) PROVE HeldIsOpen'
    BY <2>1, <2>2, <2>5, EndsArePeers
    DEF send_file, BeginSend, OpenStream, EndSend, Take, Drop, netVars
  <2> QED
    BY <2>1, <2>3, <2>4, <2>5 DEF OneWay, Lose, Announce, Forget, netVars
<1> QED
  BY <1>1, <1>2 DEF DialInv, NeverSwept, ReturnedIsListed

LEMMA DialStep == OneWay /\ TypeOK /\ HandleInv /\ DialInv /\ [Next]_vars => DialInv'
<1> SUFFICES ASSUME OneWay, TypeOK, HandleInv, DialInv, [Next]_vars PROVE DialInv'
  OBVIOUS
<1> HandlesCounted'
  BY HandleStep DEF HandleInv
<1> USE EndsArePeers
<1>1. CASE UNCHANGED vars
  BY <1>1 DEF vars, netVars, DialInv, HeldIsOpen, NeverSwept, ReturnedIsListed
<1>2. ASSUME NEW c \in Conns, connect_to_peer(c) \/ accept_loop(c) PROVE DialInv'
  <2>1. ASSUME NEW p \in Ends(c), Store(c, p) PROVE DialInv'
    BY <2>1, DialStores
  <2>2. ASSUME NEW p \in Ends(c), Ensure(c, p) \/ Mark(c, p) \/ ExchangeFails(c, p) PROVE DialInv'
    BY <2>2, DialTasks DEF Ensure, Mark, ExchangeFails, GoTo, netVars, Busy
  <2>3. CASE ReadInfo(c) \/ AnswerInfo(c) \/ ServingEnds(c)
    BY <2>3, DialTasks DEF ReadInfo, AnswerInfo, ServingEnds, EndServing, GoTo, netVars, Busy, Ends
  <2>4. ~ServingBreaks(c)
    BY DEF ServingBreaks, OneWay
  <2> QED
    BY <1>2, <2>1, <2>2, <2>3, <2>4 DEF connect_to_peer, accept_loop, Finish, Ends
<1> QED
  BY <1>1, <1>2, DialBegins, DialCleanup, DialOthers DEF Next

(* A dial that has returned leaves an open entry for good, however many    *)
(* dials there are, if nothing is lost, streams begin with a message, and  *)
(* no two peers dial each other.                                           *)
THEOREM RedialsAreSafe == OneWay => (Spec => []DialledStays)
<1> SUFFICES ASSUME OneWay PROVE Spec => []DialledStays
  OBVIOUS
<1>1. TypeOK /\ HandleInv /\ DialInv => DialledStays
  <2> SUFFICES ASSUME TypeOK, HandleInv, DialInv, NEW c \in Conns, pc[c][Dialer[c]] = "done"
               PROVE  \E d \in Conns : active[Dialer[c]][Acceptor[c]] = d /\ up[d] = Ends(d)
    BY DEF DialledStays
  <2>1. PICK d \in Conns : active[Dialer[c]][Acceptor[c]] = d
    BY EndsArePeers DEF DialInv, ReturnedIsListed, TypeOK
  <2>2. Dialer[d] = Dialer[c] /\ Acceptor[d] = Acceptor[c]
    BY <2>1, EntryIsDialled
  <2> QED
    BY <2>1, <2>2 DEF DialInv, HeldIsOpen
<1>2. TypeOK /\ HandleInv /\ DialInv /\ [Next]_vars => DialInv'
  BY DialStep
<1> QED
  BY <1>1, <1>2, DialInit, HandlesKept, TypeCorrect, PTL DEF Spec
=============================================================================
