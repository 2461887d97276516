--------------------------- MODULE PeerConnections ---------------------------
(***************************************************************************)
(* The connections between peers (frontend/src-tauri/src/p2p_engine.rs):   *)
(* connect_to_peer at the peer that dials, the task of accept_loop at the  *)
(* peer that answers and the loop that serves the connection's streams,    *)
(* the table active_connections of each peer, the status of peers in its   *)
(* registry, the clean-up of closed connections, and the transfers that    *)
(* use a connection.                                                       *)
(*                                                                         *)
(* A quinn connection is a handle that can be cloned, and that is counted; *)
(* a peer that drops its last handle closes the connection.  Tasks, the    *)
(* table and transfers hold handles.  A table has one entry for each peer, *)
(* and an insert drops the handle that was there.                          *)
(***************************************************************************)
EXTENDS Integers

CONSTANTS
    Peers,        \* instances of the application, named by their fingerprints
    Conns,        \* connections: one for each call of connect_to_peer
    Dialer,       \* the peer that calls it
    Acceptor,     \* the peer it is given the address of
    None,         \* no entry in the table
    Senders,      \* the peers whose users send files
    Discovery,    \* do mDNS and the eviction of stale peers change the registry
    BadRequests,  \* may the first message of a stream not be readable
    LossPossible  \* may a connection be lost (idle timeout, network, crash)

ASSUME ConnsAssumption ==
    /\ Dialer \in [Conns -> Peers]
    /\ Acceptor \in [Conns -> Peers]
    /\ \A c \in Conns : Dialer[c] # Acceptor[c]
    /\ None \notin Conns
    /\ Senders \subseteq Peers
    /\ Discovery \in BOOLEAN
    /\ BadRequests \in BOOLEAN
    /\ LossPossible \in BOOLEAN

VARIABLES
    pc,      \* pc[c][p]: where p's task for the connection c stands
    up,      \* up[c]: the ends at which c is not closed
    refs,    \* refs[p][c]: how many handles to c the peer p has
    active,  \* active[p][q]: active_connections of p
    status,  \* status[p][q]: the status of q in p's registry
    sweep,   \* sweep[p][q]: what idle_cleanup_loop of p is doing about q
    sends,   \* sends[p][c]: where a send_file of p over c stands
    incoming \* incoming[c]: does the accepting peer receive files over c

netVars == <<up, refs>>
useVars == <<sends, incoming>>
vars == <<pc, netVars, active, status, sweep, useVars>>

Ends(c)     == {Dialer[c], Acceptor[c]}
Other(c, p) == IF p = Dialer[c] THEN Acceptor[c] ELSE Dialer[c]

\* The stages of connect_to_peer and of the accepting task.
Busy   == {"exchange", "ensure", "mark", "store"}
Stages == Busy \cup {"idle", "done", "serving", "closed", "failed"}

Statuses == {"absent", "Discovered", "Connected"}

TypeOK ==
    /\ pc \in [Conns -> [Peers -> Stages]]
    /\ up \in [Conns -> SUBSET Peers]
    /\ refs \in [Peers -> [Conns -> Int]]
    /\ active \in [Peers -> [Peers -> Conns \cup {None}]]
    /\ status \in [Peers -> [Peers -> Statuses]]
    /\ sweep \in [Peers -> [Peers -> {"no", "collected", "removed"}]]
    /\ sends \in [Peers -> [Conns -> {"none", "cloned", "requested", "served", "dropped"}]]
    /\ incoming \in [Conns -> BOOLEAN]

Init ==
    /\ pc = [c \in Conns |-> [p \in Peers |-> "idle"]]
    /\ up = [c \in Conns |-> {}]
    /\ refs = [p \in Peers |-> [c \in Conns |-> 0]]
    /\ active = [p \in Peers |-> [q \in Peers |-> None]]
    /\ status = [p \in Peers |-> [q \in Peers |-> "absent"]]
    /\ sweep = [p \in Peers |-> [q \in Peers |-> "no"]]
    /\ sends = [p \in Peers |-> [c \in Conns |-> "none"]]
    /\ incoming = [c \in Conns |-> FALSE]

-----------------------------------------------------------------------------
(* Handles. *)

One(b) == IF b THEN 1 ELSE 0

\* p comes by a handle to `new` and drops one to `old`; None stands for no
\* connection.  Dropping the last one closes the connection at this end.
Rehold(p, new, old) ==
    /\ refs' = [refs EXCEPT ![p] = [c \in Conns |-> (@[c] + One(c = new)) - One(c = old)]]
    /\ up' = [c \in Conns |-> IF c = old /\ refs'[p][c] = 0 THEN up[c] \ {p} ELSE up[c]]

Take(p, c) == Rehold(p, c, None)
Drop(p, c) == Rehold(p, None, c)

-----------------------------------------------------------------------------
(* The tasks that make a connection. *)

\* connect_with and the incoming connection at the other peer; a dial that
\* fails there changes nothing.
Dial(c) ==
    /\ pc[c][Dialer[c]] = "idle"
    /\ pc' = [pc EXCEPT ![c] = [p \in Peers |-> IF p \in Ends(c) THEN "exchange" ELSE @[p]]]
    /\ up' = [up EXCEPT ![c] = Ends(c)]
    /\ refs' = [p \in Peers |-> [refs[p] EXCEPT ![c] = IF p \in Ends(c) THEN 1 ELSE @]]
    /\ UNCHANGED <<active, status, sweep, useVars>>

GoTo(c, p, stage) == pc' = [pc EXCEPT ![c][p] = stage]

\* exchange_peer_info: the answer arrived, which a connection closed since
\* may still hand over.
ReadInfo(c) ==
    /\ pc[c][Dialer[c]] = "exchange"
    /\ pc[c][Acceptor[c]] \notin {"exchange", "failed"}
    /\ GoTo(c, Dialer[c], "ensure")
    /\ UNCHANGED <<netVars, active, status, sweep, useVars>>

\* handle_incoming_peer_info: read the dialer's message, send our own.
AnswerInfo(c) ==
    /\ pc[c][Acceptor[c]] = "exchange"
    /\ Acceptor[c] \in up[c]
    /\ GoTo(c, Acceptor[c], "ensure")
    /\ UNCHANGED <<netVars, active, status, sweep, useVars>>

\* Either exchange fails when the connection is closed.
ExchangeFails(c, p) ==
    /\ pc[c][p] = "exchange"
    /\ p \notin up[c]
    /\ GoTo(c, p, "failed")
    /\ Drop(p, c)
    /\ UNCHANGED <<active, status, sweep, useVars>>

\* The peer is entered in the registry unless it is there.
Ensure(c, p) ==
    /\ pc[c][p] = "ensure"
    /\ status' = [status EXCEPT ![p][Other(c, p)] = IF @ = "absent" THEN "Connected" ELSE @]
    /\ GoTo(c, p, "mark")
    /\ UNCHANGED <<netVars, active, sweep, useVars>>

\* PeerRegistry::set_status, which does nothing for a peer it does not have.
set_status(p, q, new) == status' = [status EXCEPT ![p][q] = IF @ = "absent" THEN @ ELSE new]

Mark(c, p) ==
    /\ pc[c][p] = "mark"
    /\ set_status(p, Other(c, p), "Connected")
    /\ GoTo(c, p, "store")
    /\ UNCHANGED <<netVars, active, sweep, useVars>>

\* Mutant: the accepting task starts no loop, and only the table keeps the handle.
StoreOnly(c, p) ==
    LET q == Other(c, p) IN
    /\ pc[c][p] = "store"
    /\ active' = [active EXCEPT ![p][q] = c]
    /\ GoTo(c, p, IF p = Acceptor[c] THEN "closed" ELSE "done")
    /\ Drop(p, active[p][q])
    /\ UNCHANGED <<status, sweep, useVars>>

\* The insert drops the handle of the entry it replaces.  connect_to_peer gives
\* its own handle to the table and returns; the accepting task gives a clone
\* and goes on to serve the connection's streams.
Store(c, p) ==
    LET q == Other(c, p) IN
    /\ pc[c][p] = "store"
    /\ active' = [active EXCEPT ![p][q] = c]
    /\ IF p = Acceptor[c]
         THEN GoTo(c, p, "serving") /\ Rehold(p, c, active[p][q])
         ELSE GoTo(c, p, "done") /\ Drop(p, active[p][q])
    /\ UNCHANGED <<status, sweep, useVars>>

\* The loop ends, and with it its handle.
EndServing(c) == GoTo(c, Acceptor[c], "closed") /\ Drop(Acceptor[c], c)

\* Mutant: the loop ends when the table has lost its entry.
ServingEndsUnlisted(c) ==
    /\ pc[c][Acceptor[c]] = "serving"
    /\ active[Acceptor[c]][Dialer[c]] = None
    /\ EndServing(c)
    /\ UNCHANGED <<active, status, sweep, useVars>>

\* accept_bi fails once the connection is closed, and the loop ends.
ServingEnds(c) ==
    /\ pc[c][Acceptor[c]] = "serving"
    /\ Acceptor[c] \notin up[c]
    /\ EndServing(c)
    /\ UNCHANGED <<active, status, sweep, useVars>>

\* recv_message fails on the first message of a stream: the loop ends although
\* the connection does not, and drops the stream.
ServingBreaks(c) ==
    /\ BadRequests
    /\ pc[c][Acceptor[c]] = "serving"
    /\ Acceptor[c] \in up[c]
    /\ sends[Dialer[c]][c] = "requested"
    /\ sends' = [sends EXCEPT ![Dialer[c]][c] = "dropped"]
    /\ EndServing(c)
    /\ UNCHANGED <<active, status, sweep, incoming>>

Finish(c, p) == Ensure(c, p) \/ Mark(c, p) \/ Store(c, p)

connect_to_peer(c) == ReadInfo(c) \/ ExchangeFails(c, Dialer[c]) \/ Finish(c, Dialer[c])

accept_loop(c) ==
    \/ AnswerInfo(c) \/ ExchangeFails(c, Acceptor[c]) \/ Finish(c, Acceptor[c])
    \/ ServingEnds(c) \/ ServingBreaks(c)

-----------------------------------------------------------------------------
(* Transfers, as far as they use the connection. *)

\* send_file clones the entry of the table, and then reads the file.
BeginSend(p, c) ==
    /\ p \in Senders
    /\ active[p][Other(c, p)] = c
    /\ sends[p][c] = "none"
    /\ sends' = [sends EXCEPT ![p][c] = "cloned"]
    /\ Take(p, c)
    /\ UNCHANGED <<pc, active, status, sweep, incoming>>

\* open_bi and the TransferRequest on the new stream.
OpenStream(p, c) ==
    /\ sends[p][c] = "cloned"
    /\ p \in up[c]
    /\ sends' = [sends EXCEPT ![p][c] = "requested"]
    /\ UNCHANGED <<pc, netVars, active, status, sweep, incoming>>

\* Mutant: no loop, one stream is served.
ServeOneStream(c) ==
    /\ pc[c][Acceptor[c]] = "serving"
    /\ Acceptor[c] \in up[c]
    /\ sends[Dialer[c]][c] = "requested"
    /\ sends' = [sends EXCEPT ![Dialer[c]][c] = "served"]
    /\ EndServing(c)
    /\ UNCHANGED <<active, status, sweep, incoming>>

\* The loop of the other peer takes the stream and starts
\* handle_incoming_transfer, whose stream is a handle too; the streams of all
\* files that are received over c count as one.  Only the peer that was dialled
\* has a loop.
ServeStream(c) ==
    /\ pc[c][Acceptor[c]] = "serving"
    /\ Acceptor[c] \in up[c]
    /\ sends[Dialer[c]][c] = "requested"
    /\ sends' = [sends EXCEPT ![Dialer[c]][c] = "served"]
    /\ incoming' = [incoming EXCEPT ![c] = TRUE]
    /\ Take(Acceptor[c], IF incoming[c] THEN None ELSE c)
    /\ UNCHANGED <<pc, active, status, sweep>>

\* The last handle_incoming_transfer over c returns.
EndReceive(c) ==
    /\ incoming[c]
    /\ incoming' = [incoming EXCEPT ![c] = FALSE]
    /\ Drop(Acceptor[c], c)
    /\ UNCHANGED <<pc, active, status, sweep, sends>>

\* send_file returns: after the transfer, or when the stream or the connection
\* is closed.
EndSend(p, c) ==
    /\ sends[p][c] # "none"
    /\ sends[p][c] \in {"served", "dropped"} \/ p \notin up[c]
    /\ sends' = [sends EXCEPT ![p][c] = "none"]
    /\ Drop(p, c)
    /\ UNCHANGED <<pc, active, status, sweep, incoming>>

-----------------------------------------------------------------------------
(* The clean-up of closed connections. *)

Sweeping(p) == \E q \in Peers : sweep[p][q] # "no"

\* Mutant: the entries are found by the status in the registry.
CollectConnected(p) ==
    LET closed == {q \in Peers : /\ active[p][q] # None
                                 /\ p \notin up[active[p][q]]
                                 /\ status[p][q] = "Connected"} IN
    /\ ~Sweeping(p)
    /\ closed # {}
    /\ sweep' = [sweep EXCEPT ![p] = [q \in Peers |-> IF q \in closed THEN "collected" ELSE "no"]]
    /\ UNCHANGED <<pc, netVars, active, status, useVars>>

\* A tick of the interval: the entries whose close_reason is set.
Collect(p) ==
    LET closed == {q \in Peers : active[p][q] # None /\ p \notin up[active[p][q]]} IN
    /\ ~Sweeping(p)
    /\ closed # {}
    /\ sweep' = [sweep EXCEPT ![p] = [q \in Peers |-> IF q \in closed THEN "collected" ELSE "no"]]
    /\ UNCHANGED <<pc, netVars, active, status, useVars>>

\* Mutant: the status stays.
RemoveEntrySilently(p, q) ==
    /\ sweep[p][q] = "collected"
    /\ active' = [active EXCEPT ![p][q] = None]
    /\ sweep' = [sweep EXCEPT ![p][q] = "no"]
    /\ Drop(p, active[p][q])
    /\ UNCHANGED <<pc, status, useVars>>

\* Mutant: the clean-up keeps a handle to what it removes.
RemoveEntryKept(p, q) ==
    /\ sweep[p][q] = "collected"
    /\ active' = [active EXCEPT ![p][q] = None]
    /\ sweep' = [sweep EXCEPT ![p][q] = "removed"]
    /\ UNCHANGED <<pc, netVars, status, useVars>>

\* The entry is removed by its peer, whichever connection it holds by now.
RemoveEntry(p, q) ==
    /\ sweep[p][q] = "collected"
    /\ \A r \in Peers : sweep[p][r] # "removed"
    /\ active' = [active EXCEPT ![p][q] = None]
    /\ sweep' = [sweep EXCEPT ![p][q] = "removed"]
    /\ Drop(p, active[p][q])
    /\ UNCHANGED <<pc, status, useVars>>

MarkDiscovered(p, q) ==
    /\ sweep[p][q] = "removed"
    /\ set_status(p, q, "Discovered")
    /\ sweep' = [sweep EXCEPT ![p][q] = "no"]
    /\ UNCHANGED <<pc, netVars, active, useVars>>

idle_cleanup_loop(p) == Collect(p) \/ \E q \in Peers : RemoveEntry(p, q) \/ MarkDiscovered(p, q)

-----------------------------------------------------------------------------
(* The other writers of the registry, and the network. *)

\* ServiceResolved: the entry is replaced, its status with it.
Announce(p, q) ==
    /\ Discovery
    /\ p # q
    /\ status' = [status EXCEPT ![p][q] = "Discovered"]
    /\ UNCHANGED <<pc, netVars, active, sweep, useVars>>

\* ServiceRemoved, or the eviction of a peer that was not heard of.
Forget(p, q) ==
    /\ Discovery
    /\ status[p][q] # "absent"
    /\ status' = [status EXCEPT ![p][q] = "absent"]
    /\ UNCHANGED <<pc, netVars, active, sweep, useVars>>

\* One end closed the connection, the other learns of it.
LearnClosed(c, p) ==
    /\ p \in up[c]
    /\ up[c] # Ends(c)
    /\ up' = [up EXCEPT ![c] = @ \ {p}]
    /\ UNCHANGED <<pc, refs, active, status, sweep, useVars>>

\* The connection is lost for the end p.
Lose(c, p) ==
    /\ LossPossible
    /\ p \in up[c]
    /\ up' = [up EXCEPT ![c] = @ \ {p}]
    /\ UNCHANGED <<pc, refs, active, status, sweep, useVars>>

-----------------------------------------------------------------------------
send_file(p, c) == BeginSend(p, c) \/ OpenStream(p, c) \/ EndSend(p, c)

Next ==
    \/ \E c \in Conns : Dial(c) \/ connect_to_peer(c) \/ accept_loop(c)
    \/ \E c \in Conns : ServeStream(c) \/ EndReceive(c)
    \/ \E c \in Conns : \E p \in Ends(c) : send_file(p, c) \/ LearnClosed(c, p) \/ Lose(c, p)
    \/ \E p \in Peers : idle_cleanup_loop(p)
    \/ \E p, q \in Peers : Announce(p, q) \/ Forget(p, q)

Spec == Init /\ [][Next]_vars

\* The runtime polls every task, the interval ticks, and an end learns of a
\* close or times out.  Nobody has to dial or to send, and nothing has to be
\* lost.
Fairness ==
    /\ \A c \in Conns : WF_vars(connect_to_peer(c)) /\ WF_vars(accept_loop(c)) /\ WF_vars(ServeStream(c))
    /\ \A c \in Conns : \A p \in Ends(c) :
          /\ WF_vars(OpenStream(p, c) \/ EndSend(p, c))
          /\ WF_vars(LearnClosed(c, p))
    /\ \A p \in Peers : WF_vars(idle_cleanup_loop(p))

FairSpec == Spec /\ Fairness

-----------------------------------------------------------------------------
(* Safety. *)

\* Who is shown as connected has a connection in the table, or a task that is
\* about to store one, or is being swept out (p2p_engine.rs set_status calls):
\* no status outlives its connection.
ConnectedIsBacked ==
    \A p, q \in Peers : status[p][q] = "Connected" =>
        \/ active[p][q] # None
        \/ sweep[p][q] = "removed"
        \/ \E c \in Conns : /\ p \in Ends(c)
                            /\ Other(c, p) = q
                            /\ pc[c][p] \in {"mark", "store"}

\* A connection that is open at an end whose task for it is over can be found:
\* it is the peer's entry or a transfer uses it.  Over inserts that replace one
\* another, clean-ups that remove what came later and transfers that outlive the
\* entry, no handle is left that keeps a connection alive unseen.
LiveIsListed ==
    \A c \in Conns : \A p \in Ends(c) :
        (pc[c][p] \in {"done", "closed", "failed"} /\ p \in up[c]) =>
            \/ active[p][Other(c, p)] = c
            \/ sends[p][c] # "none"
            \/ p = Acceptor[c] /\ incoming[c]

\* When nothing is lost and only one of two peers dials the other, a dial that
\* has returned leaves the dialler's entry for the peer open at both ends for
\* good: later dials, stores in either order and clean-ups do not break it.
DialledStays ==
    \A c \in Conns :
        pc[c][Dialer[c]] = "done" =>
            \E d \in Conns : /\ active[Dialer[c]][Acceptor[c]] = d
                             /\ up[d] = Ends(d)

\* connect_to_peer "Establishes a QUIC connection, exchanges PeerInfoExchange
\* messages, and stores the connection" (p2p_engine.rs:301-302): when dials
\* have returned, every task is at rest and nothing was lost, then the two
\* peers have an open connection.
AtRest == \A c \in Conns : \A p \in Peers : pc[c][p] \notin Busy

DiallingConnects ==
    (AtRest /\ \E c \in Conns : pc[c][Dialer[c]] = "done") =>
        \E d \in Conns : up[d] # {}

-----------------------------------------------------------------------------
(* Liveness. *)

\* A closed connection is swept out of the table, or replaced.
ClosedIsForgotten ==
    \A p, q \in Peers : \A c \in Conns :
        (active[p][q] = c /\ p \notin up[c]) ~> active[p][q] # c

\* A request of the peer that dialled is taken up, unless the connection closes.
DialerIsServed ==
    \A c \in Conns :
        sends[Dialer[c]][c] = "requested" ~>
            (sends[Dialer[c]][c] = "served" \/ Dialer[c] \notin up[c])

\* "Each instance acts as both sender and receiver" (README.md:3): a request of
\* either end is taken up, unless the connection closes.
EitherIsServed ==
    \A c \in Conns : \A p \in Ends(c) :
        sends[p][c] = "requested" ~> (sends[p][c] = "served" \/ p \notin up[c])

\* The tasks that serve connections end: when the dialler has neither an entry
\* nor a transfer for a connection any more, the other end stops serving it.
UnlistedEnds ==
    \A c \in Conns :
        ( /\ pc[c][Dialer[c]] \in {"done", "failed"}
          /\ active[Dialer[c]][Acceptor[c]] # c
          /\ sends[Dialer[c]][c] = "none" )
        ~> pc[c][Acceptor[c]] \in {"closed", "failed"}
=============================================================================
