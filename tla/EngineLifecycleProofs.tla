------------------------ MODULE EngineLifecycleProofs ------------------------
(* Proofs about EngineLifecycle, for any number of instances and tasks. *)
EXTENDS EngineLifecycle, TLAPS

(***************************************************************************)
(* The inductive invariant.  That engines never drops below zero is part   *)
(* of the types and rests on OneEngine, so they are proved together.       *)
(***************************************************************************)

\* A write guard excludes every other guard of the instance.
Exclusive ==
    \A c, d \in Calls :
        c # d /\ At[c] = At[d] /\ pc[c] \in Writing => pc[d] \notin Reading \cup Writing

\* While a start or a stop keeps the guard, there is no engine to be seen.
HiddenWhileWriting == \A c \in Calls : pc[c] \in Writing => ~slot[At[c]]

\* The engine a command has found is still there.
FoundStays == \A c \in Calls : pc[c] \in Reading => slot[At[c]]

IInv ==
    /\ TypeOK
    /\ Exclusive
    /\ HiddenWhileWriting
    /\ FoundStays
    /\ OneEngine
    /\ PendingIsServed

LEMMA InitHolds == Init => IInv
  BY CallsAssumption
  DEF Init, IInv, TypeOK, Stages, Asking, Reading, Writing, Exclusive, HiddenWhileWriting,
      FoundStays, OneEngine, InHand, Writers, PendingIsServed

(* A task that takes a guard of its instance: the queue keeps its type. *)
LEMMA QueueTail ==
    ASSUME TypeOK, NEW c \in Calls, GetRead(c)
    PROVE  queue' \in [Peers -> Seq(Calls)]
  BY CallsAssumption DEF TypeOK, GetRead, IsNext

LEMMA QueueAppend ==
    ASSUME TypeOK, NEW c \in Calls, Enqueue(c)
    PROVE  queue' \in [Peers -> Seq(Calls)]
  BY CallsAssumption DEF TypeOK, Enqueue

(* A task that goes on without a guard or gives its guard back, while no   *)
(* engine changes.                                                         *)
LEMMA LeaveHolds ==
    ASSUME IInv,
           NEW c \in Calls, pc[c] \notin {"store", "shutdown"},
           NEW s \in Stages \ (Reading \cup Writing),
           GoTo(c, s), queue' \in [Peers -> Seq(Calls)], UNCHANGED <<slot, engines>>,
           request' \in [Calls -> {"none", "pending", "answered", "closed"}],
           \A d \in Calls : request'[d] = "pending" => engines[To[d]] > 0
    PROVE  IInv'
<1> USE CallsAssumption
<1>1. TypeOK'
  BY DEF IInv, TypeOK, GoTo
<1>2. \A d \in Calls : pc'[d] = IF d = c THEN s ELSE pc[d]
  BY DEF IInv, TypeOK, GoTo
<1>3. Exclusive' /\ HiddenWhileWriting' /\ FoundStays'
  BY <1>2 DEF IInv, Exclusive, HiddenWhileWriting, FoundStays
<1>4. ASSUME NEW p \in Peers PROVE InHand(p)' <=> InHand(p)
  BY <1>2 DEF InHand, Writers, Writing, Reading
<1>5. OneEngine'
  BY <1>4 DEF IInv, OneEngine
<1>6. PendingIsServed'
  BY DEF IInv, PendingIsServed
<1> QED
  BY <1>1, <1>3, <1>5, <1>6 DEF IInv

(* A task that gets or keeps a read guard and has found the engine. *)
LEMMA ReadHolds ==
    ASSUME IInv,
           NEW c \in Calls, Writers(At[c]) = {}, slot[At[c]],
           NEW s \in Reading,
           GoTo(c, s), queue' \in [Peers -> Seq(Calls)], UNCHANGED <<slot, engines>>,
           request' \in [Calls -> {"none", "pending", "answered", "closed"}],
           \A d \in Calls : request'[d] = "pending" => engines[To[d]] > 0
    PROVE  IInv'
<1> USE CallsAssumption
<1>1. TypeOK'
  BY DEF IInv, TypeOK, GoTo, Reading, Stages
<1>2. \A d \in Calls : pc'[d] = IF d = c THEN s ELSE pc[d]
  BY DEF IInv, TypeOK, GoTo
<1>3. Exclusive' /\ HiddenWhileWriting' /\ FoundStays'
  BY <1>2 DEF IInv, Exclusive, HiddenWhileWriting, FoundStays, Writers, Reading, Writing
<1>4. ASSUME NEW p \in Peers PROVE InHand(p)' <=> InHand(p)
  BY <1>2 DEF InHand, Writers, Writing, Reading
<1>5. OneEngine'
  BY <1>4 DEF IInv, OneEngine
<1>6. PendingIsServed'
  BY DEF IInv, PendingIsServed
<1> QED
  BY <1>1, <1>3, <1>5, <1>6 DEF IInv

(***************************************************************************)
(* The steps of a start and a stop under the write guard.                  *)
(***************************************************************************)

\* With the write guard c is alone: no other task of its instance has one.
LEMMA OnlyWriter ==
    ASSUME IInv, NEW c \in Calls, pc[c] \in Writing,
           NEW d \in Calls, At[d] = At[c], d # c
    PROVE  pc[d] \notin Reading \cup Writing
  BY DEF IInv, Exclusive

(* What c, alone with the write guard, may do to slot and engines. *)
LEMMA WriteHolds ==
    ASSUME IInv,
           NEW c \in Calls,
           \A d \in Calls \ {c} : At[d] = At[c] => pc[d] \notin Reading \cup Writing,
           NEW s \in Stages \ Reading, NEW e \in Nat, NEW there \in BOOLEAN,
           GoTo(c, s), queue' \in [Peers -> Seq(Calls)],
           slot' = [slot EXCEPT ![At[c]] = there],
           engines' = [engines EXCEPT ![At[c]] = e],
           s \in Writing => ~there,
           e = IF there \/ s \in {"store", "shutdown"} THEN 1 ELSE 0,
           request' \in [Calls -> {"none", "pending", "answered", "closed"}],
           \A d \in Calls : request'[d] = "pending" => engines'[To[d]] > 0
    PROVE  IInv'
<1> USE CallsAssumption
<1>1. TypeOK'
  BY DEF IInv, TypeOK, GoTo
<1>2. /\ \A d \in Calls : pc'[d] = IF d = c THEN s ELSE pc[d]
      /\ \A p \in Peers : slot'[p] = IF p = At[c] THEN there ELSE slot[p]
      /\ \A p \in Peers : engines'[p] = IF p = At[c] THEN e ELSE engines[p]
  BY DEF IInv, TypeOK, GoTo
<1>3. Exclusive' /\ HiddenWhileWriting' /\ FoundStays'
  <2>1. Exclusive'
    BY <1>2 DEF IInv, Exclusive
  <2>2. ASSUME NEW d \in Calls
        PROVE  /\ pc'[d] \in Writing => ~slot'[At[d]]
               /\ pc'[d] \in Reading => slot'[At[d]]
    <3>1. CASE At[d] # At[c]
      <4>1. pc'[d] = pc[d] /\ slot'[At[d]] = slot[At[d]]
        BY <1>2, <3>1
      <4>2. /\ pc[d] \in Writing => ~slot[At[d]]
            /\ pc[d] \in Reading => slot[At[d]]
        BY DEF IInv, HiddenWhileWriting, FoundStays
      <4> QED
        BY <4>1, <4>2, Zenon
    <3>2. CASE At[d] = At[c] /\ d # c
      BY <1>2, <3>2
    <3>3. CASE d = c
      <4>1. pc'[d] = s /\ slot'[At[d]] = there
        BY <1>2, <3>3
      <4>2. s \notin Reading /\ (s \in Writing => ~there)
        OBVIOUS
      <4> QED
        BY <4>1, <4>2, Zenon
    <3> QED
      BY <3>1, <3>2, <3>3
  <2> QED
    BY <2>1, <2>2 DEF HiddenWhileWriting, FoundStays
<1>4. ASSUME NEW p \in Peers \ {At[c]} PROVE InHand(p)' <=> InHand(p)
  BY <1>2 DEF InHand, Writers
<1>5. InHand(At[c])' <=> s \in {"store", "shutdown"}
  BY <1>2 DEF InHand, Writers, Writing
<1>6. OneEngine'
  BY <1>2, <1>4, <1>5 DEF IInv, OneEngine
<1>7. PendingIsServed'
  BY DEF PendingIsServed
<1> QED
  BY <1>1, <1>3, <1>6, <1>7 DEF IInv

(* The guards: who gets one finds no writer, and the write guard no reader. *)
LEMMA WriteIsAlone ==
    ASSUME IInv, NEW c \in Calls, GetWrite(c), pc[c] \notin Reading \cup Writing
    PROVE  /\ \A d \in Calls \ {c} : At[d] = At[c] => pc[d] \notin Reading \cup Writing
           /\ ~InHand(At[c])
  BY DEF GetWrite, GetRead, Writers, Readers, InHand

LEMMA StartHolds ==
    ASSUME IInv, NEW c \in Calls, start_engine(c)
    PROVE  IInv'
<1> USE CallsAssumption
<1>1. CASE Check(c)
  BY <1>1, QueueTail, LeaveHolds
  DEF Check, IInv, TypeOK, PendingIsServed, Stages, Asking, Reading, Writing
<1>2. CASE AskWrite(c)
  BY <1>2, QueueAppend, LeaveHolds
  DEF AskWrite, IInv, TypeOK, PendingIsServed, Stages, Asking, Reading, Writing
<1>3. CASE Recheck(c)
  <2>1. queue' \in [Peers -> Seq(Calls)]
    BY <1>3, QueueTail DEF Recheck, GetWrite, IInv
  <2>2. CASE slot[At[c]]
    BY <1>3, <2>1, <2>2, LeaveHolds
    DEF Recheck, IInv, TypeOK, PendingIsServed, Stages, Asking, Reading, Writing
  <2>3. CASE ~slot[At[c]]
    <3>1. engines[At[c]] = 0
      BY <1>3, <2>3, WriteIsAlone DEF Recheck, IInv, OneEngine, Reading, Writing
    <3>2. /\ slot' = [slot EXCEPT ![At[c]] = FALSE]
          /\ engines' = [engines EXCEPT ![At[c]] = 0]
      BY <1>3, <2>3, <3>1 DEF Recheck, IInv, TypeOK
    <3>3. GoTo(c, "starting")
      BY <1>3, <2>3 DEF Recheck
    <3>4. \A d \in Calls \ {c} : At[d] = At[c] => pc[d] \notin Reading \cup Writing
      BY <1>3, WriteIsAlone DEF Recheck, Reading, Writing
    <3>5. /\ request' \in [Calls -> {"none", "pending", "answered", "closed"}]
          /\ \A d \in Calls : request'[d] = "pending" => engines'[To[d]] > 0
      BY <1>3 DEF Recheck, IInv, TypeOK, PendingIsServed
    <3> QED
      BY <2>1, <3>2, <3>3, <3>4, <3>5, WriteHolds DEF Stages, Writing, Reading
  <2> QED
    BY <2>2, <2>3
<1>4. CASE StartFails(c)
  BY <1>4, LeaveHolds
  DEF StartFails, IInv, TypeOK, PendingIsServed, Stages, Asking, Reading, Writing
<1>5. CASE Start(c)
  <2>1. pc[c] \in Writing /\ ~slot[At[c]]
    BY <1>5 DEF Start, IInv, HiddenWhileWriting, Writing
  <2>2. ~InHand(At[c])
    BY <1>5, <2>1, OnlyWriter DEF Start, InHand, Writers, Writing
  <2>3. engines[At[c]] = 0
    BY <2>1, <2>2 DEF IInv, OneEngine
  <2>4. /\ slot' = [slot EXCEPT ![At[c]] = FALSE]
        /\ engines' = [engines EXCEPT ![At[c]] = 1]
    BY <1>5, <2>1, <2>3 DEF Start, IInv, TypeOK
  <2>5. /\ request' \in [Calls -> {"none", "pending", "answered", "closed"}]
        /\ \A d \in Calls : request'[d] = "pending" => engines'[To[d]] > 0
    BY <1>5, <2>4 DEF Start, IInv, TypeOK, PendingIsServed
  <2>6. queue' \in [Peers -> Seq(Calls)] /\ GoTo(c, "store")
    BY <1>5 DEF Start, IInv, TypeOK
  <2> QED
    BY <2>1, <2>4, <2>5, <2>6, OnlyWriter, WriteHolds DEF Stages, Writing, Reading
<1>6. CASE Store(c)
  <2>1. pc[c] \in Writing /\ InHand(At[c])
    BY <1>6 DEF Store, InHand, Writers, Writing
  <2>2. engines[At[c]] = 1
    BY <2>1 DEF IInv, OneEngine
  <2>3. /\ slot' = [slot EXCEPT ![At[c]] = TRUE]
        /\ engines' = [engines EXCEPT ![At[c]] = 1]
    BY <1>6, <2>2 DEF Store, IInv, TypeOK
  <2>4. /\ request' \in [Calls -> {"none", "pending", "answered", "closed"}]
        /\ \A d \in Calls : request'[d] = "pending" => engines'[To[d]] > 0
    BY <1>6 DEF Store, IInv, TypeOK, PendingIsServed
  <2>5. queue' \in [Peers -> Seq(Calls)] /\ GoTo(c, "idle")
    BY <1>6 DEF Store, IInv, TypeOK
  <2> QED
    BY <2>1, <2>3, <2>4, <2>5, OnlyWriter, WriteHolds DEF Stages, Writing, Reading
<1> QED
  BY <1>1, <1>2, <1>3, <1>4, <1>5, <1>6 DEF start_engine

LEMMA StopHolds ==
    ASSUME IInv, NEW c \in Calls, stop_engine(c)
    PROVE  IInv'
<1> USE CallsAssumption
<1>1. CASE Take(c)
  <2>1. queue' \in [Peers -> Seq(Calls)]
    BY <1>1, QueueTail DEF Take, GetWrite, IInv
  <2>2. \A d \in Calls \ {c} : At[d] = At[c] => pc[d] \notin Reading \cup Writing
    BY <1>1, WriteIsAlone DEF Take, Reading, Writing
  <2>3. /\ request' \in [Calls -> {"none", "pending", "answered", "closed"}]
        /\ \A d \in Calls : request'[d] = "pending" => engines'[To[d]] > 0
    BY <1>1 DEF Take, IInv, TypeOK, PendingIsServed
  <2>4. CASE slot[At[c]]
    <3>1. /\ GoTo(c, "shutdown")
          /\ slot' = [slot EXCEPT ![At[c]] = FALSE]
          /\ engines' = [engines EXCEPT ![At[c]] = 1]
      BY <1>1, <2>4 DEF Take, IInv, TypeOK, OneEngine
    <3> QED
      BY <2>1, <2>2, <2>3, <3>1, WriteHolds DEF Stages, Writing, Reading
  <2>5. CASE ~slot[At[c]]
    <3>1. engines[At[c]] = 0
      BY <1>1, <2>5, WriteIsAlone DEF Take, IInv, OneEngine, Reading, Writing
    <3>2. /\ GoTo(c, "idle")
          /\ slot' = [slot EXCEPT ![At[c]] = FALSE]
          /\ engines' = [engines EXCEPT ![At[c]] = 0]
      BY <1>1, <2>5, <3>1 DEF Take, IInv, TypeOK
    <3> QED
      BY <2>1, <2>2, <2>3, <3>2, WriteHolds DEF Stages, Writing, Reading
  <2> QED
    BY <2>4, <2>5
<1>2. CASE Shutdown(c)
  <2>1. pc[c] \in Writing /\ ~slot[At[c]] /\ InHand(At[c])
    BY <1>2 DEF Shutdown, IInv, HiddenWhileWriting, InHand, Writers, Writing
  <2>2. engines[At[c]] = 1
    BY <2>1 DEF IInv, OneEngine
  <2>3. /\ slot' = [slot EXCEPT ![At[c]] = FALSE]
        /\ engines' = [engines EXCEPT ![At[c]] = 0]
    BY <1>2, <2>1, <2>2 DEF Shutdown, IInv, TypeOK
  <2>4. /\ request' \in [Calls -> {"none", "pending", "answered", "closed"}]
        /\ \A d \in Calls : request'[d] = "pending" => To[d] # At[c] /\ request[d] = "pending"
    BY <1>2 DEF Shutdown, IInv, TypeOK
  <2>5. \A d \in Calls : request'[d] = "pending" => engines'[To[d]] > 0
    BY <2>3, <2>4 DEF IInv, TypeOK, PendingIsServed
  <2>6. queue' \in [Peers -> Seq(Calls)] /\ GoTo(c, "idle")
    BY <1>2 DEF Shutdown, IInv, TypeOK
  <2> QED
    BY <2>1, <2>3, <2>4, <2>5, <2>6, OnlyWriter, WriteHolds DEF Stages, Writing, Reading
<1> QED
  BY <1>1, <1>2 DEF stop_engine

(***************************************************************************)
(* The commands that read.                                                 *)
(***************************************************************************)

LEMMA ReadersHold ==
    ASSUME IInv, NEW c \in Calls, Use(c) \/ Return(c) \/ Answer(c)
    PROVE  IInv'
<1> USE CallsAssumption
<1>1. CASE Use(c)
  <2>1. queue' \in [Peers -> Seq(Calls)]
    BY <1>1, QueueTail DEF Use, IInv
  <2>2. CASE slot[At[c]]
    <3>1. PICK s \in Reading : GoTo(c, s)
      BY <1>1, <2>2 DEF Use, Reading
    <3>2. Writers(At[c]) = {} /\ UNCHANGED <<slot, engines, request>>
      BY <1>1 DEF Use, GetRead
    <3>3. /\ request' \in [Calls -> {"none", "pending", "answered", "closed"}]
          /\ \A d \in Calls : request'[d] = "pending" => engines[To[d]] > 0
      BY <3>2 DEF IInv, TypeOK, PendingIsServed
    <3> QED
      BY <2>1, <2>2, <3>1, <3>2, <3>3, ReadHolds
  <2>3. CASE ~slot[At[c]]
    <3>1. GoTo(c, "idle")
      BY <1>1, <2>3 DEF Use
    <3>2. /\ request' \in [Calls -> {"none", "pending", "answered", "closed"}]
          /\ \A d \in Calls : request'[d] = "pending" => engines[To[d]] > 0
      BY <1>1 DEF Use, IInv, TypeOK, PendingIsServed
    <3>3. pc[c] \notin {"store", "shutdown"} /\ UNCHANGED <<slot, engines>>
      BY <1>1 DEF Use
    <3> QED
      BY <2>1, <3>1, <3>2, <3>3, LeaveHolds DEF Stages, Reading, Writing
  <2> QED
    BY <2>2, <2>3
<1>2. CASE Return(c)
  BY <1>2, LeaveHolds
  DEF Return, IInv, TypeOK, PendingIsServed, Stages, Asking, Reading, Writing
<1>3. CASE Answer(c)
  <2>1. /\ request' \in [Calls -> {"none", "pending", "answered", "closed"}]
        /\ \A d \in Calls : request'[d] = "pending" => request[d] = "pending"
    BY <1>3 DEF Answer, IInv, TypeOK
  <2> QED
    BY <1>3, <2>1, LeaveHolds
    DEF Answer, IInv, TypeOK, PendingIsServed, Stages, Asking, Reading, Writing
<1> QED
  BY <1>1, <1>2, <1>3

LEMMA SendHolds ==
    ASSUME IInv, NEW c \in Calls, send_file(c) \/ ConnectionLost(c)
    PROVE  IInv'
<1> USE CallsAssumption
<1>1. CASE Request(c)
  <2>1. /\ request' \in [Calls -> {"none", "pending", "answered", "closed"}]
        /\ \A d \in Calls : request'[d] = "pending" => d = c \/ request[d] = "pending"
    BY <1>1 DEF Request, IInv, TypeOK
  <2>2. slot[At[c]] /\ Writers(At[c]) = {}
    BY <1>1 DEF Request, IInv, FoundStays, HiddenWhileWriting, Writers, Reading
  <2> QED
    BY <1>1, <2>1, <2>2, ReadHolds DEF Request, IInv, TypeOK, PendingIsServed, Reading
<1>2. ASSUME EndSend(c), pc[c] = "waiting" PROVE IInv'
  <2>1. /\ request' \in [Calls -> {"none", "pending", "answered", "closed"}]
        /\ \A d \in Calls : request'[d] = "pending" => request[d] = "pending"
    BY <1>2 DEF EndSend, IInv, TypeOK
  <2> QED
    BY <1>2, <2>1, LeaveHolds
    DEF EndSend, IInv, TypeOK, PendingIsServed, Stages, Asking, Reading, Writing
<1> QED
  BY <1>1, <1>2 DEF send_file, FinishSend, ConnectionLost

LEMMA NextHolds == IInv /\ [Next]_vars => IInv'
<1> SUFFICES ASSUME IInv, [Next]_vars PROVE IInv'
  OBVIOUS
<1> USE CallsAssumption
<1>1. ASSUME NEW c \in Calls, Call(c) PROVE IInv'
  <2>1. PICK ask \in Asking : GoTo(c, ask)
    BY <1>1 DEF Call
  <2> QED
    BY <1>1, <2>1, QueueAppend, LeaveHolds
    DEF Call, IInv, TypeOK, PendingIsServed, Stages, Asking, Reading, Writing
<1>2. ASSUME NEW c \in Calls, Run(c) \/ ConnectionLost(c) PROVE IInv'
  BY <1>2, StartHolds, StopHolds, ReadersHold, SendHolds DEF Run
<1>3. CASE UNCHANGED vars
  BY <1>3
  DEF vars, IInv, TypeOK, Exclusive, HiddenWhileWriting, FoundStays, OneEngine, InHand,
      Writers, PendingIsServed
<1> QED
  BY <1>1, <1>2, <1>3 DEF Next

LEMMA Invariance == Spec => []IInv
  BY InitHolds, NextHolds, PTL DEF Spec

(***************************************************************************)
(* Theorems.                                                               *)
(***************************************************************************)

(* TypeOK of EngineLifecycle: the lock of the engine and what it guards     *)
(* keep their types, the count of engines its lower bound included.         *)
THEOREM TypeCorrect == Spec => []TypeOK
  BY Invariance, PTL DEF IInv

(* OneEngine: however starts and stops interleave, an instance has one      *)
(* engine when its commands see it or a start or stop is at work on it, and *)
(* otherwise none.                                                          *)
THEOREM NeverTwoEngines == Spec => []OneEngine
  BY Invariance, PTL DEF IInv

(* UsedIsRunning: the engine a command has found stays until it returns.    *)
THEOREM GuardKeepsEngine == Spec => []UsedIsRunning
<1>1. IInv => UsedIsRunning
  BY CallsAssumption DEF IInv, FoundStays, OneEngine, UsedIsRunning, Reading
<1> QED
  BY <1>1, Invariance, PTL

(* PendingIsServed: a request that waits for an answer is one of an         *)
(* instance that has an engine.                                             *)
THEOREM RequestsAreServed == Spec => []PendingIsServed
  BY Invariance, PTL DEF IInv

(***************************************************************************)
(* The queue of the lock: the tasks that ask are in it, each once, and no   *)
(* task that does not ask is.  A send waits exactly while it has a request. *)
(***************************************************************************)

Queued(p) == {queue[p][i] : i \in 1 .. Len(queue[p])}

AskersAreQueued == \A p \in Peers : Queued(p) = {c \in Calls : At[c] = p /\ pc[c] \in Asking}

QueuedOnce == \A p \in Peers : \A i, j \in 1 .. Len(queue[p]) : queue[p][i] = queue[p][j] => i = j

WaitsForRequest == \A c \in Calls : pc[c] = "waiting" <=> request[c] # "none"

OrderInv == AskersAreQueued /\ QueuedOnce /\ WaitsForRequest

LEMMA InitOrder == Init => OrderInv
<1> SUFFICES ASSUME Init PROVE OrderInv
  OBVIOUS
<1>1. \A p \in Peers : 1 .. Len(queue[p]) = {}
  <2>1. \A p \in Peers : queue[p] = <<>>
    BY DEF Init
  <2>2. 1 .. Len(<<>>) = {}
    OBVIOUS
  <2> QED
    BY <2>1, <2>2
<1>2. \A c \in Calls : pc[c] = "idle" /\ request[c] = "none"
  BY DEF Init
<1>3. AskersAreQueued
  <2>1. \A p \in Peers : Queued(p) = {}
    BY <1>1 DEF Queued
  <2>2. \A c \in Calls : pc[c] \notin Asking
    BY <1>2 DEF Asking
  <2> QED
    BY <2>1, <2>2 DEF AskersAreQueued
<1>4. QueuedOnce
  BY <1>1 DEF QueuedOnce
<1>5. WaitsForRequest
  BY <1>2 DEF WaitsForRequest
<1> QED
  BY <1>3, <1>4, <1>5 DEF OrderInv

\* Taking the head off a queue that has everything once, and appending to a queue
\* something it does not have.
Elements(q) == {q[i] : i \in 1 .. Len(q)}
OnceEach(q) == \A i, j \in 1 .. Len(q) : q[i] = q[j] => i = j

LEMMA Dequeued ==
    ASSUME NEW q \in Seq(Calls), q # <<>>, OnceEach(q)
    PROVE  Elements(Tail(q)) = Elements(q) \ {Head(q)} /\ OnceEach(Tail(q))
<1> DEFINE r == Tail(q)
<1>1. /\ Len(q) \in Nat \ {0} /\ Len(r) = Len(q) - 1 /\ Head(q) = q[1]
      /\ \A i \in 1 .. Len(r) : r[i] = q[i + 1]
  OBVIOUS
<1> HIDE DEF r
<1>2. \A i \in 1 .. Len(r) : i + 1 \in 1 .. Len(q) /\ i + 1 # 1
  BY <1>1
<1>3. \A i \in 1 .. Len(q) : i # 1 => i - 1 \in 1 .. Len(r) /\ r[i - 1] = q[i]
  BY <1>1
<1>4. Elements(r) = Elements(q) \ {Head(q)}
  <2>1. ASSUME NEW x \in Elements(r) PROVE x \in Elements(q) \ {Head(q)}
    BY <1>1, <1>2 DEF Elements, OnceEach
  <2>2. ASSUME NEW x \in Elements(q) \ {Head(q)} PROVE x \in Elements(r)
    BY <1>1, <1>3 DEF Elements
  <2> QED
    BY <2>1, <2>2
<1>5. ASSUME NEW i \in 1 .. Len(r), NEW j \in 1 .. Len(r), r[i] = r[j]
      PROVE  i = j
  BY <1>1, <1>2, <1>5 DEF OnceEach
<1> QED
  BY <1>4, <1>5 DEF r, OnceEach

LEMMA Enqueued ==
    ASSUME NEW q \in Seq(Calls), NEW x \in Calls, x \notin Elements(q), OnceEach(q)
    PROVE  Elements(Append(q, x)) = Elements(q) \cup {x} /\ OnceEach(Append(q, x))
<1> DEFINE r == Append(q, x)
           n == Len(q)
<1>1. /\ n \in Nat /\ Len(r) = n + 1 /\ r[n + 1] = x
      /\ \A i \in 1 .. n : r[i] = q[i]
  OBVIOUS
<1> HIDE DEF r
<1>2. \A i \in 1 .. Len(r) : i \in 1 .. n \/ i = n + 1
  BY <1>1
<1>3. Elements(r) = Elements(q) \cup {x}
  <2>1. ASSUME NEW y \in Elements(r) PROVE y \in Elements(q) \cup {x}
    BY <1>1, <1>2 DEF Elements
  <2>2. ASSUME NEW i \in 1 .. n PROVE i \in 1 .. Len(r) /\ r[i] = q[i]
    BY <1>1
  <2>3. n + 1 \in 1 .. Len(r)
    BY <1>1
  <2> QED
    BY <1>1, <2>1, <2>2, <2>3 DEF Elements
<1>4. \A i \in 1 .. n : q[i] # x
  BY DEF Elements
<1>5. ASSUME NEW i \in 1 .. Len(r), NEW j \in 1 .. Len(r), r[i] = r[j]
      PROVE  i = j
  BY <1>1, <1>2, <1>4, <1>5 DEF OnceEach
<1> QED
  BY <1>3, <1>5 DEF r, OnceEach

\* What a step of c does to the queue and to its stage.
Asks(c)     == pc[c] \notin Asking /\ pc'[c] \in Asking /\ Enqueue(c)
IsServed(c) == pc[c] \in Asking /\ pc'[c] \notin Asking /\ GetRead(c)
GoesOn(c)   == pc[c] \notin Asking /\ pc'[c] \notin Asking /\ UNCHANGED queue

LEMMA QueueMoves ==
    ASSUME TypeOK, NEW c \in Calls, Call(c) \/ Run(c) \/ ConnectionLost(c)
    PROVE  /\ \A d \in Calls \ {c} : pc'[d] = pc[d]
           /\ Asks(c) \/ IsServed(c) \/ GoesOn(c)
<1> USE DEF Asks, IsServed, GoesOn, GoTo, TypeOK
<1>1. CASE Call(c) \/ AskWrite(c)
  BY <1>1 DEF Call, AskWrite, Asking
<1>2. CASE Check(c) \/ Recheck(c) \/ Take(c) \/ Use(c)
  BY <1>2 DEF Check, Recheck, Take, Use, GetWrite, Asking
<1>3. CASE StartFails(c) \/ Start(c) \/ Store(c) \/ Shutdown(c) \/ Return(c) \/ Answer(c)
  BY <1>3 DEF StartFails, Start, Store, Shutdown, Return, Answer, Asking
<1>4. CASE send_file(c) \/ ConnectionLost(c)
  BY <1>4 DEF send_file, Request, FinishSend, ConnectionLost, EndSend, Asking
<1> QED
  BY <1>1, <1>2, <1>3, <1>4 DEF Run, start_engine, stop_engine

LEMMA OrderStep ==
    ASSUME TypeOK, OrderInv, NEW c \in Calls, Call(c) \/ Run(c) \/ ConnectionLost(c)
    PROVE  AskersAreQueued' /\ QueuedOnce'
<1> DEFINE q == queue[At[c]]
<1>1. At[c] \in Peers /\ q \in Seq(Calls)
  BY CallsAssumption DEF TypeOK
<1>2. \A d \in Calls \ {c} : pc'[d] = pc[d]
  BY QueueMoves
<1>3. /\ Queued(At[c]) = {d \in Calls : At[d] = At[c] /\ pc[d] \in Asking}
      /\ Queued(At[c]) = Elements(q) /\ OnceEach(q)
  BY <1>1 DEF OrderInv, AskersAreQueued, QueuedOnce, Queued, Elements, OnceEach
<1> DEFINE r == queue'[At[c]]
<1>4. SUFFICES /\ \A p \in Peers \ {At[c]} : queue'[p] = queue[p]
               /\ Elements(r) = {d \in Calls : At[d] = At[c] /\ pc'[d] \in Asking}
               /\ OnceEach(r)
  <2>1. ASSUME NEW p \in Peers \ {At[c]}, queue'[p] = queue[p]
        PROVE  /\ Queued(p)' = {d \in Calls : At[d] = p /\ pc'[d] \in Asking}
               /\ \A i, j \in 1 .. Len(queue'[p]) : queue'[p][i] = queue'[p][j] => i = j
    BY <1>2, <2>1 DEF OrderInv, AskersAreQueued, QueuedOnce, Queued
  <2> QED
    BY <2>1, <1>4 DEF AskersAreQueued, QueuedOnce, Queued, Elements, OnceEach
<1>5. CASE Asks(c)
  <2>1. queue' = [queue EXCEPT ![At[c]] = Append(q, c)]
    BY <1>5 DEF Asks, Enqueue
  <2>2. r = Append(q, c) /\ \A p \in Peers \ {At[c]} : queue'[p] = queue[p]
    BY <1>1, <2>1 DEF TypeOK
  <2>3. c \notin Elements(q)
    BY <1>3, <1>5 DEF Asks
  <2> HIDE DEF q, r
  <2>4. Elements(r) = Elements(q) \cup {c} /\ OnceEach(r)
    BY <1>1, <1>3, <2>2, <2>3, Enqueued
  <2>5. {d \in Calls : At[d] = At[c] /\ pc'[d] \in Asking}
          = {d \in Calls : At[d] = At[c] /\ pc[d] \in Asking} \cup {c}
    BY <1>2, <1>5 DEF Asks
  <2> QED
    BY <1>3, <2>2, <2>4, <2>5 DEF r
<1>6. CASE IsServed(c)
  <2>1. q # <<>> /\ Head(q) = c /\ queue' = [queue EXCEPT ![At[c]] = Tail(q)]
    BY <1>6 DEF IsServed, GetRead, IsNext
  <2>2. r = Tail(q) /\ \A p \in Peers \ {At[c]} : queue'[p] = queue[p]
    BY <1>1, <2>1 DEF TypeOK
  <2> HIDE DEF q, r
  <2>4. Elements(r) = Elements(q) \ {c} /\ OnceEach(r)
    BY <1>1, <1>3, <2>1, <2>2, Dequeued
  <2>5. {d \in Calls : At[d] = At[c] /\ pc'[d] \in Asking}
          = {d \in Calls : At[d] = At[c] /\ pc[d] \in Asking} \ {c}
    BY <1>2, <1>6 DEF IsServed
  <2> QED
    BY <1>3, <2>2, <2>4, <2>5 DEF r
<1>7. CASE GoesOn(c)
  <2>1. {d \in Calls : At[d] = At[c] /\ pc'[d] \in Asking}
          = {d \in Calls : At[d] = At[c] /\ pc[d] \in Asking}
    BY <1>2, <1>7 DEF GoesOn
  <2> QED
    BY <1>3, <1>7, <2>1 DEF GoesOn
<1> QED
  BY <1>5, <1>6, <1>7, QueueMoves

\* A request is there from the step that makes it to the one that ends the wait.
LEMMA RequestStep ==
    ASSUME TypeOK, WaitsForRequest, NEW c \in Calls, Call(c) \/ Run(c) \/ ConnectionLost(c)
    PROVE  WaitsForRequest'
<1> USE DEF WaitsForRequest, GoTo, TypeOK
<1>1. CASE Call(c) \/ AskWrite(c)
  BY <1>1 DEF Call, AskWrite, Asking
<1>2. CASE Check(c) \/ Recheck(c) \/ Take(c)
  BY <1>2 DEF Check, Recheck, Take
<1>3. CASE Use(c)
  BY <1>3 DEF Use
<1>4. CASE StartFails(c) \/ Start(c) \/ Store(c) \/ Return(c)
  BY <1>4 DEF StartFails, Start, Store, Return
<1>5. CASE Shutdown(c)
  BY <1>5 DEF Shutdown
<1>6. CASE Answer(c)
  BY <1>6 DEF Answer
<1>7. CASE send_file(c) \/ ConnectionLost(c)
  BY <1>7 DEF send_file, Request, FinishSend, ConnectionLost, EndSend
<1> QED
  BY <1>1, <1>2, <1>3, <1>4, <1>5, <1>6, <1>7 DEF Run, start_engine, stop_engine

LEMMA NextOrder == TypeOK /\ OrderInv /\ [Next]_vars => OrderInv'
<1> SUFFICES ASSUME TypeOK, OrderInv, [Next]_vars PROVE OrderInv'
  OBVIOUS
<1>1. ASSUME NEW c \in Calls, Call(c) \/ Run(c) \/ ConnectionLost(c) PROVE OrderInv'
  BY <1>1, OrderStep, RequestStep DEF OrderInv
<1>2. CASE UNCHANGED vars
  BY <1>2 DEF vars, OrderInv, AskersAreQueued, QueuedOnce, WaitsForRequest, Queued
<1> QED
  BY <1>1, <1>2 DEF Next

LEMMA Ordered == Spec => []OrderInv
<1>1. IInv => TypeOK
  BY DEF IInv
<1> QED
  BY <1>1, Invariance, InitOrder, NextOrder, PTL DEF Spec

(* NobodyStuck: where a command is under way, some command of the instance   *)
(* can go on or has a request out. Whoever has a guard waits for no lock,    *)
(* and a task that asks stands in the queue, whose head gets the guard when  *)
(* nobody has one.                                                           *)
THEOREM AlwaysAWay == Spec => []NobodyStuck
<1>1. TypeOK /\ OrderInv => NobodyStuck
  <2> SUFFICES ASSUME TypeOK, OrderInv, NEW c \in Calls, pc[c] # "idle"
               PROVE  \E d \in Calls : At[d] = At[c] /\ (CanGoOn(d) \/ AwaitsAnswer(d))
    BY DEF NobodyStuck
  <2>1. \A d \in Calls : pc[d] = "waiting" => request[d] # "none"
    BY DEF OrderInv, WaitsForRequest
  <2>2. ASSUME NEW d \in Calls, At[d] = At[c], pc[d] \notin Asking \cup {"idle"}
        PROVE  CanGoOn(d) \/ AwaitsAnswer(d)
    BY <2>1, <2>2 DEF CanGoOn, AwaitsAnswer, TypeOK, Stages
  <2>3. CASE pc[c] \notin Asking
    BY <2>2, <2>3
  <2>4. CASE pc[c] \in Asking /\ Readers(At[c]) = {} /\ Writers(At[c]) = {}
    <3> DEFINE q == queue[At[c]]
    <3>1. At[c] \in Peers /\ q \in Seq(Calls)
      BY CallsAssumption DEF TypeOK
    <3>2. {q[i] : i \in 1 .. Len(q)} = {d \in Calls : At[d] = At[c] /\ pc[d] \in Asking}
      BY <3>1 DEF OrderInv, AskersAreQueued, Queued
    <3>3. \E i \in 1 .. Len(q) : q[i] = c
      BY <2>4, <3>2
    <3>4. q # <<>> /\ Head(q) = q[1] /\ 1 \in 1 .. Len(q)
      BY <3>1, <3>3
    <3>5. q[1] \in Calls /\ At[q[1]] = At[c] /\ pc[q[1]] \in Asking
      BY <3>2, <3>4
    <3> HIDE DEF q
    <3>6. CanGoOn(q[1])
      BY <2>4, <3>4, <3>5 DEF CanGoOn, IsNext, q
    <3> QED
      BY <3>5, <3>6
  <2>5. CASE Readers(At[c]) # {} \/ Writers(At[c]) # {}
    <3>1. PICK d \in Calls : At[d] = At[c] /\ pc[d] \in Reading \cup Writing
      BY <2>5 DEF Readers, Writers
    <3> QED
      BY <2>2, <3>1 DEF Reading, Writing, Asking
  <2> QED
    BY <2>3, <2>4, <2>5
<1> QED
  BY <1>1, Ordered, TypeCorrect, PTL

(***************************************************************************)
(* The commands implement EngineSwitch.                                    *)
(***************************************************************************)

running == {p \in Peers : engines[p] > 0}
working == {c \in Calls : pc[c] \in {"working", "connected", "waiting"}}
asking  == {c \in Calls : request[c] = "pending"}

LEMMA InitSwitch == Init => Switch!Init
  BY DEF Init, Switch!Init

\* The steps that neither change which engines run, nor who works or asks.
LEMMA Unswitched ==
    ASSUME TypeOK, NEW c \in Calls,
           \/ Call(c) \/ Check(c) \/ AskWrite(c) \/ Recheck(c) \/ StartFails(c) \/ Store(c) \/ Take(c)
           \/ Use(c) /\ ~slot[At[c]]
    PROVE  UNCHANGED Switch!switchVars
<1>1. UNCHANGED <<engines, request>> /\ \A d \in Calls \ {c} : pc'[d] = pc[d]
  BY DEF Call, Check, AskWrite, Recheck, StartFails, Store, Take, Use, GoTo, TypeOK
<1>2. /\ pc[c] \notin {"working", "connected", "waiting"}
      /\ pc'[c] \notin {"working", "connected", "waiting"}
  BY DEF Call, Check, AskWrite, Recheck, StartFails, Store, Take, Use, GoTo, TypeOK, Asking
<1>3. working' = working
  BY <1>1, <1>2 DEF working
<1> QED
  BY <1>1, <1>3 DEF Switch!switchVars, working

\* An engine is counted once or not at all.
LEMMA EngineCounts ==
    ASSUME IInv, NEW p \in Peers
    PROVE  /\ engines[p] \in {0, 1}
           /\ p \in running <=> engines[p] = 1
  BY DEF IInv, OneEngine, running

LEMMA EngineSwitched ==
    ASSUME IInv, NEW c \in Calls, Start(c) \/ Shutdown(c)
    PROVE  \E p \in Peers : Switch!TurnOn(p) \/ Switch!TurnOff(p)
<1> DEFINE p == At[c]
<1>1. p \in Peers /\ TypeOK
  BY CallsAssumption DEF IInv
<1>2. working' = working /\ pc[c] \in {"starting", "shutdown"}
  BY <1>1 DEF Start, Shutdown, GoTo, working, TypeOK
<1>3. ~slot[p]
  BY <1>2 DEF IInv, HiddenWhileWriting, Writing
<1>4. CASE Start(c)
  <2>1. ~InHand(p)
    BY <1>2, <1>4, OnlyWriter DEF Start, InHand, Writers, Writing
  <2>2. engines[p] = 0 /\ p \notin running
    BY <1>1, <1>3, <2>1 DEF IInv, OneEngine, running
  <2>3. running' = running \cup {p}
    <3>1. engines'[p] = 1 /\ \A o \in Peers \ {p} : engines'[o] = engines[o]
      BY <1>1, <1>4, <2>2 DEF Start, TypeOK
    <3> QED
      BY <1>1, <3>1 DEF running
  <2>4. asking' = asking
    BY <1>4 DEF Start, asking
  <2>5. Switch!TurnOn(p)
    BY <1>2, <2>2, <2>3, <2>4 DEF Switch!TurnOn, running, working, asking
  <2> QED
    BY <1>1, <2>5
<1>5. CASE Shutdown(c)
  <2>1. InHand(p)
    BY <1>5 DEF Shutdown, InHand, Writers, Writing
  <2>2. engines[p] = 1 /\ p \in running
    BY <1>1, <2>1 DEF IInv, OneEngine, running
  <2>3. running' = running \ {p}
    <3>1. engines'[p] = 0 /\ \A o \in Peers \ {p} : engines'[o] = engines[o]
      BY <1>1, <1>5, <2>2 DEF Shutdown, TypeOK
    <3> QED
      BY <1>1, <3>1 DEF running
  <2>4. asking' = {d \in asking : To[d] # p}
    BY <1>1, <1>5 DEF Shutdown, asking, TypeOK
  <2>5. \A d \in working : At[d] # p
    BY <1>3 DEF IInv, FoundStays, working, Reading
  <2>6. Switch!TurnOff(p)
    BY <1>2, <2>2, <2>3, <2>4, <2>5 DEF Switch!TurnOff, running, working, asking
  <2> QED
    BY <1>1, <2>6
<1> QED
  BY <1>4, <1>5

LEMMA WorkSwitched ==
    ASSUME IInv, WaitsForRequest, NEW c \in Calls,
           (Use(c) /\ slot[At[c]]) \/ Return(c) \/ Answer(c) \/ send_file(c)
             \/ ConnectionLost(c)
    PROVE  \/ Switch!Enter(c) \/ Switch!Leave(c) \/ Switch!Ask(c)
           \/ \E d \in Calls : Switch!Answer(c, d)
<1>1. At[c] \in Peers /\ To[c] \in Peers /\ TypeOK
  BY CallsAssumption DEF IInv
<1>2. UNCHANGED engines /\ running' = running
  BY DEF Use, Return, Answer, send_file, Request, FinishSend, ConnectionLost, EndSend, running
<1>3. asking \subseteq {d \in Calls : pc[d] = "waiting"}
  BY DEF WaitsForRequest, asking
<1>4. ASSUME GoTo(c, "idle") PROVE working' = working \ {c}
  BY <1>1, <1>4 DEF GoTo, working, TypeOK
<1>5. CASE Use(c) /\ slot[At[c]]
  <2>1. At[c] \in running /\ c \notin working
    BY <1>1, <1>5 DEF IInv, OneEngine, running, working, Use
  <2>2. working' = working \cup {c} /\ asking' = asking
    BY <1>1, <1>5 DEF Use, GoTo, working, asking, TypeOK
  <2>3. Switch!Enter(c)
    BY <1>2, <2>1, <2>2 DEF Switch!Enter, running, working, asking
  <2> QED
    BY <2>3
<1>6. CASE Return(c)
  <2>1. c \in working \ asking
    BY <1>3, <1>6 DEF Return, working
  <2>2. working' = working \ {c} /\ asking' = asking \ {c}
    BY <1>4, <1>6, <2>1 DEF Return, asking
  <2>3. Switch!Leave(c)
    BY <1>2, <2>1, <2>2 DEF Switch!Leave, running, working, asking
  <2> QED
    BY <2>3
<1>7. CASE Answer(c)
  <2>1. c \in working \ asking
    BY <1>3, <1>7 DEF Answer, working
  <2>2. PICK d \in Calls : /\ To[d] = At[c] /\ request[d] = "pending"
                           /\ request' = [request EXCEPT ![d] = "answered"]
    BY <1>7 DEF Answer
  <2>3. working' = working \ {c} /\ asking' = asking \ {d} /\ d \in asking
    BY <1>1, <1>4, <1>7, <2>2 DEF Answer, asking, TypeOK
  <2>4. Switch!Answer(c, d)
    BY <1>2, <2>1, <2>2, <2>3 DEF Switch!Answer, running, working, asking
  <2> QED
    BY <2>4
<1>8. CASE Request(c)
  <2>1. c \in working /\ To[c] \in running
    BY <1>1, <1>8 DEF Request, working, running
  <2>2. working' = working /\ asking' = asking \cup {c}
    BY <1>1, <1>8 DEF Request, GoTo, working, asking, TypeOK
  <2>3. Switch!Ask(c)
    BY <1>2, <2>1, <2>2 DEF Switch!Ask, running, working, asking
  <2> QED
    BY <2>3
<1>9. CASE EndSend(c) /\ pc[c] = "waiting"
  <2>1. c \in working
    BY <1>9 DEF working
  <2>2. working' = working \ {c} /\ asking' = asking \ {c}
    BY <1>1, <1>4, <1>9 DEF EndSend, asking, TypeOK
  <2>3. Switch!Leave(c)
    BY <1>2, <2>1, <2>2 DEF Switch!Leave, running, working, asking
  <2> QED
    BY <2>3
<1> QED
  BY <1>5, <1>6, <1>7, <1>8, <1>9 DEF send_file, FinishSend, ConnectionLost

LEMMA NextSwitch == IInv /\ WaitsForRequest /\ [Next]_vars => [Switch!Next]_(Switch!switchVars)
<1> SUFFICES ASSUME IInv, WaitsForRequest, [Next]_vars
             PROVE  [Switch!Next]_(Switch!switchVars)
  OBVIOUS
<1>1. CASE UNCHANGED vars
  BY <1>1 DEF vars, Switch!switchVars
<1>2. ASSUME NEW c \in Calls, Call(c) \/ Run(c) \/ ConnectionLost(c)
      PROVE  [Switch!Next]_(Switch!switchVars)
  <2>1. CASE \/ Call(c) \/ Check(c) \/ AskWrite(c) \/ Recheck(c) \/ StartFails(c) \/ Store(c) \/ Take(c)
             \/ Use(c) /\ ~slot[At[c]]
    BY <2>1, Unswitched DEF IInv
  <2>2. CASE Start(c) \/ Shutdown(c)
    BY <2>2, EngineSwitched DEF Switch!Next
  <2>3. CASE \/ Use(c) /\ slot[At[c]]
             \/ Return(c) \/ Answer(c) \/ send_file(c) \/ ConnectionLost(c)
    BY <2>3, WorkSwitched DEF Switch!Next
  <2> QED
    BY <1>2, <2>1, <2>2, <2>3 DEF Run, start_engine, stop_engine
<1> QED
  BY <1>1, <1>2 DEF Next

(* SwitchesEngine: starts, stops and all other commands, however they        *)
(* interleave at the lock, implement EngineSwitch: each of their steps is    *)
(* one of its steps or changes nothing that it sees.                        *)
THEOREM CommandsSwitch == Spec => SwitchesEngine
<1>1. OrderInv => WaitsForRequest
  BY DEF OrderInv
<1> QED
  BY <1>1, InitSwitch, Invariance, Ordered, NextSwitch, PTL DEF Spec, SwitchesEngine, Switch!Spec
=============================================================================
