--------------------------- MODULE EngineLifecycle ---------------------------
(***************************************************************************)
(* The engine of each instance of the application as its commands see it   *)
(* (frontend/src-tauri/src/commands.rs, state.rs): AppState.engine is an   *)
(* Option<P2PEngine> under a tokio RwLock.  start_engine and stop_engine   *)
(* take the write guard, every other command a read guard that it keeps    *)
(* until it returns; send_file keeps it until the transfer is over.        *)
(*                                                                         *)
(* tokio serves the lock in the order of requests: a reader that asks      *)
(* after a waiting writer waits behind it.  So a stop that waits for a     *)
(* transfer blocks the commands that could end the transfer.               *)
(***************************************************************************)
EXTENDS Naturals, Sequences

CONSTANTS
    Peers,  \* instances of the application
    Calls,  \* tasks that run its commands, one command after another
    At,     \* the instance a task belongs to
    To      \* the instance its send_file sends to

ASSUME CallsAssumption ==
    /\ At \in [Calls -> Peers]
    /\ To \in [Calls -> Peers]
    /\ \A c \in Calls : At[c] # To[c]

VARIABLES
    pc,       \* pc[c]: where the command that c runs stands
    queue,    \* queue[p]: the tasks that wait for p's lock
    slot,     \* slot[p]: is there an engine in AppState.engine
    engines,  \* engines[p]: engines of p that were started and not shut down
    request   \* request[c]: the TransferRequest of c's send_file

vars == <<pc, queue, slot, engines, request>>

\* What a task waits for at the lock; "askUse" stands for every command that
\* reads, other than send_file.
Asking == {"askCheck", "askRecheck", "askStop", "askUse", "askSend"}

\* The stages in which a command keeps a read guard, and the write guard.
\* Mutants: send_file gives its guard back when it has made its request;
\* start_engine keeps its read guard while it asks for the write guard.
ReadingUntilRequested == {"working", "connected"}
ReadingWhileAsking    == {"working", "connected", "waiting", "upgrade", "askRecheck"}
Reading == {"working", "connected", "waiting"}
Writing == {"starting", "store", "shutdown"}
Stages  == Asking \cup Writing \cup {"idle", "upgrade", "working", "connected", "waiting"}

TypeOK ==
    /\ pc \in [Calls -> Stages]
    /\ queue \in [Peers -> Seq(Calls)]
    /\ slot \in [Peers -> BOOLEAN]
    /\ engines \in [Peers -> Nat]
    /\ request \in [Calls -> {"none", "pending", "answered", "closed"}]

Init ==
    /\ pc = [c \in Calls |-> "idle"]
    /\ queue = [p \in Peers |-> <<>>]
    /\ slot = [p \in Peers |-> FALSE]
    /\ engines = [p \in Peers |-> 0]
    /\ request = [c \in Calls |-> "none"]

GoTo(c, stage) == pc' = [pc EXCEPT ![c] = stage]

-----------------------------------------------------------------------------
(* The lock. *)

Readers(p) == {c \in Calls : At[c] = p /\ pc[c] \in Reading}
Writers(p) == {c \in Calls : At[c] = p /\ pc[c] \in Writing}

Enqueue(c) == queue' = [queue EXCEPT ![At[c]] = Append(@, c)]

IsNext(c) == queue[At[c]] # <<>> /\ Head(queue[At[c]]) = c

\* read().await returns; what a command does before its next await is part of
\* the same step.
GetRead(c) ==
    /\ IsNext(c)
    /\ Writers(At[c]) = {}
    /\ queue' = [queue EXCEPT ![At[c]] = Tail(@)]

\* write().await returns.
GetWrite(c) == GetRead(c) /\ Readers(At[c]) = {}

\* The frontend invokes a command.
Call(c) ==
    /\ pc[c] = "idle"
    /\ \E ask \in Asking \ {"askRecheck"} : GoTo(c, ask)
    /\ Enqueue(c)
    /\ UNCHANGED <<slot, engines, request>>

-----------------------------------------------------------------------------
(* start_engine and stop_engine. *)

\* An engine that runs is returned; otherwise the read guard goes back.
Check(c) ==
    /\ pc[c] = "askCheck"
    /\ GetRead(c)
    /\ GoTo(c, IF slot[At[c]] THEN "idle" ELSE "upgrade")
    /\ UNCHANGED <<slot, engines, request>>

AskWrite(c) ==
    /\ pc[c] = "upgrade"
    /\ GoTo(c, "askRecheck")
    /\ Enqueue(c)
    /\ UNCHANGED <<slot, engines, request>>

\* Mutant: no second look once the write guard is there.
Trust(c) ==
    /\ pc[c] = "askRecheck"
    /\ GetWrite(c)
    /\ GoTo(c, "starting")
    /\ UNCHANGED <<slot, engines, request>>

Recheck(c) ==
    /\ pc[c] = "askRecheck"
    /\ GetWrite(c)
    /\ GoTo(c, IF slot[At[c]] THEN "idle" ELSE "starting")
    /\ UNCHANGED <<slot, engines, request>>

\* P2PEngine::start, which leaves nothing behind when it fails.
StartFails(c) ==
    /\ pc[c] = "starting"
    /\ GoTo(c, "idle")
    /\ UNCHANGED <<queue, slot, engines, request>>

Start(c) ==
    /\ pc[c] = "starting"
    /\ engines' = [engines EXCEPT ![At[c]] = @ + 1]
    /\ GoTo(c, "store")
    /\ UNCHANGED <<queue, slot, request>>

Store(c) ==
    /\ pc[c] = "store"
    /\ slot' = [slot EXCEPT ![At[c]] = TRUE]
    /\ GoTo(c, "idle")
    /\ UNCHANGED <<queue, engines, request>>

start_engine(c) ==
    Check(c) \/ AskWrite(c) \/ Recheck(c) \/ StartFails(c) \/ Start(c) \/ Store(c)

\* take(): without an engine the command returns NotRunning.
Take(c) ==
    /\ pc[c] = "askStop"
    /\ GetWrite(c)
    /\ GoTo(c, IF slot[At[c]] THEN "shutdown" ELSE "idle")
    /\ slot' = [slot EXCEPT ![At[c]] = FALSE]
    /\ UNCHANGED <<engines, request>>

\* Mutant: shutdown leaves the connections to time out.
ShutdownQuietly(c) ==
    /\ pc[c] = "shutdown"
    /\ engines' = [engines EXCEPT ![At[c]] = @ - 1]
    /\ GoTo(c, "idle")
    /\ UNCHANGED <<queue, slot, request>>

\* P2PEngine::shutdown closes the connections, and with them the requests
\* that other instances have made of this one.
Shutdown(c) ==
    /\ pc[c] = "shutdown"
    /\ engines' = [engines EXCEPT ![At[c]] = @ - 1]
    /\ request' = [d \in Calls |->
                     IF To[d] = At[c] /\ request[d] = "pending" THEN "closed" ELSE request[d]]
    /\ GoTo(c, "idle")
    /\ UNCHANGED <<queue, slot>>

stop_engine(c) == Take(c) \/ Shutdown(c)

-----------------------------------------------------------------------------
(* The commands that read. *)

\* as_ref().ok_or(NotRunning)
Use(c) ==
    /\ pc[c] \in {"askUse", "askSend"}
    /\ GetRead(c)
    /\ GoTo(c, IF slot[At[c]]
                 THEN IF pc[c] = "askUse" THEN "working" ELSE "connected"
                 ELSE "idle")
    /\ UNCHANGED <<slot, engines, request>>

\* The command returns: what it read, or any error before a request is made.
Return(c) ==
    /\ pc[c] \in {"working", "connected"}
    /\ GoTo(c, "idle")
    /\ UNCHANGED <<queue, slot, engines, request>>

\* accept_transfer and reject_transfer of a request that waits for them.
Answer(c) ==
    /\ pc[c] = "working"
    /\ \E d \in Calls :
         /\ To[d] = At[c]
         /\ request[d] = "pending"
         /\ request' = [request EXCEPT ![d] = "answered"]
    /\ GoTo(c, "idle")
    /\ UNCHANGED <<queue, slot, engines>>

\* send_file has an open connection and makes its request.
Request(c) ==
    /\ pc[c] = "connected"
    /\ engines[To[c]] > 0
    /\ request' = [request EXCEPT ![c] = "pending"]
    /\ GoTo(c, "waiting")
    /\ UNCHANGED <<queue, slot, engines>>

EndSend(c) ==
    /\ request' = [request EXCEPT ![c] = "none"]
    /\ GoTo(c, "idle")
    /\ UNCHANGED <<queue, slot, engines>>

\* The rest of the transfer, which needs no command (P2PTransfer has it), or
\* the error of a closed connection.
FinishSend(c) ==
    /\ pc[c] = "waiting"
    /\ request[c] \in {"answered", "closed"}
    /\ EndSend(c)

\* The connection of an unanswered send is lost: a failure of the network, or the
\* idle timeout of quinn, 30 s without a frame and no keep-alive.
ConnectionLost(c) ==
    /\ pc[c] = "waiting"
    /\ request[c] = "pending"
    /\ EndSend(c)

send_file(c) == Request(c) \/ FinishSend(c)

\* All sends between two instances share a connection, and with it the idle
\* timeout: one whose data flows keeps the connection open for those that wait.
Between(c) == {d \in Calls : {At[d], To[d]} = {At[c], To[c]}}
Traffic(c) == \E d \in Between(c) : request[d] = "answered"

-----------------------------------------------------------------------------
Run(c) ==
    \/ start_engine(c) \/ stop_engine(c)
    \/ Use(c) \/ Return(c) \/ Answer(c) \/ send_file(c)

Next == \E c \in Calls : Call(c) \/ Run(c) \/ ConnectionLost(c)

Spec == Init /\ [][Next]_vars

\* The runtime polls every task that can go on, and the lock wakes the task
\* at the head of its queue; a connection times out once it carries no traffic.
\* Nobody has to invoke a command or to answer a request.
Fairness ==
    \A c \in Calls :
        /\ WF_vars(Run(c))
        /\ WF_vars(~Traffic(c) /\ ConnectionLost(c))

FairSpec == Spec /\ Fairness

-----------------------------------------------------------------------------
(* Properties. *)

\* The engine of an instance while a start or a stop has it in hand.
InHand(p) == \E c \in Writers(p) : pc[c] \in {"store", "shutdown"}

\* An instance never has two engines, and has one exactly when its commands
\* see it or a start or a stop is at work on it: concurrent starts and stops
\* leave no engine running that no command could stop.
OneEngine ==
    \A p \in Peers : engines[p] = IF slot[p] \/ InHand(p) THEN 1 ELSE 0

\* A command at work, a transfer of any length included, keeps the engine it
\* found: no stop takes it away meanwhile.
UsedIsRunning ==
    \A c \in Calls : pc[c] \in {"working", "connected", "waiting"} => slot[At[c]] /\ engines[At[c]] = 1

\* The commands keep the promises of EngineSwitch: whatever the lock does, their
\* steps turn the engine on, turn it off while nobody works with it, which ends
\* the requests made of it, begin or end the work of a command, or change
\* nothing of this.
Switch == INSTANCE EngineSwitch WITH
    running <- {p \in Peers : engines[p] > 0},
    working <- {c \in Calls : pc[c] \in {"working", "connected", "waiting"}},
    asking  <- {c \in Calls : request[c] = "pending"}

SwitchesEngine == Switch!Spec

\* A send that waits for an answer waits for an instance with an engine, the
\* one its request went to: a shutdown ends the requests it leaves unanswered.
PendingIsServed ==
    \A c \in Calls : request[c] = "pending" => engines[To[c]] > 0

\* The task can take its next step now.
CanGoOn(c) ==
    \/ pc[c] \in {"upgrade", "working", "connected"} \cup Writing
    \/ pc[c] = "waiting" /\ request[c] \in {"answered", "closed"}
    \/ /\ pc[c] \in Asking /\ IsNext(c)
       /\ Writers(At[c]) = {}
       /\ pc[c] \in {"askRecheck", "askStop"} => Readers(At[c]) = {}

\* The task has a request out that the user of the other instance has to answer.
AwaitsAnswer(c) == pc[c] = "waiting" /\ request[c] = "pending"

\* Where a command is under way, one of the same instance can go on or has a
\* request out: no task that asks is forgotten by the queue, none that has a guard
\* waits for the lock.
NobodyStuck ==
    \A c \in Calls : pc[c] # "idle" =>
        \E d \in Calls : At[d] = At[c] /\ (CanGoOn(d) \/ AwaitsAnswer(d))

\* Every command returns, however many others are called, but for a send that waits
\* for an answer while the traffic of other sends keeps its connection open.  This
\* holds also of a stop behind such a send: the answers and the sends that make the
\* traffic queue behind the stop, so that it ends and the connection times out.
CommandsReturn ==
    \A c \in Calls : pc[c] # "idle" ~> pc[c] = "idle" \/ (AwaitsAnswer(c) /\ Traffic(c))
=============================================================================
