----------------------------- MODULE EngineSwitch -----------------------------
(***************************************************************************)
(* What the commands of the instances promise about their engines, however  *)
(* they share a lock: an instance has one engine or none, a command works    *)
(* only with an engine that runs and keeps it as long as it works, and a     *)
(* request is open only at an instance whose engine runs: turning that off   *)
(* ends it.                                                                *)
(***************************************************************************)
CONSTANTS
    Peers,  \* instances of the application
    Calls,  \* tasks that run its commands
    At,     \* the instance a task belongs to
    To      \* the instance it sends to

VARIABLES
    running,  \* instances whose engine runs
    working,  \* tasks at work with the engine of their instance
    asking    \* those of them that wait for an answer of the other instance

switchVars == <<running, working, asking>>

Init == running = {} /\ working = {} /\ asking = {}

TurnOn(p) ==
    /\ p \notin running
    /\ running' = running \cup {p}
    /\ UNCHANGED <<working, asking>>

TurnOff(p) ==
    /\ p \in running
    /\ \A c \in working : At[c] # p
    /\ running' = running \ {p}
    /\ asking' = {c \in asking : To[c] # p}
    /\ UNCHANGED working

Enter(c) ==
    /\ At[c] \in running
    /\ c \notin working
    /\ working' = working \cup {c}
    /\ UNCHANGED <<running, asking>>

Leave(c) ==
    /\ c \in working
    /\ working' = working \ {c}
    /\ asking' = asking \ {c}
    /\ UNCHANGED running

Ask(c) ==
    /\ c \in working
    /\ To[c] \in running
    /\ asking' = asking \cup {c}
    /\ UNCHANGED <<running, working>>

\* A command of the asked instance answers, and is done.
Answer(c, d) ==
    /\ c \in working \ asking
    /\ d \in asking
    /\ To[d] = At[c]
    /\ working' = working \ {c}
    /\ asking' = asking \ {d}
    /\ UNCHANGED running

Next ==
    \/ \E p \in Peers : TurnOn(p) \/ TurnOff(p)
    \/ \E c \in Calls : Enter(c) \/ Leave(c) \/ Ask(c) \/ \E d \in Calls : Answer(c, d)

Spec == Init /\ [][Next]_switchVars
=============================================================================
