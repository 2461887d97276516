----------------------------- MODULE FileDelivery -----------------------------
(***************************************************************************)
(* What a file transfer promises, whatever its two tasks, its stream and    *)
(* its users do: chunks reach the receiver's disk in order and stay there;   *)
(* the sender counts only chunks that are on disk; either peer reports the   *)
(* transfer as completed only when the whole file is, and never takes the    *)
(* report back.                                                            *)
(***************************************************************************)
EXTENDS Naturals

CONSTANTS
    Sessions,    \* transfer sessions
    TotalChunks  \* the number of chunks of each session's file, a natural number

VARIABLES
    stored,   \* the chunks on the receiver's disk
    counted,  \* the chunks the sender counts as transferred
    sent,     \* has the sender reported completion
    received  \* has the receiver reported completion

deliveryVars == <<stored, counted, sent, received>>

Chunks(s) == 0 .. TotalChunks[s] - 1

Init ==
    /\ stored = [s \in Sessions |-> {}]
    /\ counted = [s \in Sessions |-> {}]
    /\ sent = [s \in Sessions |-> FALSE]
    /\ received = [s \in Sessions |-> FALSE]

\* The first chunks up to i, and i next.
IsNext(i, done) == i \notin done /\ \A j \in 0 .. i - 1 : j \in done

Store(s, i) ==
    /\ IsNext(i, stored[s])
    /\ stored' = [stored EXCEPT ![s] = @ \cup {i}]
    /\ UNCHANGED <<counted, sent, received>>

Count(s, i) ==
    /\ i \in stored[s]
    /\ IsNext(i, counted[s])
    /\ counted' = [counted EXCEPT ![s] = @ \cup {i}]
    /\ UNCHANGED <<stored, sent, received>>

ReportSent(s) ==
    /\ counted[s] = Chunks(s)
    /\ sent' = [sent EXCEPT ![s] = TRUE]
    /\ UNCHANGED <<stored, counted, received>>

\* An empty file is never reported by its receiver.
ReportReceived(s) ==
    /\ TotalChunks[s] > 0
    /\ stored[s] = Chunks(s)
    /\ received' = [received EXCEPT ![s] = TRUE]
    /\ UNCHANGED <<stored, counted, sent>>

Next ==
    \E s \in Sessions :
        \/ \E i \in Chunks(s) : Store(s, i) \/ Count(s, i)
        \/ ReportSent(s) \/ ReportReceived(s)

Spec == Init /\ [][Next]_deliveryVars
=============================================================================
