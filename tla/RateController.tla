--------------------------- MODULE RateController ---------------------------
(***************************************************************************)
(* The rate controller of the transfer manager                             *)
(* (server/transfer/src/rate_control.rs): a bucket of tokens for each      *)
(* session and one for all, and a count of the bytes that were granted and *)
(* not yet reported as transferred, whose two marks switch backpressure on *)
(* and off.  One mutex guards it, so every call is a step.                 *)
(*                                                                         *)
(* A bucket holds at most what it gains in a second.  The code refills a   *)
(* bucket when it is asked, for the time since it was last asked; here     *)
(* time passes in ticks that refill every bucket, which comes to the same, *)
(* as a bucket nobody has asked yet is full.                               *)
(***************************************************************************)
EXTENDS Naturals

CONSTANTS
    Sessions,      \* sessions that transfer
    SessionLimit,  \* capacity of a session's bucket, per_session_limit
    GlobalLimit,   \* capacity of the bucket for all, global_limit
    SessionRefill, \* what a session's bucket gains in a tick
    GlobalRefill,  \* what the bucket for all gains in a tick
    HighWater,     \* backpressure begins above this many pending bytes
    LowWater       \* and ends below this many

ASSUME LimitsAssumption ==
    /\ SessionLimit \in Nat /\ GlobalLimit \in Nat
    /\ SessionRefill \in Nat /\ GlobalRefill \in Nat
    /\ HighWater \in Nat /\ LowWater \in Nat

VARIABLES
    tokens,       \* tokens[s]: what is in the bucket of s
    globalTokens, \* what is in the bucket for all
    pending,      \* pending_queue_size
    engaged       \* backpressure_engaged

rateVars == <<tokens, globalTokens, pending, engaged>>

RateTypeOK ==
    /\ tokens \in [Sessions -> 0 .. SessionLimit]
    /\ globalTokens \in 0 .. GlobalLimit
    /\ pending \in Nat
    /\ engaged \in BOOLEAN

RateInit ==
    /\ tokens = [s \in Sessions |-> SessionLimit]
    /\ globalTokens = GlobalLimit
    /\ pending = 0
    /\ engaged = FALSE

Capped(amount, limit) == IF amount < limit THEN amount ELSE limit

\* The queue refuses: between the marks it depends on which was passed last.
Throttled == IF engaged THEN pending >= LowWater ELSE pending > HighWater

\* acquire returns Ok.
Grant(s, bytes) ==
    /\ ~Throttled
    /\ bytes <= tokens[s]
    /\ bytes <= globalTokens
    /\ tokens' = [tokens EXCEPT ![s] = @ - bytes]
    /\ globalTokens' = globalTokens - bytes
    /\ pending' = pending + bytes
    /\ engaged' = FALSE

\* What a session's bucket holds after it paid, when the bucket for all refuses.
\* Mutant: the session is not given back what it paid.
Unrefunded(left, bytes) == left
Refunded(left, bytes) == Capped(left + bytes, SessionLimit)

\* acquire returns a BackpressureSignal.
RefuseQueue ==
    /\ Throttled
    /\ engaged' = TRUE
    /\ UNCHANGED <<tokens, globalTokens, pending>>

RefuseSession(s, bytes) ==
    /\ ~Throttled
    /\ bytes > tokens[s]
    /\ engaged' = FALSE
    /\ UNCHANGED <<tokens, globalTokens, pending>>

RefuseGlobal(s, bytes) ==
    /\ ~Throttled
    /\ bytes <= tokens[s]
    /\ bytes > globalTokens
    /\ tokens' = [tokens EXCEPT ![s] = Refunded(@ - bytes, bytes)]
    /\ engaged' = FALSE
    /\ UNCHANGED <<globalTokens, pending>>

Refuse(s, bytes) == RefuseQueue \/ RefuseSession(s, bytes) \/ RefuseGlobal(s, bytes)

\* report_transferred, with its saturating subtraction.
Reported(bytes) == IF bytes < pending THEN pending - bytes ELSE 0

report_transferred(bytes) ==
    /\ pending' = Reported(bytes)
    /\ UNCHANGED <<tokens, globalTokens, engaged>>

\* Time passes.
Refill ==
    /\ tokens' = [s \in Sessions |-> Capped(tokens[s] + SessionRefill, SessionLimit)]
    /\ globalTokens' = Capped(globalTokens + GlobalRefill, GlobalLimit)
    /\ UNCHANGED <<pending, engaged>>
=============================================================================
