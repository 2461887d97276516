------------------------- MODULE P2PTransferRefinement -------------------------
(***************************************************************************)
(* P2PTransfer implements FileDelivery, as long as no two sessions of the    *)
(* receiver can be given the same save path.                               *)
(***************************************************************************)
EXTENDS P2PTransfer

ASSUME OwnPathAssumption ==
    \A s, t \in Sessions : s # t => PathChoices[s] \cap PathChoices[t] = {}

\* A chunk is delivered when the file at the session's save path holds it; a
\* report is the status Completed.
Delivery == INSTANCE FileDelivery WITH
    stored   <- [s \in Sessions |-> Stored(s)],
    counted  <- sndDone,
    sent     <- [s \in Sessions |-> sndStatus[s] = "Completed"],
    received <- [s \in Sessions |-> rcvStatus[s] = "Completed"]

\* The transfer keeps the promises of FileDelivery: whatever else its steps do,
\* they store the next chunk, count a stored one, report completion of a whole
\* file, or change nothing of this.
DeliversFile == Delivery!Spec
=============================================================================
