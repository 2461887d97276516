----------------------- MODULE MCP2PTransferRefinement -----------------------
(* Small instances of P2PTransferRefinement for TLC. *)
EXTENDS P2PTransferRefinement, TLC

CONSTANTS
    s1, s2, \* sessions
    p1, p2  \* save paths

TwoSessions == {s1, s2}
TwoPaths    == {p1, p2}
TwoAndOne   == (s1 :> 2) @@ (s2 :> 1)
OneConnection == [s \in Sessions |-> "connection"]
OwnPath     == (s1 :> {p1}) @@ (s2 :> {p2})
=============================================================================
