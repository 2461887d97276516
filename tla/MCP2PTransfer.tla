---------------------------- MODULE MCP2PTransfer ----------------------------
(* Small instances of P2PTransfer for TLC. *)
EXTENDS P2PTransfer

CONSTANTS
    s1, s2, \* sessions
    p1, p2  \* save paths

OneSession  == {s1}
TwoSessions == {s1, s2}
OnePath     == {p1}
TwoPaths    == {p1, p2}

\* the lengths of the files
ThreeChunks == [s \in Sessions |-> 3]
TwoChunks   == [s \in Sessions |-> 2]

\* the streams of all sessions share one connection
OneConnection == [s \in Sessions |-> "connection"]

\* the users may choose any path, the same one for both sessions too
AnyPath  == [s \in Sessions |-> Paths]
=============================================================================
