-------------------------- MODULE MCPeerConnections --------------------------
(* Small instances of PeerConnections for TLC. *)
EXTENDS PeerConnections, TLC

CONSTANTS
    a, b,   \* peers
    c1, c2  \* connections

TwoPeers == {a, b}
OneConn  == {c1}
TwoConns == {c1, c2}

\* a dials, twice when there are two connections
DialerA   == [c \in Conns |-> a]
AcceptorB == [c \in Conns |-> b]

\* both dial each other
DialerAB   == (c1 :> a) @@ (c2 :> b)
AcceptorBA == (c1 :> b) @@ (c2 :> a)
=============================================================================
