--------------------------- MODULE MCPeerDiscovery ---------------------------
(* A small instance of PeerDiscovery for TLC. *)
EXTENDS PeerDiscovery

CONSTANT p1 \* a peer

OnePeer == {p1}
=============================================================================
