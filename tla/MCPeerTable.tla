---------------------------- MODULE MCPeerTable ----------------------------
(* PeerTable for TLC: a public address, one on this machine, and none. *)
EXTENDS PeerTable

CONSTANTS p1, p2, p3

MCAddress == [p \in Peers |-> CASE p = p1 -> "public" [] p = p2 -> "loopback" [] OTHER -> "none"]
=============================================================================
