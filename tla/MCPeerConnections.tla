-------------------------- MODULE MCPeerConnections --------------------------
(***************************************************************************)
(* An instance of PeerConnections for TLC: two connections of one peer and *)
(* one of another, room for a single peer.                                 *)
(***************************************************************************)
EXTENDS PeerConnections

CONSTANTS p1, p2, c1, c2, c3

MCPeers == {p1, p2}
MCConns == {c1, c2, c3}
MCRemote == [c \in MCConns |-> IF c = c3 THEN p2 ELSE p1]
=============================================================================
