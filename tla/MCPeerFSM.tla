----------------------------- MODULE MCPeerFSM -----------------------------
(* Model values for PeerFSM.  Pieces, and blocks, are interchangeable: no  *)
(* order between them matters to the connection.                           *)
EXTENDS PeerFSM, TLC

PieceSymmetry == Permutations(Pieces) \cup Permutations(Blocks)
=============================================================================
