--------------------------- MODULE MCPieceManager ---------------------------
(***************************************************************************)
(* Instances of PieceManager for TLC; the peers are interchangeable.       *)
(***************************************************************************)
EXTENDS PieceManager, TLC

PeerSymmetry == Permutations(Peers)
=============================================================================
