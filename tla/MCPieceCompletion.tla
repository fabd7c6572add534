-------------------------- MODULE MCPieceCompletion --------------------------
(***************************************************************************)
(* Instances of PieceCompletion for TLC; the peers are interchangeable.    *)
(***************************************************************************)
EXTENDS PieceCompletion, TLC

PeerSymmetry == Permutations(Peers)
=============================================================================
