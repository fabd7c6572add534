-------------------------- MODULE MCHaveBroadcast --------------------------
(* NumPieces is given in the configurations.                               *)
EXTENDS HaveBroadcast
=============================================================================
