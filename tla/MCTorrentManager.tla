-------------------------- MODULE MCTorrentManager --------------------------
(***************************************************************************)
(* Instances of TorrentManager for TLC.  The peers are interchangeable, the *)
(* pieces are numbers.                                                     *)
(***************************************************************************)
EXTENDS TorrentManager, TLC

PeerSymmetry == Permutations(Peers)
=============================================================================
