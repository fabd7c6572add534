--------------------------- MODULE MCDiskManager ---------------------------
(* File layouts: one file, empty files at the start, in the middle and at  *)
(* the end, files shorter than a piece, and piece ends on file ends.       *)
EXTENDS DiskManager

SmallLayouts == {<<5>>, <<0, 4>>, <<3, 0, 2>>, <<1, 1, 3>>, <<2, 3, 0>>}
TwoFiles == {<<3, 2>>}
=============================================================================
