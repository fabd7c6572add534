CONSTANTS
  p1 = p1
  p2 = p2
  Peers = {p1, p2}
  NumPieces = 2
  FieldLens = {0, 1, 3}
  MaxIndex = 3
  PerPieceActivePeerCount = 0
  MaxFreq = 2
  Churn = TRUE
  BitfieldFirst = FALSE
  DiskFaults = TRUE
SPECIFICATION Spec
SYMMETRY PeerSymmetry
CHECK_DEADLOCK FALSE
INVARIANTS
  RarityIndex
  NoWorkOnFinished
  WorkersWithinCap
  HaveLogExact
PROPERTY LedgerSpec
