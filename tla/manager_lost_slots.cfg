CONSTANTS
  p1 = p1
  p2 = p2
  Peers = {p1, p2}
  NumPieces = 2
  FieldLens = {2}
  MaxIndex = 1
  PerPieceActivePeerCount = 1
  MaxFreq = 2
  Churn = TRUE
  BitfieldFirst = TRUE
  DiskFaults = FALSE
SPECIFICATION Spec
CHECK_DEADLOCK FALSE
INVARIANT WorkCountExact
