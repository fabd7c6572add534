CONSTANTS
  p1 = p1
  p2 = p2
  p3 = p3
  Peers = {p1, p2, p3}
  NumPieces = 3
  FieldLens = {3}
  MaxIndex = 2
  PerPieceActivePeerCount = 1
  MaxFreq = 2
  Churn = FALSE
  BitfieldFirst = TRUE
  DiskFaults = FALSE
SPECIFICATION FairSpec
CHECK_DEADLOCK FALSE
INVARIANTS
  TypeOK
  WorkCountExact
  FrequencyExact
PROPERTY RarestFirst
PROPERTY HeldPiecesComplete
