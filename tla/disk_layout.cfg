SPECIFICATION Spec
CONSTANTS
  Layouts <- SmallLayouts
  PieceLens = {2, 3}
  DiskFaults = TRUE
INVARIANTS
  TypeOK
  BytesInPlace
  FlushesAreComplete
  ReadBackExact
CHECK_DEADLOCK FALSE
