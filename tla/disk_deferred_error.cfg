SPECIFICATION Spec
CONSTANTS
  Layouts <- TwoFiles
  PieceLens = {2}
  DiskFaults = TRUE
INVARIANTS
  PersistedIsStored
CHECK_DEADLOCK FALSE
