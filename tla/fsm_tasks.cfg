SPECIFICATION WatchedSpec
CONSTANTS
  Pieces = {i1}
  Blocks = {b1}
  i1 = i1
  b1 = b1
  MaxInflight = 1
  MaxActive = 1
  MaxSent = 1
  Chokes = TRUE
  Regreets = FALSE
  Others = TRUE
  Closes = FALSE
  Timely = FALSE
INVARIANTS
  TypeOK
  NoLostWakeup
PROPERTIES
  SlotsComeBack
  StaleWorkPruned
