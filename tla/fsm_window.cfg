SPECIFICATION Spec
CONSTANTS
  Pieces = {i1}
  Blocks = {b1, b2}
  i1 = i1
  b1 = b1
  b2 = b2
  MaxInflight = 2
  MaxActive = 1
  MaxSent = 2
  Chokes = FALSE
  Regreets = TRUE
  Others = FALSE
  Closes = TRUE
  Timely = FALSE
SYMMETRY PieceSymmetry
INVARIANTS
  WindowRespected
  LeakBounded
CHECK_DEADLOCK FALSE
