SPECIFICATION Spec
CONSTANTS
  Pieces = {i1}
  Blocks = {b1, b2}
  i1 = i1
  b1 = b1
  b2 = b2
  MaxInflight = 1
  MaxActive = 1
  MaxSent = 1
  Chokes = TRUE
  Regreets = TRUE
  Others = TRUE
  Closes = FALSE
  Timely = FALSE
SYMMETRY PieceSymmetry
INVARIANTS
  NoLostWakeup
  WorkIsOpen
PROPERTIES
  ViewSpec
  SeesThePieces
