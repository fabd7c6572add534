SPECIFICATION Spec
CONSTANTS
  Pieces = {i1}
  Blocks = {b1}
  i1 = i1
  b1 = b1
  MaxInflight = 1
  MaxActive = 1
  MaxSent = 1
  Chokes = TRUE
  Regreets = FALSE
  Others = FALSE
  Closes = FALSE
  Timely = FALSE
SYMMETRY PieceSymmetry
INVARIANTS
  ChokedWindowEmpty
