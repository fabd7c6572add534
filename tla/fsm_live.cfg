SPECIFICATION FairSpec
CONSTANTS
  Pieces = {i1}
  Blocks = {b1}
  i1 = i1
  b1 = b1
  MaxInflight = 2
  MaxActive = 1
  MaxSent = 1
  Chokes = FALSE
  Regreets = FALSE
  Others = FALSE
  Closes = FALSE
  Timely = TRUE
PROPERTIES
  WantedPiecesComplete
