SPECIFICATION FairSpec
CONSTANT NumPieces = 5
INVARIANTS
  TypeOK
  ToldAtMostTwice
  RoundsLeaveNoGap
CHECK_DEADLOCK FALSE
PROPERTIES
  EventuallyTold
