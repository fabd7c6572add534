SPECIFICATION Spec
CONSTANT NumPieces = 5
INVARIANTS
  PeerIsUpToDate
CHECK_DEADLOCK FALSE
