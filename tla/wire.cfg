SPECIFICATION FairSpec
CONSTANTS
  PstrLens = {0, 2, 19}
  Sendable <- Messages
  MaxSent = 2
INVARIANTS
  StreamExact
PROPERTIES
  EverythingRead
CHECK_DEADLOCK FALSE
