SPECIFICATION Spec
CONSTANT NumPieces = 5
PROPERTY LedgerSpec
CHECK_DEADLOCK FALSE
