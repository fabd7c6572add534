CONSTANTS
  p1 = p1
  p2 = p2
  Peers = {p1, p2}
  NumBlocks = 3
  BlockRequestTimeout = 1
  MaxFaults = 2
SPECIFICATION Spec
PROPERTY ViewSpec
