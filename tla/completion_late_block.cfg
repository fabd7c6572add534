CONSTANTS
  p1 = p1
  p2 = p2
  Peers = {p1, p2}
  NumBlocks = 2
  BlockRequestTimeout = 0
  MaxFaults = 1
  Honest = FALSE
  DiskFaults = FALSE
  MaxReports = 2
SPECIFICATION CompletionSpec
INVARIANT StoredIsVerified
