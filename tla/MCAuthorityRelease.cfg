SPECIFICATION Spec
CONSTANTS
  a = a
  b = b
  x = x
  y = y
  Runs <- MCRuns
  Resources <- MCResources
  NoOwner = NoOwner
  Digests <- MCDigests
  Claims = {"c1", "c2"}
  Receipts <- MCReceipts
  Outputs = {"out"}
  NoOutputs = "none"
  Times <- MCTimes
  MaxFence = 3
  Requests <- MCRequests
  MaxEvents = 5
CHECK_DEADLOCK FALSE
PROPERTY
  StartedHeldUntilCleanup
