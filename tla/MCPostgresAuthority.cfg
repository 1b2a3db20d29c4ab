SPECIFICATION StoreSpec
CONSTANTS
  a = a
  b = b
  x = x
  c1 = c1
  c2 = c2
  Runs <- MCRuns
  Resources <- MCResources
  Calls <- MCCalls
  NoCall = NoCall
  NoRequest = NoRequest
  NoOwner = NoOwner
  Digests <- MCDigests
  Claims = {"c1", "c2"}
  Receipts = {"p", "q"}
  Outputs = {"out"}
  NoOutputs = "none"
  Times = {0}
  MaxFence = 2
  Requests <- MCRequests
  MaxEvents = 3
CHECK_DEADLOCK FALSE
INVARIANTS
  AnswersAreTrue
PROPERTIES
  ImplementsKernel
  CallsAreAnswered
