SPECIFICATION Spec
CONSTANTS
  Outputs <- MCOutputs
  RequestQSize = 1
  ResponseQSize = 2
  MarketQSize = 1
  MaxPending = 1
  MaxTime = 2
  MaxRequests = 4
INVARIANT EngineDrainsQueue
CHECK_DEADLOCK FALSE
