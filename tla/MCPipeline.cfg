SPECIFICATION Spec
CONSTANTS
  Outputs <- MCOutputs
  RequestQSize = 1
  ResponseQSize = 2
  MarketQSize = 1
  MaxPending = 1
  MaxTime = 2
  MaxRequests = 4
INVARIANT RequestsKept
PROPERTIES EveryRequestAnswered StopReturnsUnlessStranded
CHECK_DEADLOCK FALSE
