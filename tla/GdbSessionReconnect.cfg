SPECIFICATION Spec
CONSTANTS
  Requests <- AllRequests
  MaxQueue = 2
  Mishaps <- Reconnect
INVARIANT PacketsProcessed
