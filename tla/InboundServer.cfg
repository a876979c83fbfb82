CONSTANTS
  Creds <- MCCreds
  Requests <- MCRequests
  MaxAttempts = 2
  MaxChunks = 1
  Targets = {x, y}
  MaxFlows = 1
  MaxDials = 2
SPECIFICATION FairSpec
CHECK_DEADLOCK FALSE
INVARIANTS
  DialAuthorised
  WireWellFormed
  FlowsOwned
PROPERTIES
  RefusalIsFinal
  IdleIsIdle
  RelayEnds
  HandlersUnwind
