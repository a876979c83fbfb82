CONSTANTS
  Creds <- MCOneCred
  Requests <- MCOneRequest
  MaxAttempts = 2
  MaxChunks = 1
  Targets = {x, y}
  MaxFlows = 1
  MaxDials = 2
SPECIFICATION FairSpec
CHECK_DEADLOCK FALSE
PROPERTIES
  RunReturns
