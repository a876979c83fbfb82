\* One caller, two gateway lines, two attempts and a fault.
CONSTANTS
  p1 = p1
  p2 = p2
  k1 = k1
  k2 = k2
  l1 = l1
  l2 = l2
  Procs = {p1}
  Impatient = {p1}
  Conns = {k1, k2}
  NoConn = NoConn
  Lines = {l1, l2}
  MaxAttempts = 2
  MaxCalls = 1
  MaxSessions = 2
  MaxFaults = 1
SPECIFICATION FairSpec
CHECK_DEADLOCK FALSE
PROPERTIES
  GivenUpOnEvidence
  CallReturns
