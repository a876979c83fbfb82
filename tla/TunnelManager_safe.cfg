\* Two callers share connects while one session replaces another, a tunnel
\* breaks and the manager is reset.
CONSTANTS
  p1 = p1
  p2 = p2
  k1 = k1
  k2 = k2
  l1 = l1
  l2 = l2
  Procs = {p1, p2}
  Impatient = {p1, p2}
  Conns = {k1, k2}
  NoConn = NoConn
  Lines = {l1}
  MaxAttempts = 1
  MaxCalls = 2
  MaxSessions = 2
  MaxFaults = 1
SPECIFICATION Spec
SYMMETRY Symmetry
CHECK_DEADLOCK FALSE
INVARIANTS
  FlightOwned
  TunnelOfSession
PROPERTIES
  SeenAsManager
