\* Liveness: two goroutines, one call each or two in a row.
CONSTANTS
  p1 = p1
  p2 = p2
  Procs = {p1, p2}
  NoProc = NoProc
  MaxCalls = 2
  Offered = {"credential", "force", "relogin", "check", "forget"}
SPECIFICATION FairSpec
PROPERTIES
  EveryCallReturns
