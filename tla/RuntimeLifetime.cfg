\* Two operations of any kind, two sessions, Close, and
\* the managers of the root and of a group.
CONSTANTS
  o1 = o1
  o2 = o2
  Ops = {o1, o2}
  Nobody = Nobody
  MaxSessions = 2
  MaxManagers = 2
SPECIFICATION FairSpec
CHECK_DEADLOCK FALSE
INVARIANTS
  ForgetCuts
  ShutdownIsFinal
PROPERTIES
  RuntimeEnds
