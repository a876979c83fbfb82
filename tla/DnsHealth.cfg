\* Two callers at a time, two names; one server and three lookups,
\* or two servers and two lookups.
CONSTANTS
  c1 = c1
  c2 = c2
  Callers = {c1, c2}
  h1 = h1
  h2 = h2
  Hosts = {h1, h2}
  MaxServers = 2
  Flights = 3
  Size = 4
  MaxFailures = 2
SPECIFICATION Spec
CHECK_DEADLOCK FALSE
SYMMETRY Symmetry
INVARIANTS
  ProbeOwned
  NoWaiterCut
PROPERTIES
  CooldownStands
