CONSTANTS
  MaxQueue = 2
  StreamSize = 1
  MaxOps = 3
SPECIFICATION FairEvents
CHECK_DEADLOCK FALSE
INVARIANTS
  PanelAgrees
  StatusAgrees
  ReadersCurrent
PROPERTIES
  ServedIsShown
