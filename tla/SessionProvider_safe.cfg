\* Two goroutines, three calls of any kind.
CONSTANTS
  p1 = p1
  p2 = p2
  Procs = {p1, p2}
  NoProc = NoProc
  MaxCalls = 3
  Offered = {"credential", "force", "relogin", "check", "forget"}
SPECIFICATION Spec
SYMMETRY Symmetry
INVARIANTS
  SingleAcquisition
  AnswerSinceCall
  RejectedNotServed
  ForgottenStaysHidden
  ServedIsStored
  AnsweredForItself
PROPERTIES
  ImplementsContract
