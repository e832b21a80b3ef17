SPECIFICATION Spec
CONSTANTS
  Adder = {a1}
  Installed <- MCInstalled
  NewMethod <- MCNewMethod
  Value <- MCValue
  CalledName = {"echo", "other"}
  EditPeer = TRUE
CHECK_DEADLOCK FALSE
INVARIANTS
  ReadAsWritten
  NothingDropped
  RejectionReported
  AnswerArrives
PROPERTIES
  SteadyDispatch
