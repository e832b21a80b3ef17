SPECIFICATION Spec
CONSTANTS
  Adder = {a1}
  Installed <- MCInstalled
  NewMethod <- MCNewMethod
  Value <- MCValue
  CalledName = {"echo", "listMethods"}
  EditPeer = FALSE
CHECK_DEADLOCK FALSE
INVARIANTS
  AnswerIsReturn
