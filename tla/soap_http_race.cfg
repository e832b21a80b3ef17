SPECIFICATION Spec
CONSTANTS
  A = A
  B = B
  None = None
  Service = {A, B}
  Operation <- MCOperation
  Uid = {"u1", "u2"}
  Path <- MCPath
  Name <- MCName
  Action = {"x"}
  Verb = {"GET"}
  Thread = {t1, t2}
  Call <- HttpOnly
  OpsOf <- MCOpsOf
  NameOf <- MCNameOf
  RequestNames <- MCRequestNames
  ActionOf <- MCActionOf
  BindingOf <- MCBindingOf
  VerbOf <- MCVerbOf
  Location <- MCLocation
  PortPath <- MCPortPath
  Strip <- MCStrip
  LTrim <- MCLTrim
  WithQuery = {"p?x"}
INVARIANT HttpRegistered
