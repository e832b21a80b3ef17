SPECIFICATION RequestSpec
CONSTANTS
  A = A
  B = B
  None = None
  Service = {A, B}
  Operation <- RqOperation
  Uid = {"u1", "u2"}
  Path <- RqPath
  Name <- RqName
  Action = {"x"}
  Verb = {"GET", "POST"}
  Thread = {t1}
  Call <- RqCall
  Request <- RqRequest
  OpsOf <- RqOpsOf
  NameOf <- RqNameOf
  RequestNames <- RqRequestNames
  ActionOf <- RqActionOf
  BindingOf <- RqBindingOf
  VerbOf <- RqVerbOf
  Location <- RqLocation
  PortPath <- RqPortPath
  Strip <- RqStrip
  LTrim <- RqStrip
  WithQuery <- RqWithQuery
  Bare <- RqBare
  BaseName <- RqBaseName
  Under <- RqUnder
  UrlOnly = {}
  Exact = {"h1"}
INVARIANTS
  TypeOK
  RevConsistent
  NoStaleRoute
  PathExclusive
  UriReachable
  RequestTypeOK
  SteadyServed
  OwnPathFirst
  NotRemovedBefore
  ExactMatchRespected
PROPERTIES
  RouteStable
  RejectedForCause
