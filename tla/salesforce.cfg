SPECIFICATION SessionSpec
CONSTANTS
  Thread = {t1, t2, t3}
  force_logout = TRUE
  MaxSessions = 3
  None = None
\* The object may have been destroyed.
CHECK_DEADLOCK FALSE
INVARIANTS
  SessionTypeOK
  NoForgottenSession
  OneRequest
PROPERTY LockReleased
