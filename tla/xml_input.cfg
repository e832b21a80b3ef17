SPECIFICATION InputSpec
CONSTANTS
  Thread = {t1, t2}
  Callback = {c1, c2}
  None = None
  Call <- Calls
SYMMETRY Symmetry
\* A process that crashed stops.
CHECK_DEADLOCK FALSE
INVARIANTS
  OwnCallback
  Released
