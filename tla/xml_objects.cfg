SPECIFICATION ObjectsSpec
CONSTANTS
  Object = {o1, o2, o3, o4, o5}
  Tree = {t1, t2, t3, t4}
SYMMETRY Symmetry
CHECK_DEADLOCK FALSE
INVARIANTS
  Alive
  RefsCounted
  NothingLeaks
