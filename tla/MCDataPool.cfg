SPECIFICATION Spec
CONSTANTS
  Task = {t1, t2}
  Len = {5, 30}
  Order = 4
SYMMETRY Symmetry
INVARIANT
  PoolSuffices
CHECK_DEADLOCK FALSE
