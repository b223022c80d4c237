CONSTANTS
  Ctx = {c1, c2, c3}
  None = None
  Killable = {c1, c2}
  MaxDepth = 1
  PoolSize = 3
  Gctp = 60
SPECIFICATION Spec
SYMMETRY Symmetry
CHECK_DEADLOCK FALSE
INVARIANTS TypeOK GcExclusive LockOrder NoStrandedWaiter WaitersHavePressure
PROPERTY StopsTheWorld
