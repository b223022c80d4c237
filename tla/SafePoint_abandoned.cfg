CONSTANTS
  Ctx = {c1, c2}
  None = None
  Killable = {c1}
  MaxDepth = 1
  PoolSize = 2
  Gctp = 60
SPECIFICATION Spec
CHECK_DEADLOCK FALSE
INVARIANT LockHeldByLive
