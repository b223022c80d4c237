CONSTANTS
  Ctx = {c1, c2, c3}
  None = None
  Killable = {}
  MaxDepth = 2
  PoolSize = 2
  Gctp = 60
SPECIFICATION FairSpec
INVARIANTS GcFlagged LockHeldByLive
PROPERTY WaiterResumes
