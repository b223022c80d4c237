CONSTANTS
  Size = 5
  Sym = {a, b}
  Expr = {e1, e2}
  Writer = {w1, w2}
  Main = w1
  Shared = {b}
  Helper = {h}
  Str = {s1, s2, s3}
  EmptyDesc = EmptyDesc
  NoEntry = NoEntry
  NoExpr = NoExpr
  Thread = {w1, w2}
  Lib = {lib1}
  lib1 = lib1
  name1 = name1
  name2 = name2
  Functions <- MCFunctions
  user = user
  MaxRefs = 3
  MaxNest = 2
  Link = {l1, l2, l3, l4}
  head = head
  Item = {i1, i2}
  InitLimit = {1, 2}
  MaxLimit = 8
  BufLimit = {1, 2}
  MaxBlock = 8
  Byte = {x, y, z}
  zero = z
  MaxText = 2
SPECIFICATION MCSpec
INVARIANTS TypeOK IndexInverse SweepInv
INVARIANTS DescriptionsOwned CodeIsMapped FilesClosed LoopPassesAll ContentsKept
PROPERTY ImplementsPool
CHECK_DEADLOCK FALSE
