CONSTANTS
  t1 = t1 t2 = t2
  arr0 = arr0 arr1 = arr1 arr2 = arr2 arr3 = arr3 arr4 = arr4
  m1 = m1 m2 = m2 m3 = m3 m4 = m4
  Thread = {t1, t2}
  Arr = {arr0, arr1, arr2, arr3, arr4}
  Atom = {n}
  nil = n
  Layer <- MCLayer
  Size <- MCSize
  MaxIndices = 3
  ArrayPrograms <- MCArrayPrograms
  Map = {m1, m2, m3, m4}
  Key = {k1, k2}
  Refused = {k2}
  Val = {v1}
  Depth <- MCDepth
  MaxPairs = 1
  Kind <- MCKind
  MapPrograms <- MCMapPrograms
  HashKey = {"a", "b", "c", "d", "e", "f", "g"}
  Value = {w1, w2}
  NoValue = NoValue
  HashBits = 3
  Hv <- MCHv
  MinBits = 1
  MaxBits = 3
  Char = {"a", "b", "c", " ", "n", "r"}
  White = {" ", "n", "r"}
  newline = "n"
  return = "r"
  Calls <- MCCalls
SPECIFICATION MCSpec
SYMMETRY Symmetry
INVARIANTS NobodyStuck UsedSafely StringsRight
PROPERTY HashIsMap
CHECK_DEADLOCK FALSE
