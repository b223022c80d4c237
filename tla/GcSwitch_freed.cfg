CONSTANTS
  Reader = {r1, r2}
  Block = {b1, b2}
  None = None
SPECIFICATION Spec
INVARIANT HeldIsUsed
