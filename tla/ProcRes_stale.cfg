CONSTANTS
  MaxSh = 1
  MaxKills = 1
SPECIFICATION Spec
INVARIANT NobodyElsesItem
