CONSTANTS
  MaxSh = 2
  MaxKills = 2
SPECIFICATION FairSpec
INVARIANTS NoLeak ListedFileIsOpen
PROPERTY KillEnds
