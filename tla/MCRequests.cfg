CONSTANTS
  Reader = {r1}
  Block = {b1, b2, b3, b4, b5}
  None = None
  MaxDepth = 3
  MaxFrames = 3
  MaxRequests = 2
  FailDepth = 1
  Thread = {t1, t2}
  Fraw = {h1, h2, h3}
  Procia = {p1}
  Pid = {i1}
  MaxFd = 5
  Chunk = 1
  MaxTaken = 1
  DestroyFirst = TRUE
SPECIFICATION MCSpec
INVARIANTS HeldIsUsed SwitchIsPutBack
INVARIANTS FramesProtected FilesOwned CallsKeepFiles
SYMMETRY Symmetry
