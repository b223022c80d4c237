CONSTANTS
  Alphabet = {"dquote","squote","escape","(",")",";","space","newline","n","a"}
  BufSize = 3
  MaxText = 5
  Depth = 20
  MaxRequests = 3
  Cell = {c1, c2, c3}
  Atom = {"NIL", "a"}
  PNULL = PNULL
SPECIFICATION MCSpec
INVARIANTS ReadsText MeansTheSame PrintsEverything
CHECK_DEADLOCK FALSE
