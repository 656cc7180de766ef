SPECIFICATION Spec
CONSTANTS
  NFun = 2
  MaxItems = 3
  MaxStmts = 1
  Modes = {FALSE}
  Redefined = FALSE
  Frames = {FALSE}
  Unannounced = TRUE
INVARIANT NothingMissing
