SPECIFICATION Spec
CONSTANTS
  NFun = 2
  MaxItems = 5
  MaxStmts = 2
  Modes = {FALSE}
  Redefined = FALSE
  Frames = {FALSE, TRUE}
  Unannounced = FALSE
INVARIANT NoStackRefs
