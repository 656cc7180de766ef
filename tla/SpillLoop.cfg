SPECIFICATION FairSpec
CONSTANTS
  Reg <- MCReg
  NPerm = 3
  permregs <- MCpermregs
  Var = {x, y}
  StackArg = {x}
  Stmt = {s}
  xtemps = TRUE
  xssa = FALSE
  MAXLOOP = 2
  None = None
  Old = Old
INVARIANTS
  PermsRestored
PROPERTIES
  RoundsShrink
  Termination
