SPECIFICATION Spec
CONSTANTS
  Reg <- G1Reg
  NPerm = 2
  permregs <- G1permregs
  Var = {x, y}
  StackArg = {x}
  Stmt = {s}
  xtemps = TRUE
  xssa = FALSE
  MAXLOOP = 2
  None = None
  Old = Old
INVARIANTS
  PermsRestored
