SPECIFICATION Spec
CONSTANTS
  NBlocks = 4
  v = v
  x = x
  p = p
  NoVar = NoVar
  Var = {v, x}
  Perm = {p}
  Bodies <- ShortBodies
  Jumps <- ShortJumps
  Sheltered = FALSE
PROPERTIES
  OnlyDeadRemoved
