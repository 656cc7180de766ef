SPECIFICATION FairSpec
CONSTANTS
  NBlocks = 4
  v = v
  x = x
  p = p
  NoVar = NoVar
  Var = {v, x}
  Perm = {p}
  Bodies <- MCBodies
  Jumps <- MCJumps
  Sheltered = TRUE
INVARIANTS
  OutIsLive
  Solved
  LiveTogetherLinked
PROPERTIES
  OnlyDeadRemoved
  Termination
  BuildAdvances
