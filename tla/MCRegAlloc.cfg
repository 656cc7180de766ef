SPECIFICATION Spec
CONSTANTS
  Temp = {t1, t2, t3, t4}
  Reg <- MCReg
  Class <- MCClass
  cls <- MCcls
  Overlap = {}
  Colormap <- MCColormap
  Perm = {}
  Long = {t1, t2}
  NotSpill = {}
  Leaf = {}
  Touched = {0}
  MaxEdges = 4
  MaxMoves = 2
SYMMETRY Symmetry
INVARIANTS
  TypeOK
  ProperColoring
  WorklistInvariant
  EveryMoveDecided
PROPERTIES
  StackIsLIFO
  LoopAdvances
