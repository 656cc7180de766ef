SPECIFICATION FairSpec
CONSTANTS
  t1 = t1
  t2 = t2
  t3 = t3
  p1 = p1
  A = A
  B = B
  Temp <- NovaTemp
  Reg <- NovaReg
  Class = {A, B}
  cls <- Novacls
  Overlap <- NovaOverlap
  Colormap <- NovaColormap
  Perm = {t3}
  Long = {t3, p1}
  NotSpill = {p1}
  Leaf = {}
  Touched = {0, 4}
  MaxEdges = 3
  MaxMoves = 1
INVARIANTS
  ProperColoring
  DegreeInvariant
  NoSpuriousSpill
PROPERTIES
  Termination
