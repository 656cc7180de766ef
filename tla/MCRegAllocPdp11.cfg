SPECIFICATION Spec
CONSTANTS
  t1 = t1
  t2 = t2
  t3 = t3
  p1 = p1
  A = A
  B = B
  Temp <- Pdp11Temp
  Reg <- Pdp11Reg
  Class = {A, B}
  cls <- Pdp11cls
  Overlap <- Pdp11Overlap
  Colormap <- Pdp11Colormap
  Perm = {}
  Long = {p1}
  NotSpill = {}
  Leaf = {}
  Touched = {1, 3}
  MaxEdges = 3
  MaxMoves = 0
INVARIANTS
  NoSpuriousSpill
