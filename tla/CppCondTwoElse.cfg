SPECIFICATION Spec
CONSTANTS
  MaxInclevel = 1
  WellFormed = FALSE
  MaxDepth = 3
INVARIANTS
  NoSecondElse
