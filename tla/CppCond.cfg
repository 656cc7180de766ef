SPECIFICATION Spec
CONSTANTS
  MaxInclevel = 2
  WellFormed = TRUE
  MaxDepth = 5
INVARIANTS
  TypeOK
  CountersMatchGroups
PROPERTIES
  ImplementsStd
