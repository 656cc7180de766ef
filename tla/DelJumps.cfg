SPECIFICATION FairSpec
CONSTANTS
  MaxLen = 6
  NLabels = 3
  InUse = {3}
INVARIANTS
  SameFlow
  RefsExact
PROPERTIES
  Termination
