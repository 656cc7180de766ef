SPECIFICATION Spec
CONSTANTS
  NBlocks = 5
  BranchOn = TRUE
  MaxTaken = 0
  Inner = {"none", "read", "write", "update"}
  InnerTaken = {"none", "update"}
INVARIANT ReadsRight
