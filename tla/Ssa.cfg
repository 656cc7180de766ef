SPECIFICATION Spec
CONSTANTS
  NBlocks = 5
  BranchOn = FALSE
  MaxTaken = 2
  Inner = {"none", "read", "write", "update"}
  InnerTaken = {"none", "update"}
INVARIANTS IdomRight FrontierRight ReadsRight
