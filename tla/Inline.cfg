SPECIFICATION FairSpec
CONSTANTS
  NFun = 2
  MaxItems = 4
  MaxStmts = 2
  Modes = {FALSE, TRUE}
  Redefined = FALSE
  Frames = {FALSE}
  Unannounced = FALSE
INVARIANTS TypeOK WrittenOnce NothingDangling
PROPERTIES PrtoutEnds PrtoutAdvances
