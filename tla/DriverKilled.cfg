SPECIFICATION Spec
CONSTANTS
  MaxInputs = 1
  Killed = TRUE
INVARIANTS
  HonestExit
