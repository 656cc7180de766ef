SPECIFICATION Spec
CONSTANTS
  MaxInputs = 3
  Killed = FALSE
INVARIANTS
  NoTempLeft
  HonestExit
  InputsComplete
