CONSTANTS
  Blocks = 3
  Clicks = 1
  Mishaps = {"ioerror"}
SPECIFICATION Spec
INVARIANT SuccessMeansErased
CHECK_DEADLOCK FALSE
