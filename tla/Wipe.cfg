CONSTANTS
  Blocks = 3
  Clicks = 2
  Mishaps = {"ioerror", "slowstart", "inuse"}
SPECIFICATION Spec
INVARIANTS
  TypeOK
  ErasedBarMishap
  LeaveStops
  DriveUsable
PROPERTIES
  WipeEnds
CHECK_DEADLOCK FALSE
