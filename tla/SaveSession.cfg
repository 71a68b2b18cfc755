CONSTANTS
  i1 = i1
  Installers <- MCOne
  Intervals = {0, 1}
  Hotplug = TRUE
  Slow = TRUE
  MaxWork = 1
  MaxStarts = 2
  MaxScripts = 2
SPECIFICATION Spec
INVARIANTS
  TypeOK
  HaltOrder
  OneMerge
PROPERTIES
  StoreSpec
  RequestServed
  EverySaved
  InstallerProceeds
  PoweroffCompletes
CHECK_DEADLOCK FALSE
