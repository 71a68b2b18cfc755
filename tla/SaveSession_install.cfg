CONSTANTS
  i1 = i1
  Installers <- MCOne
  Intervals = {1}
  Hotplug = TRUE
  Slow = FALSE
  MaxWork = 1
  MaxStarts = 1
  MaxScripts = 1
SPECIFICATION Spec
INVARIANTS
  InstallAlone
CHECK_DEADLOCK FALSE
