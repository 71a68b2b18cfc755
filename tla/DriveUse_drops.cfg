CONSTANTS
  sda1 = sda1
  sdb1 = sdb1
  Parts <- MCParts
  Writable <- MCUsb
  Listed <- MCOne
  Used <- MCUsb
  AutoUnmount = TRUE
  Watching = TRUE
  NoPart = NoPart
SPECIFICATION Spec
INVARIANT DropsReachDrive
