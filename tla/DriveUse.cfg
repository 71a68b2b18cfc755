CONSTANTS
  sda1 = sda1
  sdb1 = sdb1
  Parts <- MCParts
  Writable <- MCUsb
  Listed <- MCOne
  Used <- MCUsb
  AutoUnmount = TRUE
  Watching = FALSE
  NoPart = NoPart
SPECIFICATION Spec
INVARIANT TypeOK
PROPERTIES
  RedrawTrue
  WipedStaysUnmounted
  ShownInTheEnd
  Released
