CONSTANTS
  root = root
  d1 = d1
  a = a
  b = b
  c = c
  d = d
  None = None
  Wh = Wh
  Torn = Torn
  Files = {a, b, c}
  Dirs = {root}
  Root = root
  DirOf <- AllInRoot
  SfsFiles = {}
  SfsDirs = {root}
  Unsaved = {}
  Links = {}
  Size <- BigFiles
  Slack = 1
  Capacity = 5
  MaxStamp = 3
  Faults = TRUE
  HangUps = FALSE
  OldStamps = FALSE
SPECIFICATION Spec
INVARIANT EnoughRoom
