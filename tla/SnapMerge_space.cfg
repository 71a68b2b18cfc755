CONSTANTS
  root = root
  d1 = d1
  a = a
  b = b
  c = c
  d = d
  None = None
  Wh = Wh
  Torn = Torn
  Files = {a, b, c, d}
  Dirs = {root}
  Root = root
  DirOf <- AllInRoot
  SfsFiles = {}
  SfsDirs = {root}
  Unsaved = {}
  Links = {}
  Size <- Growing
  Slack = 2
  Capacity = 4
  MaxStamp = 4
  Faults = FALSE
  HangUps = FALSE
  OldStamps = FALSE
SPECIFICATION Spec
SYMMETRY Alike
INVARIANT EnoughRoom
