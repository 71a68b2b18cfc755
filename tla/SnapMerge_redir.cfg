CONSTANTS
  root = root
  d1 = d1
  a = a
  b = b
  c = c
  d = d
  None = None
  Wh = Wh
  Torn = Torn
  Files = {a}
  Dirs = {root, d1}
  Root = root
  DirOf <- AllInD1
  SfsFiles = {a}
  SfsDirs = {root, d1}
  Unsaved = {}
  Links = {}
  Size <- SmallFiles
  Slack = 1
  Capacity = 5
  MaxStamp = 2
  Faults = TRUE
  HangUps = FALSE
  OldStamps = FALSE
SPECIFICATION Spec
INVARIANT LayerSaved
