CONSTANTS
  root = root
  d1 = d1
  a = a
  b = b
  c = c
  d = d
  None = None
  Wh = Wh
  Torn = Torn
  Files = {a, b}
  Dirs = {root, d1}
  Root = root
  DirOf <- AllInD1
  SfsFiles = {a}
  SfsDirs = {root, d1}
  Unsaved = {}
  Links = {b}
  Size <- SmallFiles
  Slack = 0
  Capacity = 3
  MaxStamp = 2
  Faults = TRUE
  HangUps = TRUE
  OldStamps = FALSE
SPECIFICATION Spec
INVARIANTS
  TypeOK
  NothingUncovered
  RecoveryPoint
  MergeSaves
PROPERTIES
  TreeSpec
  LiveViewStable
