CONSTANTS
  d1 = d1
  d2 = d2
  Names <- MCNames
  Removable <- MCRemovable
  Slots <- MCSlots
  Disks <- MCDisks
  Known <- MCDisks
  Shown <- MCDisks
  Count = 2
  Retries = 1
  NoDrive = NoDrive
  NoMedium = NoMedium
  None = None
  Bare = Bare
  MaxChanges = 2
  MaxStarts = 1
SPECIFICATION MCSpec
INVARIANTS
  TypeOK
  ButtonsTypeOK
  IconHasDir
  LettersDistinct
PROPERTIES
  GoneLosesIcon
  NewGetsIcon
  
  RowFollows
  DiesOfGone
CHECK_DEADLOCK FALSE
