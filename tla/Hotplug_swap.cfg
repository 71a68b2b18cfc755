CONSTANTS
  d1 = d1
  d2 = d2
  Names <- MCNames
  Removable <- MCRemovable
  Slots <- MCNoSlots
  Disks <- MCDisks
  Known <- MCDisks
  Shown <- MCDisks
  Count = 2
  Retries = 1
  NoDrive = NoDrive
  NoMedium = NoMedium
  None = None
  Bare = Bare
  MaxChanges = 2
  MaxStarts = 1
SPECIFICATION ButtonsSpec
PROPERTY SizeTrue
CHECK_DEADLOCK FALSE
