SPECIFICATION FairDiscSpec
CONSTANTS
  Images <- MCImages
  Start = 1
  ScanEnd = 6
CHECK_DEADLOCK FALSE
INVARIANTS
  DiscTypeOK
  MountPicksBest
  ListedLayersOpen
  JolietIsItsDescriptor
  NothingAfterDetach
PROPERTIES
  MountReturns
