SPECIFICATION FairSpec
CONSTANTS
  S = 4
  W = 12
  MinRecord = 2
  Extents <- MCExtents
  Lengths <- MCLengths
CHECK_DEADLOCK FALSE
INVARIANTS
  TypeOK
  PanicsOnlyOnWrap
  EntriesAreDisjoint
  ListsTheDirectory
PROPERTIES
  ReadDirReturns
