SPECIFICATION FairSpec
CONSTANTS
  CommandLines <- MCCommandLines
  Discs <- MCDiscs
CHECK_DEADLOCK FALSE
INVARIANTS
  TypeOK
  PicksAsMount
  DestinationIsSafe
PROPERTIES
  RunEnds
