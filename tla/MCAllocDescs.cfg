SPECIFICATION FairSpec
CONSTANTS
  Volumes <- MCVolumes
  S = 2
  W = 8
  MaxDepth = 5
CHECK_DEADLOCK FALSE
INVARIANTS
  TypeOK
  ExtentsAreTheChain
PROPERTIES
  ParseEnds
