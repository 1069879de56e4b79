SPECIFICATION FairSpec
CONSTANTS
  Images <- MCAllImages
  W = 8192
  S = 2048
CHECK_DEADLOCK FALSE
INVARIANTS
  TypeOK
  OpensTheChain
  DiagnoseAgrees
PROPERTIES
  BothEnd
