SPECIFICATION FairSpec
CONSTANTS
  Images <- MCImages
  Start = 1
  ScanEnd = 4
CHECK_DEADLOCK FALSE
INVARIANTS
  TypeOK
  ListsWhatIsThere
  NoLeakedFile
  RejectionIsJustified
PROPERTIES
  AttachReturns
