SPECIFICATION Spec
CONSTANTS
  Images <- MCImages
  W = 8192
  S = 2048
CHECK_DEADLOCK FALSE
INVARIANTS
  DiagnoseCompletes
