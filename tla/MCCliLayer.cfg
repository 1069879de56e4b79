SPECIFICATION Spec
CONSTANTS
  CommandLines <- MCCommandLines
  Discs <- MCDiscs
CHECK_DEADLOCK FALSE
INVARIANTS
  LayerOptionIsHeeded
