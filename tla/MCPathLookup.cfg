SPECIFICATION Spec
CONSTANTS
  Folded <- MCFolded
  Volumes <- MCVolumes
  Paths <- MCPaths
  Counts = {0, 1}
INVARIANTS
  TypeOK
  ListedIsFound
  FieldsInAnyOrder
PROPERTIES
  ImplementsNamespace
