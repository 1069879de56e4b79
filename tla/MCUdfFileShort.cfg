SPECIFICATION Spec
CONSTANTS
  c1 = c1
  c2 = c2
  Callers = {c1}
  FileEntries <- MCFileEntries
  ImageSizes = {5}
  ReadAtLens = {1, 3}
  ReadLens = {}
  W = 12
  MaxAlloc = 4
INVARIANTS
  ShortReadHasError
