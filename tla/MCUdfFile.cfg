SPECIFICATION FairSpec
CONSTANTS
  c1 = c1
  c2 = c2
  Callers = {c1, c2}
  FileEntries <- MCFileEntries
  ImageSizes = {4, 5}
  ReadAtLens = {1, 3}
  ReadLens = {1, 2}
  W = 12
  MaxAlloc = 4
INVARIANTS
  TypeOK
  ReadAtReturnsTheBytes
  ReadAtErrorIsJustified
  StreamIsAPrefix
  StreamAgreesWithReadFile
  ReadFileIsExact
CONSTRAINT Bounded
PROPERTIES
  EveryCallReturns
  ImplementsReaderAt
