SPECIFICATION Spec
CONSTANTS
  Sounds = 3
  Models = 2
  Blocks = 2
  MaxLevel = 2
  BufferSize = 4
  MaxMessages = 4
INVARIANTS
  OnlyMisread
  CutIsNoticed
  LinesArrive
  FileIsWhole
  DeltaPointIsKept
PROPERTIES
  SignOnSpec
CHECK_DEADLOCK FALSE
