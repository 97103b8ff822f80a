\* A stream whose title changes.
SPECIFICATION Spec
CONSTANTS
  BufferSize = 5
  BufferChunk = 2
  PreBuffer = 2
  MetaInt = 2
  MetaUnit = 2
  MaxPiece = 3
  MaxReceived = 12
  MaxLaps = 3
INVARIANT RemovesMetadata
CHECK_DEADLOCK FALSE
