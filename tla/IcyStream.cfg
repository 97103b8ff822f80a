\* Pieces of every size, three laps of the ring.
SPECIFICATION Spec
CONSTANTS
  BufferSize = 5
  BufferChunk = 2
  PreBuffer = 2
  MetaInt = 2
  MetaUnit = 2
  MaxPiece = 3
  MaxReceived = 16
  MaxLaps = 3
INVARIANTS TypeOK InStep PieceIsAudio
PROPERTIES InOrder LittleIsLost
CHECK_DEADLOCK FALSE
