\* The tightest ring the assumption allows, into its second lap, with resets, a
\* seek that tears the stream and one that mends it.
SPECIFICATION Spec
CONSTANTS
  Size = 3
  Chunk = 2
  MinBuffers = 2
  MixLength = 2
  MaxDecoded = 5
  MaxSeeks = 2
INVARIANTS TypeOK RingInv
PROPERTY Fifo
CHECK_DEADLOCK FALSE
