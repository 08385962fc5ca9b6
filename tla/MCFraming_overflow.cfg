SPECIFICATION Spec
CONSTANTS
  Streams <- MCLongStreams
  BufMax = 64
  ChunkMax = 16
  CaptureLen = 10
INVARIANTS TypeOK DeliveredOnce
CHECK_DEADLOCK FALSE
