SPECIFICATION FairSpec
CONSTANTS
  Streams <- MCStreams
  BufMax = 48
  ChunkMax = 16
  CaptureLen = 10
PROPERTIES ParsesStream CaptureInBuffer EverythingParsed
CHECK_DEADLOCK FALSE
