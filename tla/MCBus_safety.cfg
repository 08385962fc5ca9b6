SPECIFICATION Spec
CONSTANTS
  tcp = tcp
  mqtt = mqtt
  NoTask = NoTask
  Senders <- MCSenders
  Reader = tcp
  Byte <- MCByte
  Frames <- MCFrames
  FrameMax = 2
  StashCap = 2
  DriverCap = 3
  ReadMax = 1
  MaxAttempts = 2
  TxTimeoutBytes = 1
  HalfWrap = 4
  MaxForeign = 2
  MaxCalls = 2
INVARIANTS TypeOK VerdictTrue EchoInBounds OneTransmitter
PROPERTY KeepsLinePromise
CHECK_DEADLOCK FALSE
