SPECIFICATION FairSpec
CONSTANTS
  tcp = tcp
  mqtt = mqtt
  NoTask = NoTask
  Senders <- MCSenders
  Reader = tcp
  Byte <- MCByte
  Frames <- MCFrames
  FrameMax = 2
  StashCap = 12
  DriverCap = 3
  ReadMax = 1
  MaxAttempts = 2
  TxTimeoutBytes = 2
  HalfWrap = 16
  MaxForeign = 2
  MaxCalls = 2
PROPERTIES NoEchoMeansSilence SendReturns
CHECK_DEADLOCK FALSE
