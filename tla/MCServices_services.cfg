SPECIFICATION AllSpec
CONSTANTS
  Ids <- MCIds
  FlashOutcomes <- MCMayFail
  Sockets = {"s1", "s2"}
  Loggers = {"a", "b"}
  Frames = {"f", "g"}
  Window = 2
  MaxFrames = 0
  MaxTimeouts = 1
  Meters = {"filter"}
  Baseline = {}
  Watts = {0, 2}
  Wrap = 9
  Sample = 2
  Interval = 4
  MaxTime = 12
  Own = {"pump", "light"}
  Foreign = {"other"}
  MaxTopics = 3
  MaxChanges = 1
  LogTasks = {"a", "b"}
  Browsers = {"x", "y"}
  RingSize = 3
  FrameMax = 2
  LineSizes = {2}
  MaxClients = 1
  MaxLines = 3
  MaxVisits = 2
  MaxLost = 1
INVARIANTS TypeOK OneInstall AtMostOneLatePing Forgotten
INVARIANTS LogOnlyToClient DecodedOnce EnergyMetered GapsMarked ListedAreRetracted
PROPERTIES OptOutErases StationHeals
CHECK_DEADLOCK FALSE
