SPECIFICATION Spec
CONSTANTS
  Setpoints <- MCSetpoints
  Scales <- MCScales
  MaxMessages = 4
  MaxOutages = 1
INVARIANTS TypeOK NoPhantomHeater HeaterShown SettingFollowed
CHECK_DEADLOCK FALSE
