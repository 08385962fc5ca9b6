SPECIFICATION Spec
CONSTANTS
  Setpoints <- MCSetpoints
  Scales <- MCScales
  MaxMessages = 4
  MaxOutages = 1
INVARIANT StateReachesBroker
CHECK_DEADLOCK FALSE
