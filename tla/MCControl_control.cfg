SPECIFICATION ControlSpec
CONSTANTS
  NTimers = 1
  NZones = 1
  NValves = 0
  NFavourites = 0
  NHeaters = 1
  Silent <- silent
  QueueLen = 1
  MaxAttempts = 2
  ModeAttempts = 2
  MaxFrames = 2
  MaxEvents = 2
  NumChannels = 2
  NumZones = 2
  NumValves = 2
  Temperatures = {10, 42}
  Colors <- colors
  MaxCommands = 2
INVARIANTS ReadBackFollowsWrite ModeAsAsked CommandTakesEffect
PROPERTY RegistersKnown
CHECK_DEADLOCK FALSE
