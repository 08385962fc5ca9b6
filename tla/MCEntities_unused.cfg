SPECIFICATION Spec
CONSTANTS
  MaxEvents = 4
  NumZones = 2
  ZoneNames = {"Spa"}
  Models = {"slx", "delta"}
  NumValves = 2
  ValveLabels = {"Waterfall"}
  UserFavourites = {"Favourite 1"}
  FavouriteLabels = {"Party", "Pool"}
  Devices = {"controller", "heater"}
  MaxSeen = 1
  StaleAge = 1
  Levels = {"low"}
  Warm = {"warm"}
  NumChannels = 2
  Reports <- reports
  Names = {"Spa"}
  Watts = {0, 50}
INVARIANT NoUnusedChannel
CHECK_DEADLOCK FALSE
