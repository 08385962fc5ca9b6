SPECIFICATION FairSpec
CONSTANTS
  web = web
  mqtt = mqtt
  Callers <- MCCallers
  MqttTask = mqtt
  Releases <- MCReleases
  Feeds <- MCOneFeed
  FirstBoot = 1
INVARIANTS TypeOK OneOperation InstallsWhatWasAsked
PROPERTIES InstallKeepsState WorkEnds
