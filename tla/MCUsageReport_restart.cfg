SPECIFICATION FairSpec
CONSTANTS
  Ids <- MCIds
  FlashOutcomes <- MCStored
PROPERTY EveryOptOutErases
