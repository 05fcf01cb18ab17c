SPECIFICATION FairSpec
CONSTANTS
  MaxFragments = 3
PROPERTIES
  StopDiscards
