SPECIFICATION FairSpec
CONSTANTS
  MaxChunks = 2
  Length <- LongLengths
  TLength = 2
  MaxFlushes = 2
PROPERTIES
  StopDiscards
