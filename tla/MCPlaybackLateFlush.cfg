SPECIFICATION Spec
CONSTANTS
  MaxChunks = 2
  Length <- LongLengths
  TLength = 2
  MaxFlushes = 2
INVARIANTS
  FlushSparesNewChunks
