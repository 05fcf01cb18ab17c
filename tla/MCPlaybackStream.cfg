SPECIFICATION FairSpec
CONSTANTS
  MaxChunks = 3
  Length <- MixedLengths
  TLength = 2
  MaxFlushes = 2
INVARIANTS
  TypeOK
  OneHolder
  NoIdleCredit
  CreditRespected
  DiscardSparesNewChunks
  InOrder
  HonestDone
  DoneInOrder
PROPERTIES
  NothingStartsStopped
  ImplementsSink
  EachChunkSettles
  EndCloses
