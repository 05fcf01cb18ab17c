SPECIFICATION FairClientSpec
CONSTANTS
  MaxCalls = 3
CHECK_DEADLOCK FALSE
INVARIANTS
  ClientTypeOK
  ToldOfLoss
PROPERTIES
  StreamsSettle
