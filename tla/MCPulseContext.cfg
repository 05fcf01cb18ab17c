SPECIFICATION FairSpec
CONSTANTS
  MaxCalls = 3
CHECK_DEADLOCK FALSE
INVARIANTS
  TypeOK
  InOnePlace
  IssueOrder
  PendingIsOwed
  RefusedOnlyWhenLost
  SurvivesLoss
PROPERTIES
  FailureReachesAll
  EachCallSettles
