SPECIFICATION Spec
CONSTANTS
  MaxCalls = 2
CHECK_DEADLOCK FALSE
INVARIANTS
  ResolvedMeansDone
