SPECIFICATION FairSpec
CONSTANTS
  Io <- OneIo
  Timers <- OneTimer
  Defers <- OneDefer
  Watchable <- OneDefer
  TicksPerMs = 2
  MaxNow = 3
  Width = 4
CHECK_DEADLOCK FALSE
INVARIANTS
  TypeOK
  HandlesMatch
PROPERTIES
  TimerNotEarly
  ImplementsApi
  TimersFire
  Served
