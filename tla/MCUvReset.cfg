SPECIFICATION FairSpec
CONSTANTS
  Io <- OneIo
  Timers <- NoEvent
  Defers <- OneDefer
  Watchable <- OneDefer
  TicksPerMs = 2
  MaxNow = 0
  Width = 4
CHECK_DEADLOCK FALSE
PROPERTIES
  ResetReported
