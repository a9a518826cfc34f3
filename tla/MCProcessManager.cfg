SPECIFICATION Spec
CONSTANTS
  MAX_PROCS = 4
  PROC_START_TICKS = 1
  PROC_MAX_TICKS = 2
  ExitStatus = {5}
  PidLimit = 5
INVARIANTS
  TypeOK
  RunListExact
  CurrentIsHead
  PidLookup
  WaitersMatch
  PanicExplained
PROPERTIES
  WaitReturnsStatus
  NearerToItsTurn
