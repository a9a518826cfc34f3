SPECIFICATION ChatSpec
CONSTANTS
  MAX_PROCS = 5
  PROC_START_TICKS = 1
  PROC_MAX_TICKS = 1
  ExitStatus = {}
  PidLimit = 5
  MsgBufferSize = 1
  MaxMapped = 2
  Msg = {m1}
PROPERTY
  EveryReadyProcessRuns
