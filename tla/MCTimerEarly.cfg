SPECIFICATION TimerSpec
CONSTANTS
  MAX_PROCS = 4
  PROC_START_TICKS = 1
  PROC_MAX_TICKS = 1
  ExitStatus = {}
  PidLimit = 4
  DwordMod = 16
  TIMER_HZ = 1
  MSEC = 2
  Sleeps = {3, 18}
  MaxTicks = 8
PROPERTY
  NotEarly
