SPECIFICATION ServicesSpec
CONSTANTS
  MAX_PROCS = 4
  PROC_START_TICKS = 1
  PROC_MAX_TICKS = 1
  ExitStatus = {}
  PidLimit = 4
  MsgBufferSize = 2
  MaxMapped = 1
  Msg = {}
  Targets = {2, 4}
  MaxSends = 3
  DwordMod = 16
  TIMER_HZ = 1
  MSEC = 2
  Sleeps = {1, 6, 18}
  MaxTicks = 6
  Ttys = {t1, t2}
  FirstTty = t1
  KoutTty = t2
  Proc = {p, q}
  TTY_INBUF_SIZE = 4
  TTY_SCREEN_X = 2
  TTY_SCREEN_Y = 2
  CON_MAX_START_LINE = 1
  CON_LINES = 4
  Text <- MCText
  MaxKeys = 4
  MaxWrites = 1
SYMMETRY MCSymmetry
INVARIANTS
  ReceiverWaits
  DeliveredInOrder
  NotLate
  WakeupMeansSleeping
  NoKeyLost
  NobodyWaitsBesideALine
  ScreenShowsCurrent
