SPECIFICATION TtySpec
CONSTANTS
  Ttys = {t1, t2}
  FirstTty = t1
  KoutTty = t2
  Proc = {p, q}
  TTY_INBUF_SIZE = 4
  TTY_SCREEN_X = 2
  TTY_SCREEN_Y = 2
  CON_MAX_START_LINE = 1
  CON_LINES = 4
  Text <- MCText
  MaxKeys = 4
  MaxWrites = 1
SYMMETRY MCSymmetry
INVARIANT SleepersAreServed
