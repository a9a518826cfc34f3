SPECIFICATION Spec
CONSTANTS
  Proc = {a, b}
  idle = idle
INVARIANT
  RunningIsCurrent
