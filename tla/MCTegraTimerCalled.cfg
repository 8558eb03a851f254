SPECIFICATION Spec
CONSTANTS
  Functions = {f}
  NULL = NULL
  Periods = {0, 1}
  MaxMissed = 1
INVARIANT CalledEveryInterrupt
CHECK_DEADLOCK FALSE
