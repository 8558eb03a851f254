\* Every start of the counter, delays over its wrap, reads that miss a value,
\* interrupts anywhere.
SPECIFICATION FairSpec
CONSTANTS
  Modulus = 6
  MaxDelay = 5
  MaxSkip = 2
  Horizon = 6
  Functions = {f, g}
  NULL = NULL
  Periods = {0, 1, 2}
  MaxMissed = 2
INVARIANTS DelayIsExact EarlyOnlyAtWrap OffStaysOff
PROPERTY DelayEnds
CHECK_DEADLOCK FALSE
