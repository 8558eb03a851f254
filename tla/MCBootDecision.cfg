\* Three presses anywhere around the checks and three calls of PriorityBoot.
SPECIFICATION DecisionSpec
CONSTANTS
  Retries = 4
  MaxPress = 3
  MaxCalls = 3
INVARIANTS NeverBootsOnBadReading ShutdownIsJustified OnePressOneRequest LatestPressKept PublishedIsLive
PROPERTY Terminates
CHECK_DEADLOCK FALSE
