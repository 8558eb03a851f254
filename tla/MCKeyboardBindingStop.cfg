\* One start and one stop.
SPECIFICATION Spec
CONSTANTS
  MaxStarts = 1
  NoContext = NoContext
INVARIANT StopFreesAllEvents
CHECK_DEADLOCK FALSE
