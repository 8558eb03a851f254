\* Three starts, each step of which may fail, and stops that may fail.
SPECIFICATION Spec
CONSTANTS
  MaxStarts = 3
  NoContext = NoContext
INVARIANTS InstalledIsUsable DeviceHeldWhileInUse NoPollAfterStop
PROPERTY StartedIsPolled
CHECK_DEADLOCK FALSE
