\* One key, or two keys pressed together.
SPECIFICATION Spec
CONSTANTS
  FifoDepth = 4
  MaxTyped = 4
INVARIANT NothingDiscarded
CHECK_DEADLOCK FALSE
