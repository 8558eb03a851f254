\* Entries of one and two keys, a controller and a queue that both overflow.
SPECIFICATION PathSpec
CONSTANTS
  Key = {0, 1, 2, 3, 4, 5, 6, 7}
  ZeroKey = 0
  KeyMaxCount = 4
  NotReady = NotReady
  FifoDepth = 3
  MaxTyped = 7
INVARIANTS ReadInOrder
PROPERTY ImplementsFifo
