\* Two registrations, three presses, queues of two keystrokes.
SPECIFICATION FairSpec
CONSTANTS
  Handle = {h1, h2}
  NotifyFn = {f}
  DeviceKey <- AllKeys
  RegisterKey <- ShiftKeys
  ToggleRequest <- ExposedRequests
  Capacity = 2
  MaxPress = 3
  NoKey = NoKey
  NoLink = NoLink
INVARIANTS TypeOK NoLostWakeup NothingOwedWhenDone WaitForKeyTruthful
PROPERTY NotifyDelivered
