SPECIFICATION Spec
CONSTANTS
  Group = 3
  Capacity = 4
  Values = {0, 1}
  Replug = TRUE
  MaxRequests = 4
  MaxFaults = 1
INVARIANT CacheSafe
INVARIANT SyncedIsOnCard
PROPERTY ImplementsDisk
CHECK_DEADLOCK FALSE
