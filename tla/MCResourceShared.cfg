SPECIFICATION Spec
CONSTANTS
  Modes = {"ACTIVE", "START", "CONFIG"}
  Transfers = {"READ", "WRITE", "DIR"}
  MaxMounts = 4
  MaxFaults = 0
INVARIANT CardExclusive
CHECK_DEADLOCK FALSE
