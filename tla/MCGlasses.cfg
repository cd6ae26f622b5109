SPECIFICATION FairSpec
CONSTANTS
  MaxSessions = 2
  MaxLosses = 0
  MaxFaults = 0
PROPERTY DisplayAlwaysComesUp
CHECK_DEADLOCK FALSE
