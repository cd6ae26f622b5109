SPECIFICATION FairSpec
CONSTANTS
  Window = 2
  Modulus = 7
  FileLength = 7
  Commands = {"READ", "READ_DIR"}
  Others = FALSE
  MaxCommands = 3
  MaxFaults = 2
INVARIANT DownloadSafe
PROPERTY TransfersEnd
CHECK_DEADLOCK FALSE
