SPECIFICATION Spec
CONSTANTS
  Window = 2
  Modulus = 7
  FileLength = 7
  Commands = {"READ", "WRITE", "READ_DIR", "SIMPLE"}
  Others = TRUE
  MaxCommands = 2
  MaxFaults = 1
INVARIANT TransferSafe
INVARIANT UploadIntact
CHECK_DEADLOCK FALSE
