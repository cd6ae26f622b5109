SPECIFICATION FairSpec
CONSTANTS
  Window = 2
  Interrupts = TRUE
  MaxPackets = 6
INVARIANT TypeOK
INVARIANT PacketsIntact
INVARIANT WaitingHasTask
PROPERTY ImplementsFifo
PROPERTY EventuallyHanded
CHECK_DEADLOCK FALSE
