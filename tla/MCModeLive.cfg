SPECIFICATION FairSpec
CONSTANTS
  QueueLength = 2
  MaxNesting = 2
  MaxInputs = 2
  Sources = {"button", "vbus", "request", "terminal", "phone"}
  EnableBle = TRUE
  DefaultMode = "ACTIVE"
PROPERTY RequestResolved
PROPERTY PairingEnds
CHECK_DEADLOCK FALSE
