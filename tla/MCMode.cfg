SPECIFICATION Spec
CONSTANTS
  QueueLength = 2
  MaxNesting = 3
  MaxInputs = 3
  Sources = {"button", "vbus", "request", "terminal", "phone"}
  EnableBle = TRUE
  DefaultMode = "ACTIVE"
INVARIANT TypeOK
INVARIANT RequestsMatch
INVARIANT LiveMatchesMode
INVARIANT VbusHonoured
PROPERTY RestartOnlyWhenQuiet
CHECK_DEADLOCK FALSE
