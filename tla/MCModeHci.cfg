SPECIFICATION Spec
CONSTANTS
  QueueLength = 2
  MaxNesting = 2
  MaxInputs = 2
  Sources = {"request"}
  EnableBle = TRUE
  DefaultMode = "ACTIVE"
INVARIANT ModeTaskSendsNoCommand
CHECK_DEADLOCK FALSE
