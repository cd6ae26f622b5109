SPECIFICATION FairSpec
CONSTANTS
  Capacity = 2
  MaxWrites = 3
  MaxAir = 2
INVARIANT RequestsSafe
PROPERTY AnswerHonoured
PROPERTY PendingResolved
CHECK_DEADLOCK FALSE
