SPECIFICATION FairSpec
CONSTANTS
  Users = {1}
  LowMod = 4
  WordCounts <- Counts
  FifoCommands = 2
  MaxWrites = 4
  MaxTxFailures = 2
  MaxRxFailures = 1
INVARIANTS
  AnswerInStep
  BufferAtRest
  CountStable
  BacklogBounded
PROPERTY
  WriteAnswered
CHECK_DEADLOCK FALSE
