SPECIFICATION Spec
CONSTANTS
  Users = {1}
  LowMod = 4
  WordCounts <- Counts
  FifoCommands = 2
  MaxWrites = 3
  MaxTxFailures = 0
  MaxRxFailures = 0
INVARIANT
  CountKept
CHECK_DEADLOCK FALSE
