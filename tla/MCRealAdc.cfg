SPECIFICATION FairSpec
CONSTANTS
  Depth = 8
  LowMod = 4
  WaitCycles = 2
  WaitMod = 4
  Simulation = FALSE
  DryValues <- AnyDry
  MinFast = 3
  MaxFast = 4
  WordCounts <- Counts
  FifoCommands = 2
  MaxCommands = 3
  MaxPresses = 1
INVARIANTS
  TypeOK
  SampleGoesToItsAddress
  AnswerInBounds
  LowByteOwnWord
  DoneMeansCaptured
  FirstAnswerWaits
PROPERTIES
  ImplementsService
  NeverStuckWaiting
  ServesEveryCommand
