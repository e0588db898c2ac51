SPECIFICATION FairSpec
CONSTANTS
  WordMod = 32
  Step = 6
  PerMs = 6
  RegBytes <- ChipRegs
  MaxNacks = 1
  MaxDropped = 1
  Script <- ShortScript
  MainWaits <- Waits
INVARIANTS
  DelayExact
  ReadReturns
  CheckedIsKept
PROPERTY
  SetUpEnds
