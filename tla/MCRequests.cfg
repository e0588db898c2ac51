SPECIFICATION Spec
CONSTANTS
  Setups <- HostSetups
  Payloads <- HostPayloads
  MaxTries = 3
  MaxTransfers = 3
  MaxLost = 2
  MaxCorrupted = 1
INVARIANTS
  FailsAsListed
  ReadIsWhole
  LedsFirstWritten
  AltSettingOfLast
