SPECIFICATION DummySpec
CONSTANTS
  Depth = 8
  LowMod = 4
  WaitCycles = 2
  WaitMod = 4
  Simulation = FALSE
  CounterMod = 16
INVARIANT
  CounterIsAddress
PROPERTY
  ImplementsAdc
