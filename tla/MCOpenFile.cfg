SPECIFICATION Spec
CONSTANTS
  Devices = {d1}
  Files = {f1}
  MaxProbes = 2
INVARIANT
  CallsLive
CHECK_DEADLOCK FALSE
