SPECIFICATION Spec
CONSTANTS
  Devices = {d1}
  Files = {f1, f2}
  MaxProbes = 2
INVARIANTS
  BoundIntact
  
  ReadsOwnAnswer
  NothingLeft
  ReplugBinds
PROPERTY
  FreedOnce
CHECK_DEADLOCK FALSE
