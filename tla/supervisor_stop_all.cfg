CONSTANTS
  NumChildren = 1
  MaxRefs = 4
  MaxRestarts = 2
  MaxFaults <- TwoFaults
  Strategies = {"OneForOne"}
SPECIFICATION Spec
INVARIANT StopAllStops
CHECK_DEADLOCK FALSE
