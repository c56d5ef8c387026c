CONSTANTS
  NumChildren = 1
  MaxRefs = 4
  MaxRestarts = 2
  MaxFaults <- TwoFaults
  Strategies = {"OneForOne"}
SPECIFICATION Spec
INVARIANT CleanStopStays
CHECK_DEADLOCK FALSE
