CONSTANTS
  NumChildren = 2
  MaxRefs = 4
  MaxRestarts = 2
  MaxFaults <- TwoFaults
  Strategies = {"AllForOne"}
SPECIFICATION Spec
PROPERTY NoStaleCascade
CHECK_DEADLOCK FALSE
