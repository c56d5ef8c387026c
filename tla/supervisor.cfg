CONSTANTS
  NumChildren = 2
  MaxRefs = 3
  MaxRestarts = 1
  MaxFaults <- Faults
  Strategies = {"OneForOne", "AllForOne"}
SPECIFICATION FairSpec
INVARIANTS TypeOK NoOrphan RunningIsWatched ToldOfTheDead
PROPERTIES RestartIsFresh DeathIsAnswered StopAllReturns
CHECK_DEADLOCK FALSE
