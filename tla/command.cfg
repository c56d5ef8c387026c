CONSTANTS
  x1 = x1
  x2 = x2
  a1 = a1
  a2 = a2
  Zero = Zero
  Executions = {x1, x2}
  Awaiters = {a1, a2}
SPECIFICATION FairSpec
INVARIANTS TypeOK NoEscape ResultFits OutcomeIsWhole ClosedIsFinal
PROPERTIES StateAdvances ExecuteReturns AwaitReturns
CHECK_DEADLOCK FALSE
