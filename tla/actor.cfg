CONSTANTS
  g1 = g1
  g2 = g2
  t1 = t1
  m1 = m1
  m2 = m2
  m3 = m3
  NoMsg = NoMsg
  Starters = {g1}
  Stoppers = {t1}
  Senders = {m1, m2, m3}
  BufSize = 1
  PanickyHooks <- AllHooks
  PanickyCmds = {m1}
SPECIFICATION FairSpec
INVARIANTS TypeOK Conservation DoneIsQuiescent OneStopper StopIsFinal
PROPERTIES ImplementsContract StopReturns SignalEndsLoop AcceptedIsServed StopReleasesSenders
CHECK_DEADLOCK FALSE
