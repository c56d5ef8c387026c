CONSTANTS
  g1 = g1
  g2 = g2
  t1 = t1
  m1 = m1
  m2 = m2
  m3 = m3
  NoMsg = NoMsg
  Starters = {g1}
  Stoppers = {t1}
  Senders = {m1}
  BufSize = 1
  PanickyHooks = {}
  PanickyCmds = {}
SPECIFICATION Spec
PROPERTY TerminalIsFinal
CHECK_DEADLOCK FALSE
