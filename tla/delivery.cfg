CONSTANTS
  a = a
  b = b
  c = c
  f = f
  h1 = h1
  h2 = h2
  Producers = {a, b, c}
  Feeder = f
  Casts <- MCCasts
  Publishers <- MCPublishers
  PriorityOf <- MCPriority
  Listeners = {h1, h2}
  Capacities = {0, 2}
  MaxSize = 2
  Chains <- MCChains
  MaxBecome = 1
SPECIFICATION FairSpec
INVARIANTS TypeOK LettersAreLatest HeardOnce OnlyBypassKills MetricsAgree
PROPERTIES ImplementsMailbox Delivered
CHECK_DEADLOCK FALSE
