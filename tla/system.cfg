CONSTANTS
  p1 = p1
  p2 = p2
  l1 = l1
  u1 = u1
  u2 = u2
  s1 = s1
  w1 = w1
  n1 = n1
  n2 = n2
  Spawners = {p1, p2}
  Loose = {l1}
  Users = {u1, u2}
  Stoppers = {s1}
  Waiters = {w1}
  Names = {n1, n2}
  NoName = NoName
  NoActor = NoActor
  Kind <- Kinds
  MaxFaults = 1
  Casts <- AllCasts
SPECIFICATION FairSpec
INVARIANTS RegistryConsistent NothingSurvives NilMeansTold EventsInOrder TypeOK
PROPERTIES ImplementsRegistry CallsReturn
CHECK_DEADLOCK FALSE
