------------------------ MODULE ActorSystemRefinement -------------------------
(***************************************************************************)
(* The actor system implements RegistryContract, and its shutdown is heard *)
(* in order, for any callers, names and actors.                            *)
(*                                                                         *)
(* The table of the contract has an entry for each slot of the order that  *)
(* is in use, by the ranks of the slots: a registration adds the last      *)
(* slot, a tombstone takes one away, and StopAll lists them from the last. *)
(*                                                                         *)
(* The events: the number of those that have begun can be told from the    *)
(* list of StopAll (Begun), and each handler has heard them all from the   *)
(* first it was there for, but perhaps the one it is to be called with     *)
(* (Hearing).                                                              *)
(***************************************************************************)
EXTENDS ActorSystemProofs

-----------------------------------------------------------------------------
(* The table                                                               *)

LEMMA TableEffect ==
  ASSUME TypeOK
  PROVE  /\ Table \in Entries /\ Len(Table) = Cardinality(Slots) /\ Cardinality(Slots) \in Nat
         /\ \A k \in 1..Cardinality(Slots) : Table[k] = Entry(Nth(Slots, k)) /\ Nth(Slots, k) \in Slots
<1> DEFINE c == Cardinality(Slots)  R == [name : Names, managed : Actors]
<1>1. Numbers(Slots) /\ c \in Nat /\ \A i \in Slots : Entry(i) \in R
  BY SlotsType
<1>2. Table = [k \in 1..c |-> Entry(Nth(Slots, k))]
  BY DEF Table
<1>3. \A k \in 1..c : Nth(Slots, k) \in Slots
  BY <1>1, NthIn
<1> HIDE DEF c, R
<1>4. Table \in [1..c -> R]
  BY <1>1, <1>2, <1>3
<1>5. Table \in Seq(R)
  BY <1>1, <1>4, SeqDef
<1>6. Len(Table) \in Nat /\ 1..Len(Table) = 1..c
  BY <1>4, <1>5, LenProperties
<1>7. Len(Table) = c
  BY <1>1, <1>6
<1> QED
  BY <1>1, <1>2, <1>3, <1>5, <1>7 DEF c, R, Entries

LEMMA RegistryStutters ==
  ASSUME UNCHANGED <<actors, order, stopped, entries>>
  PROVE  [Contract!Next]_(Contract!vars)
<1>1. Table' = Table
  BY DEF Table, Slots, Entry
<1> QED
  BY <1>1 DEF Contract!vars

\* A registration takes the slot after all others.
LEMMA BindMaps ==
  ASSUME TypeOK, RegistryConsistent, NEW n \in AllNames, NEW a \in Actors,
         Registrable(n), Bind(n, a), UNCHANGED entries
  PROVE  [Contract!Next]_(Contract!vars)
<1> DEFINE c == Cardinality(Slots)  next == Len(order) + 1
           new == [name |-> n, managed |-> a]
           NewEntry(i) == [name |-> order'[i], managed |-> actors'[order'[i]]]
<1>1. /\ \A k \in AllNames : actors'[k] = IF k = n THEN a ELSE actors[k]
      /\ DOMAIN order = 1..Len(order) /\ DOMAIN order' = 1..(Len(order) + 1)
      /\ \A i \in DOMAIN order : order'[i] = order[i] /\ order[i] # n /\ order[i] \in AllNames
      /\ order'[next] = n /\ next \in Nat
  BY BindEffect DEF TypeOK
<1>2. n \in Names /\ n # NoName /\ a # NoActor /\ ~stopped /\ stopped' = stopped
  BY Distinct DEF Registrable, Bind
<1>3. Numbers(Slots) /\ c \in Nat
  BY SlotsType
<1>4. \A i \in DOMAIN order' : i \in DOMAIN order \/ i = next
  BY <1>1
<1>5. \A i \in DOMAIN order : i \in DOMAIN order' /\ i < next
  BY <1>1
<1>6. next \in DOMAIN order'
  BY <1>1
<1>7. Slots' = Slots \cup {next}
  BY <1>1, <1>2, <1>4, <1>5, <1>6 DEF Slots
<1>8. /\ \A i \in Slots : i < next /\ NewEntry(i) = Entry(i)
      /\ NewEntry(next) = new
  BY <1>1, <1>2, <1>5 DEF Slots, Entry
<1>9. /\ Cardinality(Slots') = c + 1 /\ Nth(Slots', c + 1) = next
      /\ \A k \in 1..c : Nth(Slots', k) = Nth(Slots, k)
  BY <1>1, <1>3, <1>7, <1>8, RankAdd
<1>10. Table' = [k \in 1..Cardinality(Slots') |-> NewEntry(Nth(Slots', k))]
  BY DEF Table, Entry
<1>11. /\ Table \in Entries /\ Len(Table) = c
       /\ \A k \in 1..c : Table[k] = Entry(Nth(Slots, k)) /\ Nth(Slots, k) \in Slots
  BY TableEffect
<1> HIDE DEF c, next, NewEntry, new
<1>12. \A k \in 1..(c + 1) : k \in 1..c \/ k = c + 1
  BY <1>3
<1>13. Append(Table, new) = [k \in 1..(c + 1) |-> IF k = c + 1 THEN new ELSE Table[k]]
  <2> DEFINE R == [name : Names, managed : Actors]  longer == Append(Table, new)
  <2>1. Table \in Seq(R) /\ new \in R
    BY <1>2, <1>11 DEF Entries, new
  <2> HIDE DEF R
  <2>2. /\ longer \in Seq(R) /\ Len(longer) = c + 1 /\ longer[c + 1] = new
        /\ \A k \in 1..c : longer[k] = Table[k]
    BY <1>11, <2>1, AppendProperties
  <2> HIDE DEF longer
  <2>3. longer = [k \in 1..(c + 1) |-> longer[k]]
    BY <2>2, LenProperties
  <2>4. \A k \in 1..(c + 1) : longer[k] = IF k = c + 1 THEN new ELSE Table[k]
    BY <1>12, <2>2
  <2> QED
    BY <2>3, <2>4 DEF longer
<1>14. Table' = Append(Table, new)
  <2>1. \A k \in 1..(c + 1) :
          NewEntry(Nth(Slots', k)) = IF k = c + 1 THEN new ELSE Table[k]
    <3> TAKE k \in 1..(c + 1)
    <3>1. CASE k = c + 1
      BY <1>8, <1>9, <3>1
    <3>2. CASE k # c + 1
      BY <1>8, <1>9, <1>11, <1>12, <3>2
    <3> QED
      BY <3>1, <3>2
  <2> QED
    BY <1>9, <1>10, <1>13, <2>1
<1>15. ~Contract!Bound(n)
  <2>1. DOMAIN Table = 1..c
    BY <1>3, <1>11, LenProperties DEF Entries
  <2>2. \A i \in Slots : Entry(i).name # n
    BY <1>1 DEF Slots, Entry
  <2> QED
    BY <1>11, <2>1, <2>2 DEF Contract!Bound
<1>16. Contract!Bind(n, a)
  BY <1>2, <1>14, <1>15 DEF Contract!Bind, new
<1> QED
  BY <1>2, <1>16 DEF Contract!Next

\* A tombstone takes a slot away, and leaves the others as they were.
LEMMA UnbindMaps ==
  ASSUME TypeOK, RegistryConsistent, NEW n \in AllNames, actors[n] # NoActor, ~stopped,
         actors' = [actors EXCEPT ![n] = NoActor], order' = Tombstone(n),
         UNCHANGED <<stopped, entries>>
  PROVE  [Contract!Next]_(Contract!vars)
<1> DEFINE c == Cardinality(Slots)
           NewEntry(i) == [name |-> order'[i], managed |-> actors'[order'[i]]]
<1>1. /\ n # NoName /\ n \in Names /\ DOMAIN order' = DOMAIN order
      /\ \A i \in DOMAIN order : /\ order[i] \in AllNames
                                 /\ order'[i] = IF order[i] = n THEN NoName ELSE order[i]
      /\ \A k \in AllNames : actors'[k] = IF k = n THEN NoActor ELSE actors[k]
  <2>1. /\ n # NoName /\ DOMAIN order' = DOMAIN order
        /\ \A i \in DOMAIN order : order'[i] = IF order[i] = n THEN NoName ELSE order[i]
    BY TombstoneEffect
  <2>2. /\ \A i \in DOMAIN order : order[i] \in AllNames
        /\ \A k \in AllNames : actors'[k] = IF k = n THEN NoActor ELSE actors[k]
    BY DEF TypeOK
  <2> QED
    BY <2>1, <2>2, Distinct
<1>2. PICK i \in DOMAIN order : order[i] = n
  BY DEF RegistryConsistent
<1>3. \A j \in DOMAIN order : order[j] = n => j = i
  BY <1>1, <1>2 DEF RegistryConsistent
<1>4. Numbers(Slots) /\ c \in Nat /\ i \in Slots
  BY <1>1, <1>2, SlotsType DEF Slots
<1>5. Slots' = Slots \ {i}
  BY <1>1, <1>2, <1>3 DEF Slots
<1>6. \A j \in Slots \ {i} : NewEntry(j) = Entry(j)
  BY <1>1, <1>3 DEF Slots, Entry
<1> DEFINE r == Rank(Slots, i)
<1>7. r \in 1..c /\ Nth(Slots, r) = i
  BY <1>4, RankType, NthRank
<1>8. /\ Numbers(Slots') /\ Cardinality(Slots') = c - 1
      /\ \A k \in 1..(c - 1) : Nth(Slots', k) = Nth(Slots, IF k < r THEN k ELSE k + 1)
  BY <1>4, <1>5, RankRemove
<1>9. \A k \in 1..(c - 1) : Nth(Slots', k) \in Slots'
  BY <1>8, NthIn
<1>10. Table' = [k \in 1..Cardinality(Slots') |-> NewEntry(Nth(Slots', k))]
  BY DEF Table, Entry
<1>11. /\ Table \in Entries /\ Len(Table) = c
       /\ \A k \in 1..c : Table[k] = Entry(Nth(Slots, k))
  BY TableEffect
<1>12. DOMAIN Table = 1..c
  BY <1>11, LenProperties DEF Entries
<1> HIDE DEF c, NewEntry, r
<1>13. Table[r].name = n
  BY <1>2, <1>7, <1>11 DEF Entry
<1>14. Table' = [k \in 1..(Len(Table) - 1) |-> IF k < r THEN Table[k] ELSE Table[k + 1]]
  <2>1. ASSUME NEW k \in 1..(c - 1)
        PROVE  NewEntry(Nth(Slots', k)) = IF k < r THEN Table[k] ELSE Table[k + 1]
    <3>1. NewEntry(Nth(Slots', k)) = Entry(Nth(Slots, IF k < r THEN k ELSE k + 1))
      BY <1>5, <1>6, <1>8, <1>9
    <3>2. k \in 1..c /\ k + 1 \in 1..c
      BY <1>4
    <3> QED
      BY <1>11, <3>1, <3>2
  <2> QED
    BY <1>8, <1>10, <1>11, <2>1
<1>15. Contract!Unbind(n)
  BY <1>7, <1>12, <1>13, <1>14 DEF Contract!Unbind
<1> QED
  BY <1>1, <1>15 DEF Contract!Next

\* StopAll takes the whole table, from the last entry to the first.
LEMMA CloseMaps ==
  ASSUME TypeOK, TypeOK', NEW s \in Closers, Close(s)
  PROVE  [Contract!Next]_(Contract!vars)
<1>1. CASE stopped
  BY <1>1, RegistryStutters DEF Close, registry, stopAll
<1>2. CASE ~stopped
  <2> DEFINE c == Cardinality(Slots)
  <2>1. stopped' = TRUE /\ entries' = Snapshot /\ order' = <<>>
    BY <1>2 DEF Close
  <2>2. Table' = <<>>
    <3>1. Slots' = {}
      BY <2>1 DEF Slots
    <3>2. Cardinality(Slots') = 0 /\ 1..0 = {}
      BY <3>1, FS_EmptySet
    <3>3. Table' \in [1..0 -> {}]
      BY <3>2 DEF Table
    <3>4. Table' \in Seq({})
      BY <3>3, SeqDef
    <3> QED
      BY <3>4, EmptySeq, ElementOfSeq
  <2>3. /\ Table \in Entries /\ Len(Table) = c /\ c \in Nat
        /\ \A k \in 1..c : Table[k] = Entry(Nth(Slots, k))
    BY TableEffect
  <2>4. Snapshot = [k \in 1..c |-> Entry(Nth(Slots, c - k + 1))]
    BY DEF Snapshot
  <2> HIDE DEF c
  <2>5. \A k \in 1..c : c - k + 1 \in 1..c
    BY <2>3
  <2>6. entries' = [k \in 1..Len(Table) |-> Table[Len(Table) - k + 1]]
    BY <2>1, <2>3, <2>4, <2>5
  <2> QED
    BY <1>2, <2>1, <2>2, <2>6 DEF Contract!Close, Contract!Next
<1> QED
  BY <1>1, <1>2

\* A Stop that returns to StopAll takes the first off the list.
LEMMA StopMaps ==
  ASSUME IInv, NEW p \in Procs, Stop(p) \/ StopReturns(p)
  PROVE  [Contract!Next]_(Contract!vars)
<1>1. UNCHANGED registry
  BY DEF Stop, StopCAS, StopWaits, StopReturns
<1>2. ASSUME UNCHANGED stopAll PROVE [Contract!Next]_(Contract!vars)
  BY <1>1, <1>2, RegistryStutters DEF registry, stopAll
<1>3. ASSUME NEW failed \in BOOLEAN, AfterStop(p, failed), pc[p] \in {"stop", "afterStop"}
      PROVE  [Contract!Next]_(Contract!vars)
  <2>1. CASE p \in Closers
    <3>1. entries # <<>> /\ entries' = Tail(entries)
      BY <1>3, <2>1, AfterStopEffect
    <3>2. Table' = Table /\ stopped' = stopped
      BY <1>1 DEF registry, Table, Slots, Entry
    <3> QED
      BY <3>1, <3>2 DEF Contract!StopOne, Contract!Next
  <2>2. CASE p \notin Closers
    BY <1>2, <1>3, <2>2 DEF AfterStop
  <2> QED
    BY <2>1, <2>2
<1> QED
  BY <1>2, <1>3 DEF Stop, StopCAS, StopWaits, StopReturns

LEMMA RegistryStep ==
  ASSUME IInv, IInv', [Next]_vars
  PROVE  [Contract!Next]_(Contract!vars)
<1> USE DEF registry, stopAll, world
<1>1. TypeOK /\ RegistryConsistent /\ TypeOK'
  BY DEF IInv
<1>2. CASE UNCHANGED vars
  BY <1>2, RegistryStutters DEF vars
<1>3. ASSUME NEW p \in Spawners, Spawn(p) PROVE [Contract!Next]_(Contract!vars)
  <2>1. p \in Actors /\ p \in Procs /\ arg[p] \in AllNames
    BY <1>1, Distinct DEF TypeOK
  <2>2. CASE SpawnWaits(p)
    BY <2>2, RegistryStutters DEF SpawnWaits
  <2>3. CASE SpawnRegisters(p)
    <3>1. CASE Registrable(arg[p])
      BY <1>1, <2>1, <2>3, <3>1, BindMaps DEF SpawnRegisters
    <3>2. CASE ~Registrable(arg[p])
      BY <2>3, <3>2, RegistryStutters DEF SpawnRegisters
    <3> QED
      BY <3>1, <3>2
  <2> QED
    BY <1>3, <2>2, <2>3 DEF Spawn
<1>4. ASSUME NEW p \in Spawners, NEW n \in AllNames, SpawnStarts(p, n)
      PROVE  [Contract!Next]_(Contract!vars)
  BY <1>4, RegistryStutters DEF SpawnStarts
<1>5. ASSUME NEW u \in Users, UserCalls(u) PROVE [Contract!Next]_(Contract!vars)
  <2>1. CASE OnEvent(u)
    BY <2>1, RegistryStutters DEF OnEvent
  <2>2. ASSUME NEW n \in AllNames, NEW a \in Refs \cup {NoActor}, UserRegisters(u, n, a)
        PROVE  [Contract!Next]_(Contract!vars)
    <3>1. CASE a # NoActor /\ Registrable(n)
      <4>1. a \in Actors
        BY <3>1, Distinct DEF Refs
      <4> QED
        BY <1>1, <2>2, <3>1, <4>1, BindMaps DEF UserRegisters
    <3>2. CASE ~(a # NoActor /\ Registrable(n))
      BY <2>2, <3>2, RegistryStutters DEF UserRegisters
    <3> QED
      BY <3>1, <3>2
  <2>3. ASSUME NEW n \in AllNames, Unregister(u, n) PROVE [Contract!Next]_(Contract!vars)
    <3>1. CASE ~stopped /\ actors[n] # NoActor
      BY <1>1, <2>3, <3>1, UnbindMaps DEF Unregister
    <3>2. CASE ~(~stopped /\ actors[n] # NoActor)
      BY <2>3, <3>2, RegistryStutters DEF Unregister
    <3> QED
      BY <3>1, <3>2
  <2>4. ASSUME NEW n \in AllNames, NEW to \in {"dispatch", "stop"}, Lookup(u, n, to)
        PROVE  [Contract!Next]_(Contract!vars)
    BY <2>4, RegistryStutters DEF Lookup
  <2> QED
    BY <1>5, <2>1, <2>2, <2>3, <2>4 DEF UserCalls
<1>6. ASSUME NEW u \in Users, UserGoesOn(u) PROVE [Contract!Next]_(Contract!vars)
  BY <1>6, RegistryStutters
    DEF UserGoesOn, Ask, Dispatch, Enqueue, EnqueueStopped, EnqueueGivesUp, Answered,
        AwaitTimer, ActorServes
<1>7. ASSUME NEW s \in Closers, Close(s) PROVE [Contract!Next]_(Contract!vars)
  BY <1>1, <1>7, CloseMaps
<1>8. ASSUME NEW s \in Closers, StopAll(s) PROVE [Contract!Next]_(Contract!vars)
  BY <1>8, RegistryStutters DEF StopAll, StopNext, StopAllReturns
<1>9. ASSUME NEW s \in Waiters, AwaitShutdown(s) PROVE [Contract!Next]_(Contract!vars)
  BY <1>9, RegistryStutters DEF AwaitShutdown
<1>10. ASSUME NEW p \in Procs, Stop(p) \/ StopReturns(p) PROVE [Contract!Next]_(Contract!vars)
  BY <1>10, StopMaps
<1>11. ASSUME NEW p \in Procs, Emit(p) \/ CallHandler(p) PROVE [Contract!Next]_(Contract!vars)
  BY <1>11, RegistryStutters DEF Emit, EmitEvent, Emitted, CallHandler
<1>12. ASSUME NEW a \in Actors, ActorStarts(a) \/ ActorFails(a) \/ ActorExits(a)
       PROVE  [Contract!Next]_(Contract!vars)
  BY <1>12, RegistryStutters DEF ActorStarts, ActorFails, ActorExits
<1>13. CASE Signal
  BY <1>13, RegistryStutters DEF Signal
<1> QED
  BY <1>2, <1>3, <1>4, <1>5, <1>6, <1>7, <1>8, <1>9, <1>10, <1>11, <1>12, <1>13 DEF Next

\* The map, the order and the tombstones are together an ordered table of named
\* actors that closes once and gives them up from the last registered on.
THEOREM SystemImplementsRegistry == Spec => ImplementsRegistry
<1>1. Init => Contract!Init
  <2> SUFFICES ASSUME Init PROVE Contract!Init
    OBVIOUS
  <2>1. TypeOK /\ order = <<>>
    BY InitInv DEF Init, IInv
  <2>2. Slots = {}
    BY <2>1 DEF Slots
  <2>3. Table \in Entries /\ Len(Table) = 0
    BY <2>1, <2>2, TableEffect, FS_EmptySet
  <2>4. Table = <<>>
    BY <2>3, EmptySeq DEF Entries
  <2> QED
    BY <2>4 DEF Init, Contract!Init
<1>2. IInv /\ IInv' /\ [Next]_vars => [Contract!Next]_(Contract!vars)
  BY RegistryStep
<1> QED
  BY Invariant, <1>1, <1>2, PTL DEF Spec, ImplementsRegistry, Contract!Spec

-----------------------------------------------------------------------------
(* The events of the shutdown                                              *)

\* How many actors StopAll is done with, and how many events have begun.
Gone == Len(closing) - Len(entries)

Begun ==
  IF ~stopped THEN 0 ELSE IF \E s \in Closers : pc[s] = "emit" THEN Gone ELSE Gone + 1

\* The k-th event, from 1: SystemStopping, then an ActorStopped for each entry.
EventName(k) == IF k = 1 THEN NoName ELSE closing[k - 1].name

\* A handler that is to be called with the event that is being emitted.
Due(h) == \E s \in Closers : pc[s] = "notify" /\ \E k \in DOMAIN copy[s] : copy[s][k] = h

LastEvent(h) == IF Due(h) THEN Begun - 1 ELSE Begun

\* The events that had begun when the handler was registered.
Missed(h) == LastEvent(h) - Len(heard[h])

\* Each user registers at most once, and hears nothing before.
Handlers ==
  /\ \A i, j \in DOMAIN handlers : handlers[i] = handlers[j] => i = j
  /\ \A i \in DOMAIN handlers : pc[handlers[i]] # "idle"
  /\ \A u \in Users : (\A i \in DOMAIN handlers : handlers[i] # u) => heard[u] = <<>>

\* The call knows which event comes next, and calls the handlers in their order.
Announced(s) ==
  /\ pc[s] \in {"idle", "signalled"} => arg[s] = NoName
  /\ pc[s] \in {"emit", "notify"} => arg[s] = EventName(Gone + 1)
  /\ pc[s] \in {"stop", "awaitStop", "afterStop"} => arg[s] = entries[1].name
  /\ pc[s] = "notify" =>
       \E x \in Nat : \A k \in DOMAIN copy[s] :
         x + k \in DOMAIN handlers /\ copy[s][k] = handlers[x + k]

Announces == \A s \in Closers : Announced(s)

\* A handler has heard what came since it was registered; of two the earlier has
\* missed no more, and if it is yet to be called and the later is not, the later
\* was registered after the event had begun.
Hearing ==
  /\ \A j \in DOMAIN handlers : Missed(handlers[j]) \in 0..Begun
  /\ \A j \in DOMAIN handlers : \A k \in 1..Len(heard[handlers[j]]) :
       heard[handlers[j]][k] = EventName(Missed(handlers[j]) + k)
  /\ \A i, j \in DOMAIN handlers : i < j =>
       /\ Missed(handlers[i]) <= Missed(handlers[j])
       /\ Due(handlers[i]) /\ ~Due(handlers[j]) => Missed(handlers[j]) = Begun

EInv == Handlers /\ Announces /\ Hearing

LEMMA Counts ==
  ASSUME IInv
  PROVE  /\ Gone \in Nat /\ Len(closing) \in Nat /\ Len(entries) \in Nat
         /\ Gone <= Len(closing) /\ Begun \in Nat /\ Begun <= Len(closing) + 1
         /\ DOMAIN handlers = 1..Len(handlers) /\ Len(handlers) \in Nat
         /\ \A j \in DOMAIN handlers : /\ handlers[j] \in Users
                                       /\ Len(heard[handlers[j]]) \in Nat
<1>1. /\ TypeOK /\ Len(closing) \in Nat /\ Len(entries) \in Nat /\ Len(entries) <= Len(closing)
  BY LenProperties DEF IInv, TypeOK, Entries, Worked
<1>2. Gone \in Nat /\ Gone <= Len(closing)
  BY <1>1 DEF Gone
<1>3. Begun \in Nat /\ Begun <= Len(closing) + 1
  BY <1>1, <1>2 DEF Begun
<1>4. DOMAIN handlers = 1..Len(handlers) /\ Len(handlers) \in Nat
      /\ \A j \in DOMAIN handlers : handlers[j] \in Users
  BY <1>1, LenProperties, ElementOfSeq DEF TypeOK
<1>5. \A u \in Users : Len(heard[u]) \in Nat
  <2> TAKE u \in Users
  <2>1. heard[u] \in Seq(AllNames)
    BY <1>1 DEF TypeOK
  <2> QED
    BY <2>1, LenProperties
<1> QED
  BY <1>1, <1>2, <1>3, <1>4, <1>5

\* The call that closed the system is the only one to work through the list.
LEMMA CloserMoves ==
  ASSUME IInv, NEW s \in Closers, pc[s] \in Busy, pc'[s] \in Busy \cup {"returned"},
         stopped' = stopped, \A t \in Closers : t # s => pc'[t] = pc[t]
  PROVE  /\ stopped
         /\ \A t \in Closers : t # s => pc[t] \notin Busy /\ pc'[t] \notin Busy
         /\ Begun = IF pc[s] = "emit" THEN Gone ELSE Gone + 1
         /\ Begun' = IF pc'[s] = "emit" THEN Gone' ELSE Gone' + 1
         /\ \A h : Due(h) <=> pc[s] = "notify" /\ \E k \in DOMAIN copy[s] : copy[s][k] = h
         /\ \A h : Due(h)' <=> pc'[s] = "notify" /\ \E k \in DOMAIN copy'[s] : copy'[s][k] = h
<1>1. stopped /\ \A t \in Closers : t # s => pc[t] \notin Busy /\ pc'[t] \notin Busy
  BY DEF IInv, OneCloser, Closing
<1>2. \A t \in Closers : t # s => pc[t] \notin {"emit", "notify"} /\ pc'[t] \notin {"emit", "notify"}
  BY <1>1 DEF Busy
<1>3. Begun = (IF pc[s] = "emit" THEN Gone ELSE Gone + 1)
      /\ Begun' = IF pc'[s] = "emit" THEN Gone' ELSE Gone' + 1
  BY <1>1, <1>2 DEF Begun
<1>4. /\ \A h : Due(h) <=> pc[s] = "notify" /\ \E k \in DOMAIN copy[s] : copy[s][k] = h
      /\ \A h : Due(h)' <=> pc'[s] = "notify" /\ \E k \in DOMAIN copy'[s] : copy'[s][k] = h
  BY <1>2 DEF Due
<1> QED
  BY <1>1, <1>3, <1>4

\* What the handlers have heard stays in order when the event that is being
\* emitted ends, or another begins with all of them to be called.
LEMMA HearingKept ==
  ASSUME IInv, Hearing, UNCHANGED <<closing, handlers, heard>>, Begun' \in Nat, Begun <= Begun',
         \A j \in DOMAIN handlers : LastEvent(handlers[j])' = LastEvent(handlers[j]),
         \A i, j \in DOMAIN handlers : Due(handlers[i])' /\ ~Due(handlers[j])' =>
           Begun' = Begun /\ Due(handlers[i]) /\ ~Due(handlers[j])
  PROVE  Hearing'
<1>1. \A j \in DOMAIN handlers : Missed(handlers[j])' = Missed(handlers[j])
  BY DEF Missed
<1>2. \A k : EventName(k)' = EventName(k)
  BY DEF EventName
<1>3. Begun \in Nat
  BY Counts
<1>4. \A j \in DOMAIN handlers : Missed(handlers[j]) \in 0..Begun'
  BY <1>3 DEF Hearing
<1>5. \A i, j \in DOMAIN handlers : i < j /\ Due(handlers[i])' /\ ~Due(handlers[j])' =>
        Missed(handlers[j]) = Begun'
  BY DEF Hearing
<1> HIDE DEF Hearing
<1>6. handlers' = handlers /\ heard' = heard
  OBVIOUS
<1>7. /\ \A j \in DOMAIN handlers : Missed(handlers[j])' \in 0..Begun'
      /\ \A j \in DOMAIN handlers : \A k \in 1..Len(heard[handlers[j]]) :
           heard[handlers[j]][k] = EventName(Missed(handlers[j]) + k)
      /\ \A i, j \in DOMAIN handlers : i < j =>
           /\ Missed(handlers[i]) <= Missed(handlers[j])
           /\ Due(handlers[i])' /\ ~Due(handlers[j])' => Missed(handlers[j]) = Begun'
  BY <1>1, <1>4, <1>5 DEF Hearing
<1>8. \A j \in DOMAIN handlers : \A k :
        EventName(Missed(handlers[j]) + k) = EventName(Missed(handlers[j]) + k)'
  BY <1>1, <1>2
<1> QED
  BY <1>1, <1>6, <1>7, <1>8 DEF Hearing

\* A step that no StopAll takes, and that is not about the handlers.
LEMMA EventFrame ==
  ASSUME IInv, EInv, UNCHANGED <<stopped, entries, closing, handlers, heard>>,
         \A s \in Closers : pc'[s] = pc[s] /\ arg'[s] = arg[s] /\ copy'[s] = copy[s],
         \A u \in Users : pc'[u] = "idle" => pc[u] = "idle"
  PROVE  EInv'
<1>1. Handlers'
  BY Counts DEF EInv, Handlers
<1>2. Announces'
  BY DEF EInv, Announces, Announced, EventName, Gone
<1>3. Begun' = Begun /\ \A h : Due(h)' <=> Due(h)
  BY DEF Begun, Gone, Due
<1>4. Begun \in Nat /\ Begun <= Begun'
  BY <1>3, Counts
<1>5. \A h : LastEvent(h)' = LastEvent(h)
  BY <1>3 DEF LastEvent
<1>6. Hearing'
  BY <1>3, <1>4, <1>5, HearingKept DEF EInv
<1> QED
  BY <1>1, <1>2, <1>6 DEF EInv

LEMMA HandlersKept ==
  ASSUME Handlers, UNCHANGED <<handlers, heard>>, IInv,
         \A u \in Users : pc'[u] = "idle" => pc[u] = "idle"
  PROVE  Handlers'
BY Counts DEF Handlers

\* What another call knows does not change while it has nothing to announce.
LEMMA OthersAnnounced ==
  ASSUME Announces, NEW s \in Closers, Announced(s)',
         \A t \in Closers : t # s => pc'[t] = pc[t] /\ arg'[t] = arg[t] /\ pc'[t] \notin Busy
  PROVE  Announces'
<1>1. ASSUME NEW t \in Closers, t # s PROVE Announced(t)'
  BY <1>1 DEF Announces, Announced, Busy
<1> QED
  BY <1>1 DEF Announces

\* A new handler has missed all that has begun.
LEMMA OnEventEvents ==
  ASSUME IInv, EInv, NEW u \in Users, OnEvent(u)
  PROVE  EInv'
<1> DEFINE n == Len(handlers)
<1>1. /\ u \in Procs /\ u \notin Closers /\ pc[u] = "idle" /\ pc'[u] = "returned"
      /\ \A q \in Procs \ {u} : pc'[q] = pc[q] /\ arg'[q] = arg[q]
      /\ UNCHANGED <<copy, stopped, entries, closing, heard>>
      /\ handlers' = Append(handlers, u)
  BY Distinct DEF IInv, TypeOK, OnEvent, Idle, Return, Added, registry, stopAll
<1>2. /\ DOMAIN handlers = 1..n /\ n \in Nat /\ DOMAIN handlers' = 1..(n + 1)
      /\ \A i \in 1..n : handlers'[i] = handlers[i]
      /\ handlers'[n + 1] = u
  BY <1>1, AppendAt DEF IInv, TypeOK
<1>3. /\ \A i \in DOMAIN handlers : i \in DOMAIN handlers' /\ handlers[i] # u
      /\ \A i \in DOMAIN handlers' : i \in DOMAIN handlers \/ i = n + 1
      /\ n + 1 \in DOMAIN handlers'
  BY <1>1, <1>2 DEF EInv, Handlers
<1>4. heard[u] = <<>>
  BY <1>3 DEF EInv, Handlers
<1>5. \A s \in Closers : s \in Procs /\ s # u
  BY <1>1, Distinct
<1>6. Handlers'
  <2>1. \A i, j \in DOMAIN handlers' : handlers'[i] = handlers'[j] => i = j
    BY <1>2, <1>3 DEF EInv, Handlers
  <2>2. \A i \in DOMAIN handlers' : pc'[handlers'[i]] # "idle"
    <3> TAKE i \in DOMAIN handlers'
    <3>1. CASE i \in DOMAIN handlers
      <4>1. handlers[i] \in Users /\ handlers[i] \in Procs
        BY <3>1, Counts, Distinct
      <4> QED
        BY <1>1, <1>2, <1>3, <3>1, <4>1 DEF EInv, Handlers
    <3>2. CASE i = n + 1
      BY <1>1, <1>2, <3>2
    <3> QED
      BY <1>3, <3>1, <3>2
  <2>3. \A v \in Users : (\A i \in DOMAIN handlers' : handlers'[i] # v) => heard'[v] = <<>>
    BY <1>1, <1>2, <1>3 DEF EInv, Handlers
  <2> QED
    BY <2>1, <2>2, <2>3 DEF Handlers
<1>7. Announces'
  <2> SUFFICES ASSUME NEW s \in Closers PROVE Announced(s)'
    BY DEF Announces
  <2>1. Announced(s) /\ pc'[s] = pc[s] /\ arg'[s] = arg[s] /\ copy'[s] = copy[s]
    BY <1>1, <1>5 DEF EInv, Announces
  <2>2. ASSUME pc'[s] = "notify"
        PROVE  \E x \in Nat : \A k \in DOMAIN copy'[s] :
                 x + k \in DOMAIN handlers' /\ copy'[s][k] = handlers'[x + k]
    <3>1. PICK x \in Nat : \A k \in DOMAIN copy[s] :
            x + k \in DOMAIN handlers /\ copy[s][k] = handlers[x + k]
      BY <2>1, <2>2 DEF Announced
    <3>2. \A k \in DOMAIN copy'[s] :
            x + k \in DOMAIN handlers' /\ copy'[s][k] = handlers'[x + k]
      <4>1. \A i \in DOMAIN handlers : i \in DOMAIN handlers' /\ handlers'[i] = handlers[i]
        BY <1>2, <1>3
      <4> QED
        BY <2>1, <3>1, <4>1
    <3> QED
      BY <3>2
  <2>3. UNCHANGED <<entries, closing>>
    BY <1>1
  <2> QED
    BY <2>1, <2>2, <2>3 DEF Announced, EventName, Gone
<1>8. Begun' = Begun /\ (\A h : Due(h)' <=> Due(h)) /\ ~Due(u) /\ Begun \in Nat
  <2>1. Begun' = Begun /\ \A h : Due(h)' <=> Due(h)
    BY <1>1, <1>5 DEF Begun, Gone, Due
  <2>2. ASSUME NEW s \in Closers, pc[s] = "notify", NEW k \in DOMAIN copy[s] PROVE copy[s][k] # u
    <3>1. \E x \in Nat : x + k \in DOMAIN handlers /\ copy[s][k] = handlers[x + k]
      BY <2>2 DEF EInv, Announces, Announced
    <3> QED
      BY <1>3, <3>1
  <2>3. ~Due(u)
    BY <2>2 DEF Due
  <2> QED
    BY <2>1, <2>3, Counts
<1>9. Missed(u)' = Begun /\ \A j \in DOMAIN handlers : Missed(handlers[j])' = Missed(handlers[j])
  <2>1. \A h : LastEvent(h)' = LastEvent(h)
    BY <1>8 DEF LastEvent
  <2>2. \A h : Missed(h)' = Missed(h)
    BY <1>1, <2>1 DEF Missed
  <2>3. LastEvent(u) = Begun /\ Len(heard[u]) = 0
    BY <1>4, <1>8, EmptySeq DEF LastEvent
  <2>4. Missed(u) = Begun
    BY <1>8, <2>3 DEF Missed
  <2>5. \A j \in DOMAIN handlers : handlers'[j] = handlers[j]
    BY <1>2
  <2> QED
    BY <2>2, <2>4, <2>5
<1>10. Hearing'
  <2>1. /\ \A j \in DOMAIN handlers : Missed(handlers[j]) \in 0..Begun
        /\ \A j \in DOMAIN handlers : \A k \in 1..Len(heard[handlers[j]]) :
             heard[handlers[j]][k] = EventName(Missed(handlers[j]) + k)
        /\ \A i, j \in DOMAIN handlers : i < j =>
             /\ Missed(handlers[i]) <= Missed(handlers[j])
             /\ Due(handlers[i]) /\ ~Due(handlers[j]) => Missed(handlers[j]) = Begun
    BY DEF EInv, Hearing
  <2>2. \A h : EventName(h)' = EventName(h)
    BY <1>1 DEF EventName
  <2>3. \A j \in DOMAIN handlers' : Missed(handlers[j])' \in 0..Begun'
    BY <1>2, <1>3, <1>8, <1>9, <2>1
  <2>4. \A j \in DOMAIN handlers' : \A k \in 1..Len(heard'[handlers'[j]]) :
          heard'[handlers'[j]][k] = EventName(Missed(handlers[j]) + k)'
    <3> TAKE j \in DOMAIN handlers'
    <3>1. CASE j \in DOMAIN handlers
      <4>1. handlers'[j] = handlers[j] /\ Missed(handlers[j])' = Missed(handlers[j])
        BY <1>2, <1>9, <3>1
      <4>2. \A k : EventName(Missed(handlers[j]) + k)' = EventName(Missed(handlers[j]) + k)
        BY <2>2, <4>1
      <4> QED
        BY <1>1, <2>1, <3>1, <4>1, <4>2
    <3>2. CASE j = n + 1
      <4>1. Len(heard'[handlers'[j]]) = 0
        BY <1>1, <1>2, <1>4, <3>2, EmptySeq
      <4> QED
        BY <4>1
    <3> QED
      BY <1>3, <3>1, <3>2
  <2>5. \A i, j \in DOMAIN handlers' : i < j =>
          /\ Missed(handlers[i])' <= Missed(handlers[j])'
          /\ Due(handlers[i])' /\ ~Due(handlers[j])' => Missed(handlers[j])' = Begun'
    <3> TAKE i, j \in DOMAIN handlers'
    <3> HAVE i < j
    <3>1. i \in DOMAIN handlers
      BY <1>2, <1>3
    <3>2. CASE j \in DOMAIN handlers
      BY <1>2, <1>8, <1>9, <2>1, <3>1, <3>2
    <3>3. CASE j = n + 1
      BY <1>2, <1>8, <1>9, <2>1, <3>1, <3>3
    <3> QED
      BY <1>3, <3>2, <3>3
  <2> QED
    BY <2>3, <2>4, <2>5 DEF Hearing
<1> QED
  BY <1>6, <1>7, <1>10 DEF EInv

\* Before the system is closed nothing has begun; the first event has no name.
LEMMA CloseEvents ==
  ASSUME IInv, EInv, NEW s \in Closers, Close(s)
  PROVE  EInv'
<1>1. /\ TypeOK /\ s \in Procs /\ pc[s] \in {"idle", "signalled"} /\ arg[s] = NoName
      /\ \A q \in Procs \ {s} : pc'[q] = pc[q] /\ arg'[q] = arg[q]
      /\ UNCHANGED <<copy, handlers, heard>>
  <2>1. TypeOK /\ s \in Procs /\ pc[s] \in {"idle", "signalled"}
    BY Distinct DEF IInv, Close, Idle
  <2>2. arg[s] = NoName
    BY <2>1 DEF EInv, Announces, Announced
  <2>3. /\ \A q \in Procs \ {s} : pc'[q] = pc[q] /\ arg'[q] = arg[q]
        /\ UNCHANGED <<copy, handlers, heard>>
    BY <2>1 DEF TypeOK, Close, Return, Goto, locals, rest
  <2> QED
    BY <2>1, <2>2, <2>3
<1>2. (\A t \in Closers : t \in Procs /\ t \notin Users) /\ \A u \in Users : u \in Procs /\ u # s
  BY Distinct
<1>3. CASE stopped
  <2>1. pc'[s] = "returned" /\ UNCHANGED <<stopped, entries, closing>>
    BY <1>1, <1>3 DEF TypeOK, Close, Return, registry, stopAll
  <2>2. Handlers'
    BY <1>1, <1>2, HandlersKept DEF EInv
  <2>3. Announces'
    <3>1. ASSUME NEW t \in Closers PROVE Announced(t)'
      <4>1. CASE t = s
        BY <2>1, <4>1 DEF Announced
      <4>2. CASE t # s
        <5>1. Announced(t) /\ pc'[t] = pc[t] /\ arg'[t] = arg[t]
          BY <1>1, <1>2, <4>2 DEF EInv, Announces
        <5> QED
          BY <1>1, <2>1, <5>1 DEF Announced, EventName, Gone
      <4> QED
        BY <4>1, <4>2
    <3> QED
      BY <3>1 DEF Announces
  <2>4. Begun' = Begun /\ \A h : Due(h)' <=> Due(h)
    <3>1. \A t \in Closers : /\ pc'[t] = "emit" <=> pc[t] = "emit"
                             /\ pc'[t] = "notify" <=> pc[t] = "notify"
      BY <1>1, <1>2, <2>1
    <3> QED
      BY <1>1, <2>1, <3>1 DEF Begun, Gone, Due
  <2>5. Begun \in Nat /\ Begun <= Begun' /\ \A h : LastEvent(h)' = LastEvent(h)
    BY <2>4, Counts DEF LastEvent
  <2>6. Hearing'
    BY <1>1, <2>1, <2>4, <2>5, HearingKept DEF EInv
  <2> QED
    BY <2>2, <2>3, <2>6 DEF EInv
<1>4. CASE ~stopped
  <2>1. /\ pc'[s] = "emit" /\ arg'[s] = NoName /\ stopped' = TRUE
        /\ entries' = Snapshot /\ closing' = Snapshot
    BY <1>1, <1>4 DEF TypeOK, Close, Goto, locals
  <2>2. \A t \in Closers : pc[t] \notin Busy
    BY <1>4 DEF IInv, OneCloser, Closing
  <2>3. \A t \in Closers : t # s => pc'[t] = pc[t] /\ arg'[t] = arg[t] /\ pc'[t] \notin Busy
    BY <1>1, <1>2, <2>2
  <2>4. Gone' = 0
    <3>1. Len(Snapshot) \in Nat
      BY <1>1, SnapshotEffect
    <3> QED
      BY <2>1, <3>1 DEF Gone
  <2>5. /\ Begun = 0 /\ Begun' = 0
        /\ \A h : ~Due(h) /\ ~Due(h)'
    <3>1. Begun = 0 /\ Begun' = 0
      BY <1>4, <2>1, <2>4 DEF Begun
    <3>2. \A t \in Closers : pc[t] # "notify" /\ pc'[t] # "notify"
      BY <2>1, <2>2, <2>3 DEF Busy
    <3> QED
      BY <3>1, <3>2 DEF Due
  <2>6. \A h : LastEvent(h) = 0 /\ LastEvent(h)' = 0
    BY <2>5 DEF LastEvent
  <2>7. \A j \in DOMAIN handlers : Len(heard[handlers[j]]) = 0
    <3> TAKE j \in DOMAIN handlers
    <3>1. Missed(handlers[j]) = 0
      BY <2>5 DEF EInv, Hearing
    <3>2. Len(heard[handlers[j]]) \in Nat
      BY Counts
    <3> QED
      BY <2>6, <3>1, <3>2 DEF Missed
  <2>8. \A j \in DOMAIN handlers : Missed(handlers[j])' = 0
    BY <1>1, <2>6, <2>7 DEF Missed
  <2>9. Hearing'
    BY <1>1, <2>5, <2>7, <2>8 DEF Hearing
  <2>10. Announced(s)'
    BY <2>1, <2>4 DEF Announced, EventName
  <2>11. Handlers' /\ Announces'
    BY <1>1, <1>2, <2>3, <2>10, HandlersKept, OthersAnnounced DEF EInv
  <2> QED
    BY <2>9, <2>11 DEF EInv
<1> QED
  BY <1>3, <1>4

\* The call that closed the system goes on, and no event begins or is heard.
LEMMA QuietMove ==
  ASSUME IInv, EInv, NEW s \in Closers, pc[s] \in Busy, pc'[s] \in Busy \cup {"returned"},
         pc[s] = "notify" => copy[s] = <<>>, pc'[s] # "notify",
         \A q \in Procs \ {s} : pc'[q] = pc[q] /\ arg'[q] = arg[q],
         UNCHANGED <<stopped, closing, handlers, heard>>,
         (IF pc'[s] = "emit" THEN Gone' ELSE Gone' + 1) = IF pc[s] = "emit" THEN Gone ELSE Gone + 1,
         Announced(s)'
  PROVE  EInv'
<1>1. \A t \in Closers : t # s => pc'[t] = pc[t] /\ arg'[t] = arg[t]
  BY Distinct
<1>2. /\ \A t \in Closers : t # s => pc'[t] \notin Busy
      /\ Begun' = Begun
      /\ \A h : Due(h) <=> pc[s] = "notify" /\ \E k \in DOMAIN copy[s] : copy[s][k] = h
      /\ \A h : ~Due(h)'
  BY <1>1, CloserMoves
<1>3. \A h : ~Due(h)
  BY <1>2
<1>4. Begun \in Nat /\ Begun <= Begun' /\ \A h : LastEvent(h)' = LastEvent(h)
  BY <1>2, <1>3, Counts DEF LastEvent
<1>5. Hearing'
  BY <1>2, <1>3, <1>4, HearingKept DEF EInv
<1>6. \A u \in Users : pc'[u] = pc[u]
  BY Distinct
<1>7. Handlers' /\ Announces'
  BY <1>1, <1>2, <1>6, HandlersKept, OthersAnnounced DEF EInv
<1> QED
  BY <1>5, <1>7 DEF EInv

LEMMA StopAllEvents ==
  ASSUME IInv, EInv, NEW s \in Closers, StopAll(s)
  PROVE  EInv'
<1>1. /\ s \in Procs /\ pc[s] = "next" /\ pc'[s] \in {"stop", "returned"}
      /\ pc'[s] = "stop" => arg'[s] = entries[1].name
      /\ \A q \in Procs \ {s} : pc'[q] = pc[q] /\ arg'[q] = arg[q]
      /\ UNCHANGED <<copy, handlers, heard, stopped, entries, closing>>
  <2>1. /\ s \in Procs /\ arg \in [Procs -> AllNames] /\ pc \in [Procs -> Steps]
        /\ UNCHANGED world /\ copy' = copy
    BY Distinct DEF IInv, TypeOK, StopAll, StopNext, StopAllReturns, Return
  <2>2. CASE StopNext(s)
    BY <2>1, <2>2, FirstEntry DEF IInv, StopNext, world, registry, rest, stopAll
  <2>3. CASE StopAllReturns(s)
    BY <2>1, <2>3 DEF StopAllReturns, Return, world, registry, rest, stopAll
  <2> QED
    BY <2>2, <2>3 DEF StopAll
<1>2. Announced(s)' /\ Gone' = Gone
  BY <1>1 DEF Announced, Gone
<1>3. {"next", "stop"} \subseteq Busy
  BY DEF Busy
<1> QED
  BY <1>1, <1>2, <1>3, QuietMove

\* The ActorStopped that follows a Stop is for the entry that it was about.
LEMMA AfterStopEvents ==
  ASSUME IInv, EInv, NEW s \in Closers, NEW failed \in BOOLEAN,
         pc[s] \in {"stop", "afterStop"}, AfterStop(s, failed),
         UNCHANGED <<registry, rest>>
  PROVE  EInv'
<1>1. /\ entries # <<>> /\ entries' = Tail(entries) /\ closing' = closing
      /\ pc'[s] = "emit" /\ s \in Procs
  BY Distinct, AfterStopEffect
<1>2. /\ arg' = arg /\ \A q \in Procs \ {s} : pc'[q] = pc[q]
      /\ UNCHANGED <<handlers, heard, stopped>>
  BY <1>1 DEF AfterStop, Goto, locals, registry, rest, IInv, TypeOK
<1>3. /\ Len(entries) \in Nat \ {0} /\ Len(entries') = Len(entries) - 1
      /\ Len(closing) \in Nat
  <2>1. TypeOK
    BY DEF IInv
  <2> QED
    BY <1>1, <2>1, TailAt, LenProperties DEF TypeOK, Entries
<1>4. Gone' = Gone + 1 /\ Gone \in Nat
  BY <1>1, <1>3, Counts DEF Gone
<1>5. entries[1] = closing[Gone + 1]
  <2>1. 1 \in 1..Len(entries) /\ 1 + Gone = Gone + 1
    BY <1>3, <1>4
  <2> QED
    BY <2>1 DEF IInv, Worked, Gone
<1>6. arg'[s] = EventName(Gone + 1)'
  <2>1. arg[s] = entries[1].name
    BY DEF EInv, Announces, Announced
  <2>2. (Gone' + 1) - 1 = Gone + 1 /\ Gone' + 1 # 1
    BY <1>4
  <2> QED
    BY <1>1, <1>2, <1>5, <2>1, <2>2 DEF EventName
<1>7. Announced(s)'
  BY <1>1, <1>6 DEF Announced
<1>8. {"stop", "afterStop", "emit"} \subseteq Busy
  BY DEF Busy
<1> QED
  BY <1>1, <1>2, <1>4, <1>7, <1>8, QuietMove

LEMMA StopEvents ==
  ASSUME IInv, EInv, NEW s \in Closers, Stop(s) \/ StopReturns(s)
  PROVE  EInv'
<1>1. CASE StopReturns(s)
  BY <1>1, AfterStopEvents DEF StopReturns
<1>2. ASSUME StopCAS(s), state[target[s]] # "Started" PROVE EInv'
  BY <1>2, AfterStopEvents DEF StopCAS
<1>3. ASSUME \/ StopCAS(s) /\ state[target[s]] = "Started"
             \/ StopWaits(s)
      PROVE  EInv'
  <2>1. /\ s \in Procs /\ arg' = arg
        /\ pc[s] \in {"stop", "awaitStop"} /\ pc'[s] \in {"awaitStop", "afterStop"}
        /\ \A q \in Procs \ {s} : pc'[q] = pc[q]
        /\ UNCHANGED <<handlers, heard, stopped, entries, closing>>
    BY <1>3, Distinct
      DEF IInv, TypeOK, StopCAS, StopWaits, Goto, locals, registry, rest, stopAll
  <2>2. Announced(s)' /\ Gone' = Gone
    BY <2>1 DEF EInv, Announces, Announced, Gone
  <2>3. {"stop", "awaitStop", "afterStop"} \subseteq Busy
    BY DEF Busy
  <2> QED
    BY <2>1, <2>2, <2>3, QuietMove
<1> QED
  BY <1>1, <1>2, <1>3 DEF Stop

LEMMA EmittedEvents ==
  ASSUME IInv, EInv, NEW s \in Closers, Emitted(s)
  PROVE  EInv'
<1>1. /\ s \in Procs /\ pc[s] = "notify" /\ pc'[s] = "next" /\ arg' = arg /\ copy[s] = <<>>
      /\ \A q \in Procs \ {s} : pc'[q] = pc[q]
      /\ UNCHANGED <<handlers, heard, stopped, entries, closing>>
  BY Distinct DEF IInv, TypeOK, Emitted, Goto, locals, world, registry, rest, stopAll
<1>2. Announced(s)' /\ Gone' = Gone
  BY <1>1 DEF Announced, Gone
<1>3. {"notify", "next"} \subseteq Busy
  BY DEF Busy
<1> QED
  BY <1>1, <1>2, <1>3, QuietMove

\* An event begins: all handlers are to be called.
LEMMA EmitEventEvents ==
  ASSUME IInv, EInv, NEW s \in Closers, EmitEvent(s)
  PROVE  EInv'
<1>1. /\ s \in Procs /\ pc[s] = "emit" /\ pc'[s] = "notify" /\ copy'[s] = handlers /\ arg' = arg
      /\ \A q \in Procs \ {s} : pc'[q] = pc[q]
      /\ UNCHANGED <<handlers, heard, stopped, entries, closing>>
  BY Distinct DEF IInv, TypeOK, EmitEvent, world, registry, rest, stopAll
<1>2. {"emit", "notify"} \subseteq Busy
  BY DEF Busy
<1>3. \A t \in Closers : t # s => pc'[t] = pc[t] /\ arg'[t] = arg[t]
  BY <1>1, Distinct
<1>4. Gone' = Gone /\ Gone \in Nat
  BY <1>1, Counts DEF Gone
<1>5. /\ \A t \in Closers : t # s => pc'[t] \notin Busy
      /\ Begun = Gone /\ Begun' = Gone + 1
      /\ \A h : ~Due(h)
      /\ \A h : Due(h)' <=> \E k \in DOMAIN handlers : handlers[k] = h
  BY <1>1, <1>2, <1>3, <1>4, CloserMoves
<1>6. \A j \in DOMAIN handlers : Due(handlers[j]) = FALSE /\ Due(handlers[j])' = TRUE
  <2>1. handlers' = handlers
    BY <1>1
  <2> QED
    BY <1>5, <2>1
<1>7. \A j \in DOMAIN handlers : LastEvent(handlers[j])' = LastEvent(handlers[j])
  BY <1>4, <1>5, <1>6 DEF LastEvent
<1>8. Hearing'
  <2>1. Begun' \in Nat /\ Begun <= Begun'
    BY <1>4, <1>5
  <2> QED
    BY <1>1, <1>6, <1>7, <2>1, HearingKept DEF EInv
<1>9. Announced(s)'
  <2>1. arg[s] = EventName(Gone + 1)
    BY <1>1 DEF EInv, Announces, Announced
  <2>2. 0 \in Nat /\ \A k \in DOMAIN handlers : 0 + k = k
    BY Counts
  <2> QED
    BY <1>1, <1>4, <2>1, <2>2 DEF Announced, EventName
<1>10. \A u \in Users : pc'[u] = pc[u]
  BY <1>1, Distinct
<1>11. Handlers' /\ Announces'
  BY <1>1, <1>3, <1>5, <1>9, <1>10, HandlersKept, OthersAnnounced DEF EInv
<1> QED
  BY <1>8, <1>11 DEF EInv

\* The handler that is called hears the event that it had yet to hear.
LEMMA CallHandlerEvents ==
  ASSUME IInv, EInv, NEW s \in Closers, CallHandler(s)
  PROVE  EInv'
<1>1. /\ TypeOK /\ s \in Procs /\ pc[s] = "notify" /\ copy[s] # <<>> /\ copy[s] \in Seq(Users)
      /\ copy'[s] = Tail(copy[s])
      /\ heard' = [heard EXCEPT ![Head(copy[s])] = Append(@, arg[s])]
      /\ UNCHANGED <<pc, arg, handlers, stopped, entries, closing>>
  BY Distinct DEF IInv, TypeOK, CallHandler, registry, stopAll
<1> DEFINE c == copy[s]  n == Len(c)
<1>2. /\ Tail(c) \in Seq(Users) /\ Head(c) \in Users /\ Head(c) = c[1] /\ n \in Nat \ {0}
      /\ Len(Tail(c)) = n - 1 /\ \A i \in 1..(n - 1) : Tail(c)[i] = c[i + 1]
  BY <1>1, TailAt
<1>3. /\ DOMAIN c = 1..n /\ DOMAIN Tail(c) = 1..(n - 1)
      /\ 1 \in DOMAIN c /\ \A k \in 1..(n - 1) : k + 1 \in DOMAIN c
  <2>1. DOMAIN c = 1..n /\ DOMAIN Tail(c) = 1..(n - 1)
    BY <1>1, <1>2, LenProperties
  <2> QED
    BY <1>2, <2>1
<1>4. PICK x \in Nat : \A k \in DOMAIN c : x + k \in DOMAIN handlers /\ c[k] = handlers[x + k]
  BY <1>1 DEF EInv, Announces, Announced
<1>5. PICK h \in Users : x + 1 \in DOMAIN handlers /\ Head(c) = h /\ h = handlers[x + 1]
  BY <1>2, <1>3, <1>4
<1>6. \A k \in 1..(n - 1) : /\ (x + 1) + k \in DOMAIN handlers
                            /\ Tail(c)[k] = handlers[(x + 1) + k]
  <2> TAKE k \in 1..(n - 1)
  <2>1. (x + 1) + k = x + (k + 1)
    OBVIOUS
  <2> QED
    BY <1>2, <1>3, <1>4, <2>1
<1>7. {"notify"} \subseteq Busy
  BY DEF Busy
<1>8. Gone' = Gone /\ Gone \in Nat
  BY <1>1, Counts DEF Gone
<1>9. /\ \A t \in Closers : t # s => pc'[t] \notin Busy
      /\ Begun = Gone + 1 /\ Begun' = Begun
      /\ \A g : Due(g) <=> \E k \in DOMAIN c : c[k] = g
      /\ \A g : Due(g)' <=> \E k \in 1..(n - 1) : Tail(c)[k] = g
  <2>1. pc' = pc /\ stopped' = stopped /\ copy'[s] = Tail(c)
    BY <1>1
  <2>2. /\ \A t \in Closers : t # s => pc'[t] \notin Busy
        /\ Begun = Gone + 1 /\ Begun' = Gone' + 1
        /\ \A g : Due(g) <=> \E k \in DOMAIN c : c[k] = g
        /\ \A g : Due(g)' <=> \E k \in DOMAIN copy'[s] : copy'[s][k] = g
    <3>1. pc[s] \in Busy /\ pc'[s] \in Busy \cup {"returned"} /\ pc[s] = "notify" /\ pc'[s] = "notify"
      BY <1>1, <1>7, <2>1
    <3>2. \A t \in Closers : t # s => pc'[t] = pc[t]
      BY <2>1
    <3>3. /\ \A t \in Closers : t # s => pc'[t] \notin Busy
          /\ Begun = (IF pc[s] = "emit" THEN Gone ELSE Gone + 1)
          /\ Begun' = (IF pc'[s] = "emit" THEN Gone' ELSE Gone' + 1)
          /\ \A g : Due(g) <=> pc[s] = "notify" /\ \E k \in DOMAIN copy[s] : copy[s][k] = g
          /\ \A g : Due(g)' <=> pc'[s] = "notify" /\ \E k \in DOMAIN copy'[s] : copy'[s][k] = g
      BY <2>1, <3>1, <3>2, CloserMoves
    <3> QED
      BY <3>1, <3>3 DEF c
  <2> QED
    BY <1>3, <1>8, <2>1, <2>2
<1>10. /\ DOMAIN handlers = 1..Len(handlers) /\ Len(handlers) \in Nat
       /\ \A i, j \in DOMAIN handlers : handlers[i] = handlers[j] => i = j
       /\ \A j \in DOMAIN handlers : handlers[j] \in Users
  BY Counts DEF EInv, Handlers
<1> HIDE DEF c, n
<1>11. Due(h) /\ \A g : Due(g)' => Due(g) /\ g # h
  <2>1. Due(h)
    BY <1>2, <1>3, <1>5, <1>9
  <2>2. ASSUME NEW g, NEW k \in 1..(n - 1), Tail(c)[k] = g PROVE Due(g) /\ g # h
    <3>1. c[k + 1] = g /\ k + 1 \in DOMAIN c
      BY <1>2, <1>3, <2>2
    <3>2. (x + 1) + k # x + 1
      BY <1>2
    <3> QED
      BY <1>5, <1>6, <1>9, <1>10, <2>2, <3>1, <3>2
  <2> QED
    BY <1>9, <2>1, <2>2
<1>12. \A g : Due(g) /\ g # h => Due(g)'
  <2> SUFFICES ASSUME NEW g, NEW k \in DOMAIN c, c[k] = g, g # h PROVE Due(g)'
    BY <1>9
  <2>1. k # 1
    BY <1>2, <1>5
  <2>2. k - 1 \in 1..(n - 1) /\ (k - 1) + 1 = k
    BY <1>2, <1>3, <2>1
  <2> QED
    BY <1>2, <1>9, <2>2
<1>13. /\ heard'[h] = Append(heard[h], arg[s]) /\ heard[h] \in Seq(AllNames) /\ arg[s] \in AllNames
       /\ \A u \in Users : u # h => heard'[u] = heard[u]
  <2>1. /\ heard \in [Users -> Seq(AllNames)] /\ arg \in [Procs -> AllNames]
        /\ heard' = [heard EXCEPT ![h] = Append(@, arg[s])]
    BY <1>1, <1>5 DEF TypeOK, c
  <2> QED
    BY <1>1, <1>5, <2>1
<1>14. /\ Len(heard[h]) \in Nat /\ Len(heard'[h]) = Len(heard[h]) + 1
       /\ \A k \in 1..Len(heard[h]) : heard'[h][k] = heard[h][k]
       /\ heard'[h][Len(heard[h]) + 1] = arg[s]
  BY <1>13, AppendAt
<1>15. \A u \in Users : Missed(u)' = Missed(u)
  <2>1. LastEvent(h) = Begun - 1 /\ LastEvent(h)' = Begun
    BY <1>9, <1>11 DEF LastEvent
  <2>2. \A u \in Users : u # h => LastEvent(u)' = LastEvent(u)
    BY <1>9, <1>11, <1>12 DEF LastEvent
  <2>3. Missed(h)' = Missed(h)
    BY <1>8, <1>9, <1>14, <2>1 DEF Missed
  <2>4. \A u \in Users : u # h => Missed(u)' = Missed(u)
    BY <1>13, <2>2 DEF Missed
  <2> QED
    BY <2>3, <2>4
<1>16. Hearing'
  <2>1. /\ \A j \in DOMAIN handlers : Missed(handlers[j]) \in 0..Begun
        /\ \A j \in DOMAIN handlers : \A k \in 1..Len(heard[handlers[j]]) :
             heard[handlers[j]][k] = EventName(Missed(handlers[j]) + k)
        /\ \A i, j \in DOMAIN handlers : i < j =>
             /\ Missed(handlers[i]) <= Missed(handlers[j])
             /\ Due(handlers[i]) /\ ~Due(handlers[j]) => Missed(handlers[j]) = Begun
    BY DEF EInv, Hearing
  <2>2. handlers' = handlers /\ (\A k : EventName(k)' = EventName(k)) /\ arg[s] = EventName(Begun)
    BY <1>1, <1>9 DEF EventName, EInv, Announces, Announced
  <2>3. \A j \in DOMAIN handlers : Missed(handlers[j])' = Missed(handlers[j])
    BY <1>10, <1>15, <2>2
  <2>4. ASSUME NEW j \in DOMAIN handlers, NEW k \in 1..Len(heard'[handlers[j]])
        PROVE  heard'[handlers[j]][k] = EventName(Missed(handlers[j]) + k)
    <3>1. CASE handlers[j] # h
      BY <1>10, <1>13, <2>1, <3>1
    <3>2. CASE handlers[j] = h /\ k \in 1..Len(heard[h])
      BY <1>14, <2>1, <3>2
    <3>3. CASE handlers[j] = h /\ k = Len(heard[h]) + 1
      <4>1. Missed(h) + k = Begun
        BY <1>8, <1>9, <1>11, <1>14, <3>3 DEF Missed, LastEvent
      <4> QED
        BY <1>14, <2>2, <3>3, <4>1
    <3>4. handlers[j] = h => k \in 1..Len(heard[h]) \/ k = Len(heard[h]) + 1
      BY <1>14
    <3> QED
      BY <3>1, <3>2, <3>3, <3>4
  <2>5. ASSUME NEW i \in DOMAIN handlers, NEW j \in DOMAIN handlers, i < j,
               Due(handlers[i])', ~Due(handlers[j])'
        PROVE  Missed(handlers[j]) = Begun
    <3>1. \E k \in 1..(n - 1) : Tail(c)[k] = handlers[i]
      BY <1>9, <2>2, <2>5
    <3>2. PICK k \in 1..(n - 1) : handlers[(x + 1) + k] = handlers[i] /\ (x + 1) + k \in DOMAIN handlers
      BY <1>6, <3>1
    <3>3. i > x + 1
      BY <1>2, <1>10, <3>2
    <3>4. handlers[j] # h
      BY <1>5, <1>10, <2>5, <3>3
    <3>5. ~Due(handlers[j]) /\ Due(handlers[i])
      BY <1>11, <1>12, <2>2, <2>5, <3>4
    <3> QED
      BY <2>1, <2>5, <3>5
  <2> QED
    BY <1>9, <2>1, <2>2, <2>3, <2>4, <2>5 DEF Hearing
<1>17. Announces'
  <2>1. Announced(s)'
    <3>1. arg[s] = EventName(Gone + 1)
      BY <1>1 DEF EInv, Announces, Announced
    <3>2. x + 1 \in Nat /\ \A k \in DOMAIN copy'[s] : /\ (x + 1) + k \in DOMAIN handlers'
                                                     /\ copy'[s][k] = handlers'[(x + 1) + k]
      <4>1. copy'[s] = Tail(c) /\ handlers' = handlers
        BY <1>1 DEF c
      <4>2. x + 1 \in Nat /\ DOMAIN copy'[s] = 1..(n - 1)
        BY <1>3, <4>1
      <4>3. \A k \in 1..(n - 1) : copy'[s][k] = Tail(c)[k]
        BY <4>1
      <4> QED
        BY <1>6, <4>1, <4>2, <4>3
    <3> QED
      BY <1>1, <1>8, <3>1, <3>2 DEF Announced, EventName
  <2> QED
    BY <1>1, <1>9, <2>1, OthersAnnounced DEF EInv
<1>18. Handlers'
  <2>1. \A u \in Users : (\A j \in DOMAIN handlers : handlers[j] # u) => heard'[u] = heard[u]
    BY <1>5, <1>13
  <2> QED
    BY <1>1, <2>1 DEF EInv, Handlers
<1> QED
  BY <1>16, <1>17, <1>18 DEF EInv

LEMMA AwaitShutdownEvents ==
  ASSUME IInv, EInv, NEW s \in Waiters, AwaitShutdown(s)
  PROVE  EInv'
<1>1. /\ s \in Closers /\ s \in Procs /\ pc[s] = "idle" /\ pc'[s] = "signalled"
      /\ \A q \in Procs \ {s} : pc'[q] = pc[q]
      /\ UNCHANGED <<arg, copy, handlers, heard, stopped, entries, closing>>
  BY Distinct
    DEF IInv, TypeOK, AwaitShutdown, Idle, Goto, locals, world, registry, rest, stopAll
<1>2. \A t \in Closers : /\ t # s => pc'[t] = pc[t]
                         /\ pc'[t] = "emit" <=> pc[t] = "emit"
                         /\ pc'[t] = "notify" <=> pc[t] = "notify"
  BY <1>1, Distinct
<1>3. Begun' = Begun /\ \A h : Due(h)' <=> Due(h)
  BY <1>1, <1>2 DEF Begun, Gone, Due
<1>4. Begun \in Nat /\ Begun <= Begun' /\ \A h : LastEvent(h)' = LastEvent(h)
  BY <1>3, Counts DEF LastEvent
<1>5. Hearing'
  BY <1>1, <1>3, <1>4, HearingKept DEF EInv
<1>6. \A t \in Closers : Announced(t)'
  <2> TAKE t \in Closers
  <2>1. Announced(t) /\ Announced(s)
    BY <1>1 DEF EInv, Announces
  <2>2. CASE t = s
    BY <1>1, <2>1, <2>2 DEF Announced
  <2>3. CASE t # s
    BY <1>1, <1>2, <2>1, <2>3 DEF Announced, EventName, Gone
  <2> QED
    BY <2>2, <2>3
<1>7. \A u \in Users : pc'[u] = pc[u]
  BY <1>1, Distinct
<1>8. Handlers' /\ Announces'
  BY <1>1, <1>6, <1>7, HandlersKept DEF EInv, Announces
<1> QED
  BY <1>5, <1>8 DEF EInv

\* A step of a call of Spawn or of a user.
Aside(p) ==
  /\ UNCHANGED <<stopped, entries, closing, handlers, heard>>
  /\ pc'[p] # "idle"
  /\ \A q \in Procs \ {p} : pc'[q] = pc[q] /\ arg'[q] = arg[q] /\ copy'[q] = copy[q]

LEMMA AsideEvents ==
  ASSUME IInv, EInv, NEW p \in Procs, p \notin Closers, Aside(p)
  PROVE  EInv'
<1>1. \A s \in Closers : s \in Procs \ {p}
  BY Distinct
<1>2. \A u \in Users : pc'[u] = "idle" => pc[u] = "idle"
  BY Distinct DEF Aside
<1> QED
  BY <1>1, <1>2, EventFrame DEF Aside

LEMMA ReturnAside ==
  ASSUME TypeOK, NEW p \in Procs, NEW r, Return(p, r)
  PROVE  /\ pc'[p] # "idle"
         /\ \A q \in Procs \ {p} : pc'[q] = pc[q] /\ arg'[q] = arg[q] /\ copy'[q] = copy[q]
BY DEF TypeOK, Return

LEMMA GotoAside ==
  ASSUME TypeOK, NEW p \in Procs, NEW to, to # "idle", Goto(p, to)
  PROVE  /\ pc'[p] # "idle"
         /\ \A q \in Procs \ {p} : pc'[q] = pc[q] /\ arg'[q] = arg[q] /\ copy'[q] = copy[q]
BY DEF TypeOK, Goto, locals

LEMMA SpawnEvents ==
  ASSUME IInv, EInv, NEW p \in Spawners,
         Spawn(p) \/ \E n \in AllNames : SpawnStarts(p, n)
  PROVE  EInv'
<1> USE DEF world, registry, stopAll, rest, locals
<1>1. TypeOK /\ p \in Procs /\ p \notin Closers
  BY Distinct DEF IInv
<1>2. CASE SpawnWaits(p)
  <2>1. UNCHANGED world /\ (Goto(p, "register") \/ (pc' = [pc EXCEPT ![p] = "stop"] /\ UNCHANGED locals))
    BY <1>2 DEF SpawnWaits
  <2>2. Aside(p)
    BY <1>1, <2>1, GotoAside DEF Aside, TypeOK
  <2> QED
    BY <1>1, <2>2, AsideEvents
<1>3. CASE SpawnRegisters(p)
  <2>1. Aside(p)
    BY <1>1, <1>3 DEF Aside, SpawnRegisters, Bind, TypeOK
  <2> QED
    BY <1>1, <2>1, AsideEvents
<1>4. ASSUME NEW n \in AllNames, SpawnStarts(p, n) PROVE EInv'
  <2>1. CASE Return(p, "err")
    <3>1. Aside(p)
      BY <1>1, <1>4, <2>1, ReturnAside DEF Aside, SpawnStarts
    <3> QED
      BY <1>1, <3>1, AsideEvents
  <2>2. CASE ~Return(p, "err")
    <3>1. Aside(p)
      BY <1>1, <1>4, <2>2 DEF Aside, SpawnStarts, TypeOK
    <3> QED
      BY <1>1, <3>1, AsideEvents
  <2> QED
    BY <2>1, <2>2
<1> QED
  BY <1>2, <1>3, <1>4 DEF Spawn

LEMMA UserEvents ==
  ASSUME IInv, EInv, NEW u \in Users,
         UserCalls(u) \/ Ask(u) \/ Enqueue(u) \/ EnqueueGivesUp(u)
  PROVE  EInv'
<1> USE DEF world, registry, stopAll, rest
<1>1. TypeOK /\ u \in Procs /\ u \notin Closers
  BY Distinct DEF IInv
<1>2. CASE OnEvent(u)
  BY <1>2, OnEventEvents
<1>3. ASSUME NEW n \in AllNames, NEW a \in Refs \cup {NoActor}, UserRegisters(u, n, a)
      PROVE  Aside(u)
  BY <1>1, <1>3, ReturnAside DEF UserRegisters, Bind, Aside
<1>4. ASSUME NEW n \in AllNames, Unregister(u, n) PROVE Aside(u)
  BY <1>1, <1>4, ReturnAside DEF Unregister, Aside
<1>5. ASSUME NEW n \in AllNames, NEW to \in {"dispatch", "stop"}, Lookup(u, n, to)
      PROVE  Aside(u)
  <2>1. CASE ~stopped /\ actors[n] # NoActor
    BY <1>1, <1>5, <2>1 DEF Lookup, Aside, TypeOK
  <2>2. CASE ~(~stopped /\ actors[n] # NoActor)
    BY <1>1, <1>5, <2>2, ReturnAside DEF Lookup, Aside
  <2> QED
    BY <2>1, <2>2
<1>6. CASE Ask(u) \/ Enqueue(u) \/ EnqueueGivesUp(u)
  <2>1. UNCHANGED world /\ (\/ \E r \in {"ok", "err"} : Return(u, r)
                           \/ \E to \in {"enqueue", "await"} : Goto(u, to))
    BY <1>6 DEF Ask, Dispatch, Enqueue, EnqueueStopped, EnqueueGivesUp, Answered, AwaitTimer
  <2>2. Aside(u)
    BY <1>1, <2>1, ReturnAside, GotoAside DEF Aside
  <2> QED
    BY <1>1, <2>2, AsideEvents
<1> QED
  BY <1>1, <1>2, <1>3, <1>4, <1>5, <1>6, AsideEvents DEF UserCalls

\* What Spawn and the users share with StopAll.
LEMMA SharedEvents ==
  ASSUME IInv, EInv, NEW p \in Procs, p \notin Closers,
         Stop(p) \/ StopReturns(p) \/ Emit(p) \/ CallHandler(p)
  PROVE  EInv'
<1> USE DEF world, registry, stopAll, rest
<1>1. TypeOK
  BY DEF IInv
<1>2. CASE StopReturns(p)
  <2>1. Aside(p)
    BY <1>1, <1>2, ReturnAside DEF StopReturns, AfterStop, Aside
  <2> QED
    BY <2>1, AsideEvents
<1>3. CASE StopCAS(p)
  <2>1. CASE state[target[p]] = "Started"
    <3>1. Aside(p)
      BY <1>1, <1>3, <2>1, GotoAside DEF StopCAS, Aside
    <3> QED
      BY <3>1, AsideEvents
  <2>2. CASE state[target[p]] # "Started"
    <3>1. Aside(p)
      BY <1>1, <1>3, <2>2, ReturnAside DEF StopCAS, AfterStop, Aside
    <3> QED
      BY <3>1, AsideEvents
  <2> QED
    BY <2>1, <2>2
<1>4. CASE EmitEvent(p)
  <2>1. Aside(p)
    BY <1>1, <1>4 DEF EmitEvent, Aside, TypeOK
  <2> QED
    BY <2>1, AsideEvents
<1>5. CASE Emitted(p)
  <2>1. Aside(p)
    BY <1>1, <1>5, ReturnAside, GotoAside DEF Emitted, Aside
  <2> QED
    BY <2>1, AsideEvents
<1>6. CASE CallHandler(p)
  <2>1. Aside(p)
    BY <1>1, <1>6 DEF CallHandler, Aside, TypeOK, IInv
  <2> QED
    BY <2>1, AsideEvents
<1>7. CASE StopWaits(p)
  <2>1. Aside(p)
    BY <1>1, <1>7, GotoAside DEF StopWaits, Aside
  <2> QED
    BY <2>1, AsideEvents
<1> QED
  BY <1>2, <1>3, <1>4, <1>5, <1>6, <1>7 DEF Stop, Emit

LEMMA EventsStep ==
  ASSUME IInv, EInv, [Next]_vars
  PROVE  EInv'
<1> USE DEF world, registry, stopAll, rest, calls, locals
<1>1. ASSUME UNCHANGED <<stopped, entries, closing, handlers, heard, pc, arg, copy>> PROVE EInv'
  BY <1>1, EventFrame
<1>2. CASE UNCHANGED vars
  BY <1>1, <1>2 DEF vars
<1>3. ASSUME NEW p \in Spawners, Spawn(p) \/ \E n \in AllNames : SpawnStarts(p, n)
      PROVE  EInv'
  BY <1>3, SpawnEvents
<1>4. ASSUME NEW u \in Users, UserCalls(u) \/ UserGoesOn(u) PROVE EInv'
  BY <1>1, <1>4, UserEvents DEF UserGoesOn, ActorServes
<1>5. ASSUME NEW s \in Closers, Close(s) \/ StopAll(s) PROVE EInv'
  BY <1>5, CloseEvents, StopAllEvents
<1>6. ASSUME NEW s \in Waiters, AwaitShutdown(s) PROVE EInv'
  BY <1>6, AwaitShutdownEvents
<1>7. ASSUME NEW p \in Procs, Stop(p) \/ StopReturns(p) \/ Emit(p) \/ CallHandler(p)
      PROVE  EInv'
  BY <1>7, StopEvents, EmitEventEvents, EmittedEvents, CallHandlerEvents, SharedEvents DEF Emit
<1>8. ASSUME NEW a \in Actors, ActorStarts(a) \/ ActorFails(a) \/ ActorExits(a)
      PROVE  EInv'
  BY <1>1, <1>8 DEF ActorStarts, ActorFails, ActorExits
<1>9. CASE Signal
  BY <1>1, <1>9 DEF Signal
<1> QED
  BY <1>2, <1>3, <1>4, <1>5, <1>6, <1>7, <1>8, <1>9 DEF Next

LEMMA EventsInit == Init => EInv
<1> SUFFICES ASSUME Init PROVE EInv
  OBVIOUS
<1>1. /\ \A s \in Closers : pc[s] = "idle" /\ arg[s] = NoName
      /\ handlers = <<>> /\ \A u \in Users : heard[u] = <<>>
  BY Distinct DEF Init
<1> QED
  BY <1>1 DEF EInv, Handlers, Announces, Announced, Hearing

\* The events of the shutdown are numbered from 1.
LEMMA ShutdownAt ==
  ASSUME TypeOK
  PROVE  /\ Shutdown \in Seq(AllNames) /\ Len(Shutdown) = Len(closing) + 1 /\ Len(closing) \in Nat
         /\ \A k \in 1..(Len(closing) + 1) : Shutdown[k] = EventName(k)
<1> DEFINE n == Len(closing)  names == [i \in 1..n |-> closing[i].name]  first == <<NoName>>
<1>1. n \in Nat /\ DOMAIN closing = 1..n
  BY LenProperties DEF TypeOK, Entries
<1>2. \A i \in 1..n : closing[i].name \in AllNames
  <2> TAKE i \in 1..n
  <2>1. closing[i] \in [name : Names, managed : Actors]
    BY ElementOfSeq DEF TypeOK, Entries
  <2> QED
    BY <2>1, Distinct
<1>3. names \in [1..n -> AllNames]
  BY <1>2
<1> HIDE DEF n
<1>4. \A k \in 1..n : names[k] = closing[k].name
  OBVIOUS
<1>5. first \in Seq(AllNames) /\ Len(first) = 1 /\ first[1] = NoName
  BY Distinct
<1>6. Shutdown = first \o names
  BY <1>1 DEF Shutdown
<1> HIDE DEF names, first
<1>7. names \in Seq(AllNames) /\ Len(names) = n
  <2>1. names \in Seq(AllNames)
    BY <1>1, <1>3, SeqDef
  <2>2. Len(names) \in Nat /\ n \in Nat /\ 1..Len(names) = 1..n
    BY <1>1, <1>3, <2>1, LenProperties
  <2>3. Len(names) = n
    BY <2>2
  <2> QED
    BY <2>1, <2>3
<1>8. /\ Shutdown \in Seq(AllNames) /\ Len(Shutdown) = n + 1
      /\ \A k \in 1..(n + 1) : Shutdown[k] = IF k <= 1 THEN first[k] ELSE names[k - 1]
  <2>1. /\ first \o names \in Seq(AllNames)
        /\ Len(first \o names) = Len(first) + Len(names)
        /\ \A k \in 1..(Len(first) + Len(names)) :
             (first \o names)[k] = IF k <= Len(first) THEN first[k] ELSE names[k - Len(first)]
    BY <1>5, <1>7, ConcatProperties
  <2>2. Len(first) + Len(names) = n + 1
    BY <1>1, <1>5, <1>7
  <2> QED
    BY <1>5, <1>6, <2>1, <2>2
<1>9. \A k \in 1..(n + 1) : Shutdown[k] = EventName(k)
  <2> TAKE k \in 1..(n + 1)
  <2>1. CASE k = 1
    BY <1>1, <1>5, <1>8, <2>1 DEF EventName
  <2>2. CASE k # 1
    <3>1. ~(k <= 1) /\ k - 1 \in 1..n
      BY <1>1, <2>2
    <3> QED
      BY <1>4, <1>8, <2>2, <3>1 DEF EventName
  <2> QED
    BY <2>1, <2>2
<1> QED
  BY <1>1, <1>8, <1>9 DEF n

\* What a handler has heard is the part of the shutdown that it was there for.
LEMMA HeardPart ==
  ASSUME IInv, EInv, NEW j \in DOMAIN handlers
  PROVE  /\ HeardShutdown(handlers[j], Missed(handlers[j]) + 1, LastEvent(handlers[j]))
         /\ Missed(handlers[j]) \in Nat /\ LastEvent(handlers[j]) \in Nat
         /\ Missed(handlers[j]) <= LastEvent(handlers[j])
         /\ LastEvent(handlers[j]) <= Len(Shutdown) /\ Len(Shutdown) \in Nat
<1>1. PICK h \in Users : h = handlers[j]
  BY Counts
<1> DEFINE b == Missed(h)  l == LastEvent(h)  q == SubSeq(Shutdown, b + 1, l)
<1>2. /\ Shutdown \in Seq(AllNames) /\ Len(Shutdown) = Len(closing) + 1 /\ Len(closing) \in Nat
      /\ \A k \in 1..(Len(closing) + 1) : Shutdown[k] = EventName(k)
  BY ShutdownAt DEF IInv
<1>3. /\ Begun \in Nat /\ Begun <= Len(closing) + 1 /\ Len(heard[h]) \in Nat
      /\ heard[h] \in Seq(AllNames)
  BY <1>1, Counts DEF IInv, TypeOK
<1>4. b \in 0..Begun /\ \A k \in 1..Len(heard[h]) : heard[h][k] = EventName(b + k)
  BY <1>1 DEF EInv, Hearing
<1>5. l \in Int /\ l <= Begun /\ b = l - Len(heard[h])
  BY <1>3 DEF LastEvent, Missed
<1> HIDE DEF b, l
<1>6. b \in Nat /\ l \in Nat /\ b <= l /\ l <= Len(Shutdown) /\ Len(heard[h]) = l - b
  BY <1>2, <1>3, <1>4, <1>5
<1>7. \A i \in (b + 1)..l : Shutdown[i] \in AllNames
  <2>1. \A i \in (b + 1)..l : i \in 1..Len(Shutdown)
    BY <1>2, <1>6
  <2> QED
    BY <1>2, <2>1, ElementOfSeq
<1>8. /\ q \in Seq(AllNames) /\ Len(q) = IF b + 1 <= l THEN l - (b + 1) + 1 ELSE 0
      /\ \A i \in 1..(l - (b + 1) + 1) : q[i] = Shutdown[(b + 1) + i - 1]
  BY <1>6, <1>7, SubSeqProperties
<1>9. Len(q) = Len(heard[h]) /\ \A k \in 1..Len(heard[h]) : heard[h][k] = q[k]
  <2>1. Len(q) = Len(heard[h]) /\ l - (b + 1) + 1 = Len(heard[h])
    BY <1>6, <1>8
  <2>2. \A k \in 1..Len(heard[h]) : (b + 1) + k - 1 = b + k /\ b + k \in 1..(Len(closing) + 1)
    BY <1>2, <1>6
  <2> QED
    BY <1>2, <1>4, <1>8, <2>1, <2>2
<1>10. heard[h] = q
  BY <1>3, <1>8, <1>9, SeqEqual
<1> QED
  BY <1>1, <1>2, <1>6, <1>10 DEF b, l, HeardShutdown

\* Whoever registers for events while the system shuts down hears each event from
\* then on once and in order, and is never ahead of a handler that was there
\* before, although StopAll copies the handlers anew for each event.
THEOREM EventsAreHeardInOrder == Spec => []EventsInOrder
<1>1. IInv /\ EInv => EventsInOrder
  <2> SUFFICES ASSUME IInv, EInv, NEW j \in DOMAIN handlers
               PROVE  \E from \in 1..(Len(Shutdown) + 1), to \in 0..Len(Shutdown) :
                        /\ HeardShutdown(handlers[j], from, to)
                        /\ \A i \in 1..(j - 1) : from <= to =>
                             \E f \in 1..from, t \in to..Len(Shutdown) :
                               HeardShutdown(handlers[i], f, t)
    BY DEF EventsInOrder
  <2> DEFINE from == Missed(handlers[j]) + 1  to == LastEvent(handlers[j])
  <2>1. /\ HeardShutdown(handlers[j], from, to)
        /\ from \in 1..(Len(Shutdown) + 1) /\ to \in 0..Len(Shutdown) /\ Len(Shutdown) \in Nat
        /\ Missed(handlers[j]) \in Nat /\ to \in Nat
    BY HeardPart
  <2>2. DOMAIN handlers = 1..Len(handlers) /\ Len(handlers) \in Nat /\ Begun \in Nat
    BY Counts
  <2>3. ASSUME NEW i \in 1..(j - 1), from <= to
        PROVE  \E f \in 1..from, t \in to..Len(Shutdown) : HeardShutdown(handlers[i], f, t)
    <3>1. i \in DOMAIN handlers /\ i < j
      BY <2>2, <2>3
    <3> DEFINE f == Missed(handlers[i]) + 1  t == LastEvent(handlers[i])
    <3>2. /\ HeardShutdown(handlers[i], f, t) /\ Missed(handlers[i]) \in Nat /\ t \in Nat
          /\ t <= Len(Shutdown)
      BY <3>1, HeardPart
    <3>3. /\ Missed(handlers[i]) <= Missed(handlers[j])
          /\ Due(handlers[i]) /\ ~Due(handlers[j]) => Missed(handlers[j]) = Begun
      BY <3>1 DEF EInv, Hearing
    <3>4. to <= t
      BY <2>1, <2>2, <2>3, <3>3 DEF LastEvent
    <3> HIDE DEF f, t
    <3>5. f \in 1..from
      BY <2>1, <3>2, <3>3 DEF f
    <3>6. t \in to..Len(Shutdown)
      BY <2>1, <3>2, <3>4
    <3> QED
      BY <3>2, <3>5, <3>6
  <2> HIDE DEF from, to
  <2> QED
    BY <2>1, <2>3
<1>2. IInv /\ EInv /\ [Next]_vars => EInv'
  BY EventsStep
<1> QED
  BY Invariant, EventsInit, <1>1, <1>2, PTL DEF Spec
=============================================================================
