-------------------------- MODULE ActorSystemProofs ---------------------------
(***************************************************************************)
(* Theorems about ActorSystem, for any sets of callers, actors and names.  *)
(*                                                                         *)
(* The argument: one call of StopAll closes the system (OneCloser) and     *)
(* works through the list it took of the registry (Worked), which holds    *)
(* every actor that is the system's (Owned). An actor that is registered   *)
(* or on the list has started (Ready), so that a Stop is refused only by   *)
(* one that another Stop has told, or that has failed (Stoppable).         *)
(***************************************************************************)
EXTENDS ActorSystemProps, RankProofs

Ready(a) == state[a] \notin {"Initialized", "Launched"}

Busy == {"emit", "notify", "next", "stop", "awaitStop", "afterStop"}

\* A call that has closed the system.
Closing(s) == pc[s] \in Busy \/ (pc[s] = "returned" /\ result[s] # "stopped")

\* One call closes the system; what it stops is the first of the list.
OneCloser ==
  /\ \A s \in Closers : pc[s] \in {"idle", "signalled", "returned"} \cup Busy
  /\ \A s \in Closers : Closing(s) => stopped
  /\ \A s, t \in Closers : Closing(s) /\ Closing(t) => s = t
  /\ \A s \in Closers : pc[s] \in {"stop", "awaitStop", "afterStop"} =>
       entries # <<>> /\ target[s] = entries[1].managed
  /\ \A s \in Closers : pc[s] = "returned" /\ result[s] # "stopped" =>
       entries = <<>> /\ (result[s] = "ok" => errs = {})

\* The list is what is left of the one that was taken; what is gone from it was
\* told to stop or is among the errors.
Handled(e) == told[e.managed] \/ e.name \in errs

Worked ==
  /\ Len(entries) <= Len(closing)
  /\ \A i \in 1..Len(entries) : entries[i] = closing[i + (Len(closing) - Len(entries))]
  /\ \A i \in 1..(Len(closing) - Len(entries)) : Handled(closing[i])
  /\ \A i \in 1..Len(closing) : closing[i].managed \in Actors /\ Ready(closing[i].managed)

\* An actor that is the system's is registered, or on the list of StopAll.
Owned ==
  \A a \in Actors \ freed :
    IF stopped THEN \E i \in 1..Len(closing) : closing[i].managed = a
               ELSE \E n \in AllNames : actors[n] = a

\* What is registered has started, and so has the actor of a Spawn that got as
\* far as to register it; Spawn stops its own actor.
Spawning ==
  /\ \A n \in AllNames : actors[n] # NoActor => Ready(actors[n])
  /\ \A a \in Loose : Ready(a)
  /\ \A p \in Spawners :
       /\ pc[p] \in {"idle", "waitReady", "register", "emit", "notify",
                     "stop", "awaitStop", "afterStop", "returned"}
       /\ pc[p] = "idle" => state[p] = "Initialized"
       /\ pc[p] \in {"waitReady", "register"} => target[p] = p /\ state[p] # "Initialized"
       /\ pc[p] \in {"register", "emit", "notify"} => Ready(p)
       /\ pc[p] \in {"stop", "awaitStop", "afterStop"} =>
            target[p] = p /\ result[p] \in {"err", "notReady"} /\ (result[p] = "err" => Ready(p))
       /\ pc[p] = "returned" => result[p] \in {"ok", "err", "notReady"}
       /\ pc[p] = "returned" /\ result[p] = "ok" => Ready(p)
       /\ pc[p] = "returned" /\ result[p] = "err" => state[p] \notin {"Launched", "Started"}

\* An actor whose Stop is under way has started and is told, one that is Stopping
\* or Stopped is told, one that is told does not go back to Started, and one that
\* was never started has no goroutine.
Stoppable ==
  /\ \A p \in Procs : pc[p] \in {"awaitStop", "afterStop"} =>
       Ready(target[p]) /\ told[target[p]]
  /\ \A a \in Actors :
       /\ state[a] \in {"Stopping", "Stopped"} => told[a]
       /\ told[a] => state[a] \in {"Stopping", "Stopped", "Failed"}
       /\ state[a] = "Initialized" => ~alive[a]

IInv == TypeOK /\ RegistryConsistent /\ OneCloser /\ Worked /\ Owned /\ Spawning /\ Stoppable

-----------------------------------------------------------------------------
(* Lemmas about the constants and about sequences                          *)

LEMMA Distinct ==
  /\ Spawners \subseteq Procs /\ Users \subseteq Procs /\ Closers \subseteq Procs
  /\ \A u \in Users : u \notin Spawners /\ u \notin Closers
  /\ \A s \in Closers : s \notin Spawners /\ s \notin Users
  /\ \A p \in Procs : p \in Spawners \/ p \in Users \/ p \in Closers
  /\ \A s \in Waiters : s \in Closers
  /\ \A a \in Spawners : a \in Actors /\ a \notin Loose
  /\ \A a \in Loose : a \in Actors
  /\ \A a \in Actors : a \in Spawners \/ a \in Loose
  /\ NoActor \notin Actors /\ NoName \notin Names
  /\ \A n \in AllNames : n = NoName \/ n \in Names
  /\ NoName \in AllNames /\ \A n \in Names : n \in AllNames
BY DistinctProcs DEF Procs, Closers, Actors, AllNames

LEMMA AppendAt ==
  ASSUME NEW S, NEW q \in Seq(S), NEW x \in S
  PROVE  /\ Append(q, x) \in Seq(S)
         /\ Len(Append(q, x)) = Len(q) + 1 /\ Len(q) \in Nat
         /\ \A i \in 1..Len(q) : Append(q, x)[i] = q[i]
         /\ Append(q, x)[Len(q) + 1] = x
         /\ DOMAIN q = 1..Len(q) /\ DOMAIN Append(q, x) = 1..(Len(q) + 1)
BY AppendProperties, LenProperties

LEMMA TailAt ==
  ASSUME NEW S, NEW q \in Seq(S), q # <<>>
  PROVE  /\ Tail(q) \in Seq(S) /\ Head(q) \in S /\ Head(q) = q[1]
         /\ Len(q) \in Nat \ {0} /\ Len(Tail(q)) = Len(q) - 1
         /\ \A i \in 1..(Len(q) - 1) : Tail(q)[i] = q[i + 1]
<1>1. /\ Head(q) \in S /\ Tail(q) \in Seq(S)
      /\ Len(Tail(q)) = Len(q) - 1
      /\ \A i \in 1..Len(Tail(q)) : Tail(q)[i] = q[i + 1]
  BY HeadTailProperties
<1>2. Head(q) = q[1]
  OBVIOUS
<1>3. Len(q) \in Nat /\ Len(q) # 0
  BY EmptySeq, LenProperties
<1> QED
  BY <1>1, <1>2, <1>3

-----------------------------------------------------------------------------
(* What the parts of actions do                                            *)

\* Only p changes its place, its result or its target.
Elsewhere(p) ==
  \A q \in Procs \ {p} : pc'[q] = pc[q] /\ result'[q] = result[q] /\ target'[q] = target[q]

\* What has started stays so, and no actor that does not run begins to.
Settles ==
  \A a \in Actors : Ready(a) => Ready(a)' /\ (state'[a] = "Started" => state[a] = "Started")

StopsKept == \A a \in Actors : told[a] => told'[a]

Results == {"none", "ok", "err", "notReady", "stopped"}

LocalTypes ==
  /\ pc \in [Procs -> Steps] /\ result \in [Procs -> Results]
  /\ arg \in [Procs -> AllNames] /\ target \in [Procs -> Actors \cup {NoActor}]
  /\ copy \in [Procs -> Seq(Users)]
  /\ \A p \in Procs :
       pc[p] \in {"dispatch", "enqueue", "await", "stop", "awaitStop", "afterStop"} =>
         target[p] \in Actors

LEMMA Locals == TypeOK => LocalTypes
BY DEF TypeOK, LocalTypes, Results

LEMMA GotoEffect ==
  ASSUME TypeOK, NEW p \in Procs, NEW to \in Steps, Goto(p, to)
  PROVE  /\ Elsewhere(p) /\ pc'[p] = to /\ UNCHANGED <<result, arg, target, copy>>
         /\ (to \in {"dispatch", "enqueue", "await", "stop", "awaitStop", "afterStop"} =>
               target[p] \in Actors) => LocalTypes'
BY Locals DEF LocalTypes, Goto, locals, Elsewhere

LEMMA ReturnEffect ==
  ASSUME TypeOK, NEW p \in Procs, NEW r \in Results, Return(p, r)
  PROVE  Elsewhere(p) /\ pc'[p] = "returned" /\ result'[p] = r /\ copy' = copy /\ LocalTypes'
BY Locals, Distinct DEF LocalTypes, Return, Elsewhere, Steps

LEMMA CloserFrame ==
  ASSUME OneCloser, NEW p \in Procs, p \notin Closers, Elsewhere(p),
         stopped => stopped', UNCHANGED <<entries, errs>>
  PROVE  OneCloser'
<1>1. \A s \in Closers : /\ s \in Procs /\ pc'[s] = pc[s]
                         /\ result'[s] = result[s] /\ target'[s] = target[s]
  BY Distinct DEF Elsewhere
<1>2. \A s \in Closers : Closing(s)' <=> Closing(s)
  BY <1>1 DEF Closing
<1> QED
  BY <1>1, <1>2 DEF OneCloser

LEMMA SpawnFrame ==
  ASSUME Spawning, TypeOK, NEW p \in Procs, p \notin Spawners, Elsewhere(p), Settles,
         \A a \in Actors : ~Ready(a) => state'[a] = state[a],
         \A n \in AllNames : actors'[n] # NoActor =>
           Ready(actors'[n]) /\ actors'[n] \in Actors
  PROVE  Spawning'
<1>1. \A q \in Spawners : /\ q \in Actors /\ pc'[q] = pc[q]
                          /\ result'[q] = result[q] /\ target'[q] = target[q]
  BY Distinct DEF Elsewhere
<1>2. \A a \in Actors : Ready(a) => Ready(a)'
  BY DEF Settles
<1>3. \A a \in Actors : state[a] = "Initialized" => state'[a] = "Initialized"
  BY DEF Ready
<1>4. \A a \in Actors : state[a] \notin {"Launched", "Started"} => state'[a] \notin {"Launched", "Started"}
  BY DEF Ready, Settles
<1>5. \A n \in AllNames : actors'[n] # NoActor => state'[actors'[n]] \notin {"Initialized", "Launched"}
  BY <1>2 DEF Ready
<1>6. \A a \in Loose : Ready(a)'
  BY <1>2, Distinct DEF Spawning
<1> QED
  BY <1>1, <1>2, <1>3, <1>4, <1>5, <1>6 DEF Spawning, Ready

LEMMA StoppableFrame ==
  ASSUME Stoppable, UNCHANGED acts, NEW p \in Procs, Elsewhere(p),
         pc'[p] \notin {"awaitStop", "afterStop"}
  PROVE  Stoppable'
<1>1. \A q \in Procs : pc'[q] \in {"awaitStop", "afterStop"} =>
        pc[q] = pc'[q] /\ target'[q] = target[q]
  BY DEF Elsewhere
<1> QED
  BY <1>1 DEF Stoppable, Ready, acts

LEMMA WorkedFrame ==
  ASSUME Worked, TypeOK, Settles, StopsKept, UNCHANGED <<entries, closing, errs>>
  PROVE  Worked'
<1>1. \A i \in 1..Len(closing) :
        closing[i].managed \in Actors /\ Ready(closing[i].managed) /\ Ready(closing[i].managed)'
  BY DEF Worked, Settles
<1>2. Len(closing) \in Nat /\ Len(entries) \in Nat
  BY LenProperties DEF TypeOK, Entries
<1>3. \A i \in 1..(Len(closing) - Len(entries)) : i \in 1..Len(closing)
  BY <1>2
<1>4. \A i \in 1..(Len(closing) - Len(entries)) : Handled(closing[i])'
  BY <1>1, <1>3 DEF Worked, Handled, Settles, StopsKept
<1> QED
  BY <1>1, <1>4 DEF Worked, Ready

\* StopAll is done with the first of its list.
LEMMA WorkedTail ==
  ASSUME Worked, TypeOK, Settles, StopsKept, entries # <<>>, entries' = Tail(entries),
         closing' = closing, errs \subseteq errs',
         told'[entries[1].managed] \/ entries[1].name \in errs'
  PROVE  Worked'
<1> DEFINE d == Len(closing) - Len(entries)
<1>1. /\ Len(closing) \in Nat /\ Len(entries) \in Nat \ {0} /\ Len(entries') = Len(entries) - 1
      /\ \A i \in 1..(Len(entries) - 1) : entries'[i] = entries[i + 1]
  BY TailAt, LenProperties DEF TypeOK, Entries
<1>2. Len(entries) <= Len(closing) /\ \A i \in 1..Len(entries) : entries[i] = closing[i + d]
  BY DEF Worked
<1>3. d \in Nat /\ d + 1 \in 1..Len(closing) /\ Len(closing) - Len(entries') = d + 1
  BY <1>1, <1>2
<1>4. entries[1] = closing[d + 1]
  <2>1. 1 \in 1..Len(entries) /\ 1 + d = d + 1
    BY <1>1, <1>3
  <2> QED
    BY <2>1, <1>2
<1>5. \A i \in 1..Len(entries') : entries'[i] = closing[i + (d + 1)]
  <2> SUFFICES ASSUME NEW i \in 1..Len(entries') PROVE entries'[i] = closing[i + (d + 1)]
    OBVIOUS
  <2>1. i \in 1..(Len(entries) - 1) /\ i + 1 \in 1..Len(entries) /\ (i + 1) + d = i + (d + 1)
    BY <1>1, <1>3
  <2> QED
    BY <2>1, <1>1, <1>2
<1>6. \A i \in 1..Len(closing) :
        closing[i].managed \in Actors /\ Ready(closing[i].managed) /\ Ready(closing[i].managed)'
  BY DEF Worked, Settles
<1>7. \A i \in 1..d : i \in 1..Len(closing) /\ Handled(closing[i])
  <2>1. \A i \in 1..d : i \in 1..Len(closing)
    BY <1>1, <1>3
  <2> QED
    BY <2>1 DEF Worked
<1>8. \A i \in 1..d : Handled(closing[i])'
  BY <1>6, <1>7 DEF Handled, Settles, StopsKept
<1>9. \A i \in 1..(d + 1) : Handled(closing[i])'
  <2>1. \A i \in 1..(d + 1) : i \in 1..d \/ i = d + 1
    BY <1>3
  <2> QED
    BY <2>1, <1>8, <1>4 DEF Handled
<1>10. Len(entries') <= Len(closing)
  BY <1>1, <1>2
<1> QED
  BY <1>3, <1>5, <1>6, <1>9, <1>10 DEF Worked, Ready, Handled

-----------------------------------------------------------------------------
(* The registry                                                            *)

LEMMA BindEffect ==
  ASSUME TypeOK, RegistryConsistent, NEW n \in AllNames, NEW a \in Actors,
         Registrable(n), Bind(n, a)
  PROVE  /\ RegistryConsistent' /\ order' \in Seq(AllNames)
         /\ actors' \in [AllNames -> Actors \cup {NoActor}] /\ freed' \subseteq Actors
         /\ \A k \in AllNames : actors'[k] = IF k = n THEN a ELSE actors[k]
         /\ DOMAIN order = 1..Len(order) /\ DOMAIN order' = 1..(Len(order) + 1)
         /\ \A i \in DOMAIN order : order'[i] = order[i] /\ order[i] # n
         /\ order'[Len(order) + 1] = n /\ Len(order) \in Nat
<1>1. /\ order \in Seq(AllNames) /\ n # NoName /\ a # NoActor
      /\ \A k \in AllNames : actors'[k] = IF k = n THEN a ELSE actors[k]
      /\ actors' \in [AllNames -> Actors \cup {NoActor}] /\ freed' \subseteq Actors
  BY Distinct DEF TypeOK, Registrable, Bind
<1>2. /\ order' \in Seq(AllNames) /\ Len(order) \in Nat
      /\ \A i \in 1..Len(order) : order'[i] = order[i]
      /\ order'[Len(order) + 1] = n
      /\ DOMAIN order = 1..Len(order) /\ DOMAIN order' = 1..(Len(order) + 1)
  BY <1>1, AppendAt DEF Bind
<1>3. \A i \in DOMAIN order' : i \in DOMAIN order \/ i = Len(order) + 1
  BY <1>2
<1>4. \A i \in DOMAIN order : i \in DOMAIN order' /\ order'[i] = order[i] /\ order[i] # n
  BY <1>2 DEF RegistryConsistent, Registrable
<1>5. Len(order) + 1 \in DOMAIN order'
  BY <1>2
<1>6. \A i, j \in DOMAIN order' : order'[i] = order'[j] /\ order'[i] # NoName => i = j
  BY <1>2, <1>3, <1>4 DEF RegistryConsistent
<1>7. ASSUME NEW k \in AllNames
      PROVE  actors'[k] # NoActor <=> k # NoName /\ \E i \in DOMAIN order' : order'[i] = k
  <2>1. CASE k = n
    BY <2>1, <1>1, <1>2, <1>5
  <2>2. CASE k # n
    <3>1. (\E i \in DOMAIN order' : order'[i] = k) <=> \E i \in DOMAIN order : order[i] = k
      BY <2>2, <1>2, <1>3, <1>4
    <3> QED
      BY <2>2, <3>1, <1>1 DEF RegistryConsistent
  <2> QED
    BY <2>1, <2>2
<1> QED
  BY <1>1, <1>2, <1>4, <1>6, <1>7 DEF RegistryConsistent

LEMMA TombstoneEffect ==
  ASSUME TypeOK, RegistryConsistent, NEW n \in AllNames, actors[n] # NoActor,
         actors' = [actors EXCEPT ![n] = NoActor], order' = Tombstone(n)
  PROVE  /\ RegistryConsistent' /\ order' \in Seq(AllNames) /\ n # NoName
         /\ DOMAIN order' = DOMAIN order
         /\ \A i \in DOMAIN order : order'[i] = IF order[i] = n THEN NoName ELSE order[i]
<1>1. n # NoName /\ order \in Seq(AllNames)
      /\ \A k \in AllNames : actors'[k] = IF k = n THEN NoActor ELSE actors[k]
  BY DEF TypeOK, RegistryConsistent
<1>2. \A i \in DOMAIN order : \A j \in {k \in DOMAIN order : order[k] = n} :
        order[i] = n => i = j
  BY <1>1 DEF RegistryConsistent
<1>3. DOMAIN order = 1..Len(order) /\ Len(order) \in Nat
  BY <1>1, LenProperties
<1>4. \A i \in DOMAIN order : i <= i
  BY <1>3
<1>5. /\ DOMAIN order' = DOMAIN order
      /\ \A i \in DOMAIN order : order'[i] = IF order[i] = n THEN NoName ELSE order[i]
  BY <1>2, <1>4 DEF Tombstone
<1>6. order' \in Seq(AllNames)
  <2>1. \A i \in 1..Len(order) : order'[i] \in AllNames
    BY <1>1, <1>3, <1>5, Distinct, ElementOfSeq
  <2>2. order' = [i \in 1..Len(order) |-> order'[i]]
    BY <1>3 DEF Tombstone
  <2> QED
    BY <2>1, <2>2, <1>3, IsASeq
<1>7. \A i, j \in DOMAIN order' : order'[i] = order'[j] /\ order'[i] # NoName => i = j
  BY <1>5 DEF RegistryConsistent
<1>8. ASSUME NEW k \in AllNames
      PROVE  actors'[k] # NoActor <=> k # NoName /\ \E i \in DOMAIN order' : order'[i] = k
  BY <1>1, <1>5 DEF RegistryConsistent
<1> QED
  BY <1>1, <1>5, <1>6, <1>7, <1>8 DEF RegistryConsistent

LEMMA SlotsType ==
  ASSUME TypeOK
  PROVE  /\ Numbers(Slots) /\ Cardinality(Slots) \in Nat
         /\ \A i \in Slots : Entry(i) \in [name : Names, managed : Actors]
<1>1. order \in Seq(AllNames) /\ Len(order) \in Nat /\ DOMAIN order = 1..Len(order)
  BY LenProperties DEF TypeOK
<1>2. Slots \subseteq 1..Len(order)
  BY <1>1 DEF Slots
<1>3. IsFiniteSet(1..Len(order)) /\ 1..Len(order) \subseteq Nat
  BY <1>1, FS_Interval
<1>4. Numbers(Slots) /\ Cardinality(Slots) \in Nat
  BY <1>2, <1>3, FS_Subset, FS_CardinalityType DEF Numbers
<1>5. ASSUME NEW i \in Slots PROVE Entry(i) \in [name : Names, managed : Actors]
  <2>1. order[i] \in AllNames /\ order[i] # NoName /\ actors[order[i]] # NoActor
    BY <1>1, <1>5, ElementOfSeq DEF Slots
  <2>2. order[i] \in Names /\ actors[order[i]] \in Actors
    BY <2>1, Distinct DEF TypeOK
  <2> QED
    BY <2>2 DEF Entry
<1> QED
  BY <1>4, <1>5

\* The list has an entry for each slot, the last slot first.
LEMMA SnapshotEffect ==
  ASSUME TypeOK
  PROVE  /\ Snapshot \in Entries /\ Len(Snapshot) = Cardinality(Slots)
         /\ Cardinality(Slots) \in Nat
         /\ \A k \in 1..Cardinality(Slots) : \E i \in Slots : Snapshot[k] = Entry(i)
         /\ \A i \in Slots : \E k \in 1..Cardinality(Slots) : Snapshot[k] = Entry(i)
<1> DEFINE c == Cardinality(Slots)
<1>1. Numbers(Slots) /\ c \in Nat /\ \A i \in Slots : Entry(i) \in [name : Names, managed : Actors]
  BY SlotsType
<1>2. Snapshot = [k \in 1..c |-> Entry(Nth(Slots, c - k + 1))]
  BY DEF Snapshot
<1> HIDE DEF c
<1>3. \A k \in 1..c : c - k + 1 \in 1..c /\ c - (c - k + 1) + 1 = k
  BY <1>1
<1>4. \A k \in 1..c : Nth(Slots, k) \in Slots
  BY <1>1, NthIn DEF c
<1>5. \A i \in Slots : Rank(Slots, i) \in 1..c /\ Nth(Slots, Rank(Slots, i)) = i
  BY <1>1, RankType, NthRank DEF c
<1>6. \A k \in 1..c : Snapshot[k] = Entry(Nth(Slots, c - k + 1))
  BY <1>2
<1>7. ASSUME NEW i \in Slots PROVE \E k \in 1..c : Snapshot[k] = Entry(i)
  <2> DEFINE k == c - Rank(Slots, i) + 1
  <2>1. k \in 1..c /\ c - k + 1 = Rank(Slots, i)
    BY <1>3, <1>5
  <2> QED
    BY <1>5, <1>6, <2>1
<1>8. Snapshot \in Seq([name : Names, managed : Actors]) /\ Len(Snapshot) = c
  <2>1. Snapshot \in [1..c -> [name : Names, managed : Actors]]
    BY <1>1, <1>2, <1>3, <1>4
  <2>2. Snapshot \in Seq([name : Names, managed : Actors])
    <3> DEFINE R == [name : Names, managed : Actors]
    <3>1. \E n \in Nat : Snapshot \in [1..n -> R]
      BY <1>1, <2>1
    <3> HIDE DEF R
    <3>2. Snapshot \in Seq(R)
      BY <3>1, SeqDef
    <3> QED
      BY <3>2 DEF R
  <2>3. Len(Snapshot) \in Nat /\ 1..Len(Snapshot) = 1..c
    BY <2>1, <2>2, LenProperties
  <2> QED
    BY <1>1, <2>2, <2>3
<1> QED
  BY <1>1, <1>3, <1>4, <1>6, <1>7, <1>8 DEF c, Entries

\* The first of the list is an actor that has started.
LEMMA FirstEntry ==
  ASSUME TypeOK, Worked, entries # <<>>
  PROVE  /\ entries[1] = Head(entries) /\ Tail(entries) \in Entries
         /\ entries[1].name \in Names
         /\ entries[1].managed \in Actors /\ Ready(entries[1].managed)
<1>1. entries \in Entries /\ closing \in Entries
  BY DEF TypeOK
<1>2. /\ Tail(entries) \in Entries /\ Head(entries) = entries[1] /\ Len(entries) \in Nat \ {0}
      /\ Head(entries) \in [name : Names, managed : Actors]
  BY <1>1, TailAt DEF Entries
<1>3. Len(closing) \in Nat
  BY <1>1, LenProperties DEF Entries
<1>4. 1 \in 1..Len(entries) /\ 1 + (Len(closing) - Len(entries)) \in 1..Len(closing)
  BY <1>2, <1>3 DEF Worked
<1>5. entries[1] = closing[1 + (Len(closing) - Len(entries))]
  BY <1>4 DEF Worked
<1> QED
  BY <1>2, <1>4, <1>5 DEF Worked

\* What a Stop that returns does for its caller.
LEMMA AfterStopEffect ==
  ASSUME IInv, NEW p \in Procs, NEW failed \in BOOLEAN, pc[p] \in {"stop", "afterStop"},
         AfterStop(p, failed)
  PROVE  /\ Elsewhere(p) /\ LocalTypes' /\ closing' = closing
         /\ entries' \in Entries /\ errs' \subseteq Names /\ errs \subseteq errs'
         /\ p \in Closers =>
              /\ entries # <<>> /\ target[p] = entries[1].managed
              /\ entries' = Tail(entries) /\ pc'[p] = "emit" /\ result'[p] = result[p]
              /\ failed => entries[1].name \in errs'
         /\ p \notin Closers =>
              /\ entries' = entries /\ errs' = errs /\ pc'[p] = "returned"
              /\ p \in Spawners => result'[p] = result[p]
<1>1. TypeOK /\ OneCloser /\ Worked /\ Spawning
  BY DEF IInv
<1>2. CASE p \in Closers
  <2>1. entries # <<>> /\ target[p] = entries[1].managed
    BY <1>1, <1>2 DEF OneCloser
  <2>2. entries[1] = Head(entries) /\ Tail(entries) \in Entries /\ entries[1].name \in Names
    BY <1>1, <2>1, FirstEntry
  <2>3. Goto(p, "emit") /\ errs' = Errors(failed) /\ entries' = Tail(entries) /\ closing' = closing
    BY <1>2 DEF AfterStop
  <2>4. "emit" \in Steps
    BY DEF Steps
  <2>5. Elsewhere(p) /\ LocalTypes' /\ pc'[p] = "emit" /\ result' = result
    BY <1>1, <2>3, <2>4, GotoEffect
  <2>6. errs' \subseteq Names /\ errs \subseteq errs' /\ (failed => entries[1].name \in errs')
    BY <1>1, <2>2, <2>3 DEF Errors, TypeOK
  <2> QED
    BY <1>2, <2>1, <2>2, <2>3, <2>5, <2>6
<1>3. CASE p \notin Closers
  <2> DEFINE r == IF p \in Spawners THEN result[p] ELSE IF failed THEN "err" ELSE "ok"
  <2>1. Return(p, r) /\ UNCHANGED stopAll
    BY <1>3 DEF AfterStop
  <2>2. r \in Results
    BY <1>1, Locals DEF LocalTypes, Results
  <2>3. Elsewhere(p) /\ LocalTypes' /\ pc'[p] = "returned" /\ result'[p] = r
    BY <1>1, <2>1, <2>2, ReturnEffect
  <2> QED
    BY <1>1, <1>3, <2>1, <2>3 DEF stopAll, TypeOK
<1> QED
  BY <1>2, <1>3

\* What the calls of a user do to the user.
LEMMA UserEffect ==
  ASSUME IInv, NEW u \in Users,
         \/ Dispatch(u) \/ Enqueue(u) \/ EnqueueStopped(u) \/ EnqueueGivesUp(u)
         \/ \E n \in AllNames : \E to \in {"dispatch", "stop"} : Lookup(u, n, to)
  PROVE  u \in Procs /\ Elsewhere(u) /\ LocalTypes' /\ UNCHANGED world
<1>1. TypeOK /\ u \in Procs /\ {"enqueue", "await", "dispatch", "stop"} \subseteq Steps /\ {"ok", "err"} \subseteq Results
  BY Distinct DEF IInv, Steps, Results
<1>2. CASE Dispatch(u)
  <2>1. target[u] \in Actors
    BY <1>1, <1>2 DEF TypeOK, Dispatch
  <2> QED
    BY <1>1, <1>2, <2>1, GotoEffect, ReturnEffect DEF Dispatch
<1>3. CASE Enqueue(u) \/ EnqueueStopped(u) \/ EnqueueGivesUp(u)
  <2>1. pc[u] = "enqueue" /\ target[u] \in Actors
    BY <1>1, <1>3 DEF TypeOK, Enqueue, EnqueueStopped, EnqueueGivesUp
  <2>2. /\ Goto(u, "await") \/ Return(u, "ok") \/ Return(u, "err")
        /\ UNCHANGED world
    BY <1>3 DEF Enqueue, EnqueueStopped, EnqueueGivesUp
  <2> QED
    BY <1>1, <2>1, <2>2, GotoEffect, ReturnEffect
<1>4. ASSUME NEW n \in AllNames, NEW to \in {"dispatch", "stop"}, Lookup(u, n, to)
      PROVE  Elsewhere(u) /\ LocalTypes' /\ UNCHANGED world
  <2>1. CASE ~stopped /\ actors[n] # NoActor
    <3>1. actors[n] \in Actors
      BY <1>1, <2>1 DEF TypeOK
    <3>2. /\ pc' = [pc EXCEPT ![u] = to] /\ target' = [target EXCEPT ![u] = actors[n]]
          /\ UNCHANGED <<result, arg, copy>>
      BY <1>4, <2>1 DEF Lookup
    <3>3. Elsewhere(u)
      BY <1>1, <3>2, Locals DEF LocalTypes, Elsewhere
    <3>4. LocalTypes'
      BY <1>1, <3>1, <3>2, Locals DEF LocalTypes
    <3> QED
      BY <1>4, <3>3, <3>4 DEF Lookup
  <2>2. CASE ~(~stopped /\ actors[n] # NoActor)
    BY <1>1, <1>4, <2>2, ReturnEffect DEF Lookup
  <2> QED
    BY <2>1, <2>2
<1> QED
  BY <1>1, <1>2, <1>3, <1>4

\* A step that changes nothing but the place and the locals of a call.
LEMMA WorldKept == TypeOK /\ LocalTypes' /\ UNCHANGED world => TypeOK'
BY DEF TypeOK, LocalTypes, Results, world, registry, acts, stopAll, rest

LEMMA NothingMoves == ASSUME IInv, UNCHANGED world PROVE Settles /\ StopsKept
BY DEF Settles, StopsKept, Ready, world, acts

-----------------------------------------------------------------------------
(* Each action preserves IInv                                              *)

LEMMA SpawnStartsInv ==
  ASSUME IInv, NEW p \in Spawners, NEW n \in AllNames, SpawnStarts(p, n) PROVE IInv'
<1>1. TypeOK'
  <2>1. TypeOK /\ p \in Procs /\ p \in Actors /\ "waitReady" \in Steps /\ "err" \in Results
    BY Distinct DEF IInv, Steps, Results
  <2>2. CASE Return(p, "err") /\ UNCHANGED <<state, alive>>
    <3>1. LocalTypes'
      BY <2>1, <2>2, ReturnEffect
    <3> QED
      BY <2>1, <2>2, <3>1 DEF TypeOK, LocalTypes, Results, SpawnStarts, registry, stopAll, rest
  <2>3. CASE ~(Return(p, "err") /\ UNCHANGED <<state, alive>>)
    <3>1. /\ pc' = [pc EXCEPT ![p] = "waitReady"] /\ arg' = [arg EXCEPT ![p] = n]
          /\ target' = [target EXCEPT ![p] = p] /\ UNCHANGED <<result, copy>>
          /\ state' = [state EXCEPT ![p] = "Launched"] /\ alive' = [alive EXCEPT ![p] = TRUE]
      BY <2>3 DEF SpawnStarts, SetState
    <3>2. LocalTypes'
      BY <2>1, <3>1, Locals DEF LocalTypes
    <3>3. state' \in [Actors -> ActorStates] /\ alive' \in [Actors -> BOOLEAN]
      BY <2>1, <3>1 DEF TypeOK, ActorStates
    <3> QED
      BY <2>1, <3>2, <3>3 DEF TypeOK, LocalTypes, Results, SpawnStarts, registry, stopAll, rest
  <2> QED
    BY <2>2, <2>3
<1>2. RegistryConsistent'
  BY DEF IInv, RegistryConsistent, SpawnStarts, SetState, Idle, Return, registry,
     stopAll, rest
<1>3. OneCloser'
  <2>1. p \in Procs /\ p \notin Closers /\ UNCHANGED <<told, stopAll, stopped>>
    BY Distinct DEF SpawnStarts, registry
  <2>2. Elsewhere(p)
    BY <2>1 DEF IInv, TypeOK, SpawnStarts, Return, Elsewhere
  <2>3. StopsKept
    BY <2>1 DEF StopsKept
  <2> QED
    BY <2>1, <2>2, <2>3, CloserFrame DEF IInv, stopAll
<1>4. Worked'
  <2>1. state[p] = "Initialized" /\ p \in Actors
    BY Distinct DEF IInv, Spawning, SpawnStarts, Idle
  <2>2. Settles
    BY <2>1 DEF IInv, TypeOK, Settles, Ready, SpawnStarts, SetState
  <2>3. StopsKept
    BY DEF StopsKept, SpawnStarts
  <2> QED
    BY <2>2, <2>3, WorkedFrame DEF IInv, SpawnStarts, stopAll
<1>5. Owned'
  BY DEF IInv, Owned, SpawnStarts, SetState, Idle, Return, registry, stopAll, rest
<1>6. Spawning'
  <2>1. TypeOK /\ Spawning /\ p \in Procs /\ p \in Actors /\ p \notin Loose /\ state[p] = "Initialized"
    BY Distinct DEF IInv, Spawning, SpawnStarts, Idle
  <2>2. /\ Elsewhere(p) /\ actors' = actors
        /\ \A a \in Actors : a # p => state'[a] = state[a]
        /\ \/ pc'[p] = "returned" /\ result'[p] = "err" /\ state'[p] = "Initialized"
           \/ pc'[p] = "waitReady" /\ target'[p] = p /\ state'[p] = "Launched"
    BY <2>1 DEF TypeOK, SpawnStarts, Return, Elsewhere, SetState, registry
  <2>3. \A k \in AllNames : actors[k] # NoActor => actors[k] \in Actors /\ actors[k] # p
    BY <2>1 DEF TypeOK, Spawning, Ready
  <2> QED
    BY <2>1, <2>2, <2>3, Distinct DEF Spawning, Ready, Elsewhere
<1>7. Stoppable'
  <2>1. TypeOK /\ Stoppable /\ p \in Procs /\ p \in Actors /\ state[p] = "Initialized"
    BY Distinct DEF IInv, Spawning, SpawnStarts, Idle
  <2>2. /\ Elsewhere(p) /\ pc'[p] \notin {"awaitStop", "afterStop"} /\ told' = told
        /\ \A a \in Actors : a # p => state'[a] = state[a] /\ alive'[a] = alive[a]
        /\ state'[p] = "Launched" \/ (state'[p] = state[p] /\ alive'[p] = alive[p])
    BY <2>1 DEF TypeOK, SpawnStarts, Return, Elsewhere, SetState
  <2>3. ASSUME NEW q \in Procs, pc'[q] \in {"awaitStop", "afterStop"}
        PROVE  Ready(target[q])' /\ told'[target'[q]]
    <3>1. q # p /\ pc[q] \in {"awaitStop", "afterStop"} /\ target'[q] = target[q]
      BY <2>2, <2>3 DEF Elsewhere
    <3>2. target[q] \in Actors /\ Ready(target[q]) /\ told[target[q]]
      BY <2>1, <3>1 DEF TypeOK, Stoppable
    <3> QED
      BY <2>1, <2>2, <3>1, <3>2 DEF Ready
  <2>4. \A a \in Actors : /\ state'[a] \in {"Stopping", "Stopped"} => told'[a]
                          /\ told'[a] => state'[a] \in {"Stopping", "Stopped", "Failed"}
                          /\ state'[a] = "Initialized" => ~alive'[a]
    BY <2>1, <2>2 DEF Stoppable
  <2> QED
    BY <2>3, <2>4 DEF Stoppable, Ready
<1> QED
  BY <1>1, <1>2, <1>3, <1>4, <1>5, <1>6, <1>7 DEF IInv

LEMMA SpawnWaitsInv ==
  ASSUME IInv, NEW p \in Spawners, SpawnWaits(p) PROVE IInv'
<1>1. TypeOK'
  <2>1. TypeOK /\ p \in Procs /\ {"register", "stop"} \subseteq Steps /\ "notReady" \in Results /\ target[p] \in Actors
    BY Distinct DEF IInv, Spawning, Steps, Results, SpawnWaits
  <2>2. CASE Goto(p, "register")
    BY <2>1, <2>2, GotoEffect, WorldKept DEF SpawnWaits
  <2>3. CASE pc' = [pc EXCEPT ![p] = "stop"] /\ result' = [result EXCEPT ![p] = "notReady"] /\ UNCHANGED locals
    <3>1. LocalTypes'
      BY <2>1, <2>3, Locals DEF LocalTypes, locals
    <3> QED
      BY <2>1, <3>1, WorldKept DEF SpawnWaits
  <2> QED
    BY <2>2, <2>3 DEF SpawnWaits
<1>2. RegistryConsistent'
  BY DEF IInv, RegistryConsistent, SpawnWaits, Goto, registry, acts, stopAll,
     locals, rest, world
<1>3. OneCloser'
  <2>1. p \in Procs /\ p \notin Closers /\ UNCHANGED world
    BY Distinct DEF SpawnWaits
  <2>2. Elsewhere(p)
    BY <2>1 DEF IInv, TypeOK, SpawnWaits, Goto, Elsewhere, locals
  <2> QED
    BY <2>1, <2>2, CloserFrame, NothingMoves DEF IInv, world, registry, stopAll
<1>4. Worked'
  BY DEF IInv, Worked, Handled, Ready, SpawnWaits, Goto, registry, acts, stopAll,
     locals, rest, world
<1>5. Owned'
  BY DEF IInv, Owned, SpawnWaits, Goto, registry, acts, stopAll, locals, rest,
     world
<1>6. Spawning'
  <2>1. TypeOK /\ Spawning /\ p \in Procs /\ target[p] = p /\ pc[p] = "waitReady"
    BY Distinct DEF IInv, Spawning, SpawnWaits
  <2>2. /\ Elsewhere(p) /\ target' = target /\ UNCHANGED world
        /\ \/ pc'[p] = "register" /\ state[p] # "Launched"
           \/ pc'[p] = "stop" /\ result'[p] = "notReady"
    BY <2>1 DEF TypeOK, SpawnWaits, Goto, Elsewhere, locals
  <2>3. pc'[p] = "register" => Ready(p)
    BY <2>1, <2>2 DEF Spawning, Ready
  <2> QED
    BY <2>1, <2>2, <2>3, Distinct DEF Spawning, Ready, Elsewhere, world, registry, acts
<1>7. Stoppable'
  BY DEF IInv, TypeOK, Stoppable, Ready, SpawnWaits, Goto, registry, acts, stopAll,
     locals, rest, world
<1> QED
  BY <1>1, <1>2, <1>3, <1>4, <1>5, <1>6, <1>7 DEF IInv

LEMMA SpawnRegistersInv ==
  ASSUME IInv, NEW p \in Spawners, SpawnRegisters(p) PROVE IInv'
<1>1. TypeOK'
  <2>1. TypeOK /\ p \in Procs /\ p \in Actors /\ {"emit", "stop"} \subseteq Steps
        /\ {"ok", "err"} \subseteq Results /\ arg[p] \in AllNames /\ target[p] \in Actors
    BY Distinct DEF IInv, TypeOK, Spawning, Steps, Results, SpawnRegisters
  <2>2. LocalTypes'
    BY <2>1, Locals DEF LocalTypes, SpawnRegisters, locals
  <2>3. /\ order' \in Seq(AllNames) /\ actors' \in [AllNames -> Actors \cup {NoActor}]
        /\ freed' \subseteq Actors /\ stopped' = stopped
    BY <2>1, BindEffect DEF IInv, TypeOK, SpawnRegisters, registry, Bind
  <2> QED
    BY <2>1, <2>2, <2>3 DEF TypeOK, LocalTypes, Results, SpawnRegisters, acts, stopAll, rest
<1>2. RegistryConsistent'
  <2>1. CASE Registrable(arg[p])
    <3>1. TypeOK /\ RegistryConsistent /\ p \in Actors /\ arg[p] \in AllNames
      BY Distinct DEF IInv, TypeOK
    <3> QED
      BY <2>1, <3>1, BindEffect DEF SpawnRegisters
  <2>2. CASE ~Registrable(arg[p])
    BY <2>2 DEF IInv, RegistryConsistent, SpawnRegisters, registry
  <2> QED
    BY <2>1, <2>2
<1>3. OneCloser'
  <2>1. p \in Procs /\ p \notin Closers /\ UNCHANGED <<acts, stopAll, stopped>>
    BY Distinct DEF SpawnRegisters, Bind, registry
  <2>2. Elsewhere(p)
    BY <2>1 DEF IInv, TypeOK, SpawnRegisters, Elsewhere, locals
  <2>3. StopsKept
    BY <2>1 DEF StopsKept, acts
  <2> QED
    BY <2>1, <2>2, <2>3, CloserFrame DEF IInv, stopAll
<1>4. Worked'
  BY DEF IInv, Worked, Handled, Ready, SpawnRegisters, Registrable, Bind, registry,
     acts, stopAll, locals, rest
<1>5. Owned'
  BY Distinct DEF IInv, Owned, TypeOK, SpawnRegisters, Registrable, Bind, registry,
     acts, stopAll, locals, rest
<1>6. Spawning'
  <2>1. TypeOK /\ Spawning /\ p \in Procs /\ p \in Actors /\ target[p] = p /\ Ready(p)
        /\ arg[p] \in AllNames
    BY Distinct DEF IInv, TypeOK, Spawning, SpawnRegisters
  <2>2. /\ Elsewhere(p) /\ target' = target /\ state' = state
        /\ pc'[p] = "emit" \/ (pc'[p] = "stop" /\ result'[p] = "err")
    BY <2>1 DEF TypeOK, SpawnRegisters, Elsewhere, locals, acts
  <2>3. \A n \in AllNames : actors'[n] # NoActor => Ready(actors'[n])
    BY <2>1, BindEffect DEF IInv, Spawning, SpawnRegisters, registry
  <2> QED
    BY <2>1, <2>2, <2>3, Distinct DEF Spawning, Ready, Elsewhere
<1>7. Stoppable'
  BY DEF IInv, TypeOK, Stoppable, Ready, SpawnRegisters, Registrable, Bind,
     registry, acts, stopAll, locals, rest
<1> QED
  BY <1>1, <1>2, <1>3, <1>4, <1>5, <1>6, <1>7 DEF IInv

LEMMA OnEventInv ==
  ASSUME IInv, NEW u \in Users, OnEvent(u) PROVE IInv'
<1>1. TypeOK'
  BY Distinct DEF IInv, TypeOK, Steps, ActorStates, OnEvent, Idle, Return, Added,
     registry, acts, stopAll
<1>2. RegistryConsistent'
  BY DEF IInv, RegistryConsistent, OnEvent, Idle, Return, Added, registry, acts,
     stopAll
<1>3. OneCloser'
  BY Distinct DEF IInv, TypeOK, OneCloser, Closing, Busy, OnEvent, Idle, Return,
     Added, registry, acts, stopAll
<1>4. Worked'
  BY DEF IInv, Worked, Handled, Ready, OnEvent, Idle, Return, Added, registry,
     acts, stopAll
<1>5. Owned'
  BY DEF IInv, Owned, OnEvent, Idle, Return, Added, registry, acts, stopAll
<1>6. Spawning'
  BY Distinct DEF IInv, TypeOK, Spawning, Ready, OnEvent, Idle, Return, Added,
     registry, acts, stopAll
<1>7. Stoppable'
  BY DEF IInv, TypeOK, Stoppable, Ready, OnEvent, Idle, Return, Added, registry,
     acts, stopAll
<1> QED
  BY <1>1, <1>2, <1>3, <1>4, <1>5, <1>6, <1>7 DEF IInv

LEMMA UserRegistersInv ==
  ASSUME IInv, NEW u \in Users, NEW n \in AllNames, NEW a \in Refs \cup {NoActor}, UserRegisters(u, n, a)
  PROVE  IInv'
<1>1. TypeOK'
  <2>1. TypeOK /\ u \in Procs /\ {"ok", "err"} \subseteq Results
    BY Distinct DEF IInv, Results
  <2>2. LocalTypes'
    BY <2>1, ReturnEffect DEF UserRegisters
  <2>3. a # NoActor => a \in Actors
    BY Distinct DEF Refs
  <2>4. /\ order' \in Seq(AllNames) /\ actors' \in [AllNames -> Actors \cup {NoActor}]
        /\ freed' \subseteq Actors /\ stopped' = stopped
    BY <2>1, <2>3, BindEffect DEF IInv, TypeOK, UserRegisters, registry, Bind
  <2> QED
    BY <2>1, <2>2, <2>4 DEF TypeOK, LocalTypes, Results, UserRegisters, acts, stopAll, rest
<1>2. RegistryConsistent'
  <2>1. CASE a # NoActor /\ Registrable(n)
    <3>1. TypeOK /\ RegistryConsistent /\ a \in Actors
      BY <2>1, Distinct DEF IInv, Refs
    <3> QED
      BY <2>1, <3>1, BindEffect DEF UserRegisters
  <2>2. CASE ~(a # NoActor /\ Registrable(n))
    BY <2>2 DEF IInv, RegistryConsistent, UserRegisters, registry
  <2> QED
    BY <2>1, <2>2
<1>3. OneCloser'
  <2>1. u \in Procs /\ u \notin Closers /\ UNCHANGED <<acts, stopAll, stopped>>
    BY Distinct DEF UserRegisters, Bind, registry
  <2>2. Elsewhere(u)
    BY <2>1 DEF IInv, TypeOK, UserRegisters, Return, Elsewhere
  <2>3. StopsKept
    BY <2>1 DEF StopsKept, acts
  <2> QED
    BY <2>1, <2>2, <2>3, CloserFrame DEF IInv, stopAll
<1>4. Worked'
  BY DEF IInv, Worked, Handled, Ready, UserRegisters, Idle, Return, Registrable,
     Bind, registry, acts, stopAll, rest
<1>5. Owned'
  BY Distinct DEF IInv, Owned, TypeOK, UserRegisters, Idle, Return, Registrable,
     Bind, registry, acts, stopAll, rest
<1>6. Spawning'
  <2>1. TypeOK /\ Spawning /\ u \in Procs /\ u \notin Spawners /\ state' = state
    BY Distinct DEF IInv, UserRegisters, acts
  <2>2. a # NoActor => a \in Actors /\ Ready(a)
    BY <2>1, Distinct DEF Refs, Spawning
  <2>3. \A k \in AllNames : actors'[k] # NoActor => Ready(actors'[k]) /\ actors'[k] \in Actors
    <3>1. \A k \in AllNames : actors[k] # NoActor => Ready(actors[k]) /\ actors[k] \in Actors
      BY <2>1 DEF TypeOK, Spawning
    <3>2. CASE a # NoActor /\ Registrable(n)
      <4>1. \A k \in AllNames : actors'[k] = IF k = n THEN a ELSE actors[k]
        BY <2>2, <3>2, BindEffect DEF IInv, UserRegisters
      <4> QED
        BY <2>2, <3>1, <3>2, <4>1
    <3>3. CASE ~(a # NoActor /\ Registrable(n))
      BY <3>1, <3>3 DEF UserRegisters, registry
    <3> QED
      BY <3>2, <3>3
  <2>4. Elsewhere(u) /\ Settles
    BY <2>1 DEF TypeOK, UserRegisters, Return, Elsewhere, Settles, Ready
  <2> QED
    BY <2>1, <2>3, <2>4, SpawnFrame
<1>7. Stoppable'
  <2>1. TypeOK /\ u \in Procs
    BY Distinct DEF IInv
  <2>2. Elsewhere(u) /\ pc'[u] = "returned" /\ UNCHANGED acts
    BY <2>1 DEF TypeOK, UserRegisters, Return, Elsewhere
  <2> QED
    BY <2>1, <2>2, StoppableFrame DEF IInv
<1> QED
  BY <1>1, <1>2, <1>3, <1>4, <1>5, <1>6, <1>7 DEF IInv

LEMMA UnregisterInv ==
  ASSUME IInv, NEW u \in Users, NEW n \in AllNames, Unregister(u, n) PROVE IInv'
<1>1. TypeOK'
  <2>1. TypeOK /\ u \in Procs /\ {"ok", "err"} \subseteq Results
    BY Distinct DEF IInv, Results
  <2>2. LocalTypes'
    BY <2>1, ReturnEffect DEF Unregister
  <2>3. /\ order' \in Seq(AllNames) /\ actors' \in [AllNames -> Actors \cup {NoActor}]
        /\ freed' \subseteq Actors /\ stopped' = stopped
    <3>1. CASE ~stopped /\ actors[n] # NoActor
      <4>1. order' \in Seq(AllNames)
        BY <3>1, TombstoneEffect DEF IInv, Unregister
      <4>2. actors[n] \in Actors /\ freed \subseteq Actors /\ actors \in [AllNames -> Actors \cup {NoActor}]
        BY <2>1, <3>1 DEF TypeOK
      <4>3. actors' = [actors EXCEPT ![n] = NoActor] /\ stopped' = stopped
        BY <3>1 DEF Unregister
      <4>4. freed' = freed \/ freed' = freed \cup {actors[n]}
        BY <3>1 DEF Unregister
      <4> QED
        BY <4>1, <4>2, <4>3, <4>4
    <3>2. CASE ~(~stopped /\ actors[n] # NoActor)
      BY <2>1, <3>2 DEF TypeOK, Unregister, registry
    <3> QED
      BY <3>1, <3>2
  <2> QED
    BY <2>1, <2>2, <2>3 DEF TypeOK, LocalTypes, Results, Unregister, acts, stopAll, rest
<1>2. RegistryConsistent'
  <2>1. CASE ~stopped /\ actors[n] # NoActor
    BY <2>1, TombstoneEffect DEF IInv, Unregister
  <2>2. CASE ~(~stopped /\ actors[n] # NoActor)
    BY <2>2 DEF IInv, RegistryConsistent, Unregister, registry
  <2> QED
    BY <2>1, <2>2
<1>3. OneCloser'
  <2>1. u \in Procs /\ u \notin Closers /\ UNCHANGED <<acts, stopAll, stopped>>
    BY Distinct DEF Unregister, registry
  <2>2. Elsewhere(u)
    BY <2>1 DEF IInv, TypeOK, Unregister, Return, Elsewhere
  <2>3. StopsKept
    BY <2>1 DEF StopsKept, acts
  <2> QED
    BY <2>1, <2>2, <2>3, CloserFrame DEF IInv, stopAll
<1>4. Worked'
  BY DEF IInv, Worked, Handled, Ready, Unregister, Idle, Return, Tombstone,
     registry, acts, stopAll, rest
<1>5. Owned'
  <2>1. CASE ~stopped /\ actors[n] # NoActor
    <3>1. /\ \A k \in AllNames : actors'[k] = IF k = n THEN NoActor ELSE actors[k]
          /\ stopped' = stopped
          /\ freed' = IF \E k \in Names : actors'[k] = actors[n] THEN freed
                      ELSE freed \cup {actors[n]}
      BY <2>1 DEF IInv, TypeOK, Unregister
    <3> SUFFICES ASSUME NEW a \in Actors \ freed' PROVE \E k \in AllNames : actors'[k] = a
      BY <2>1, <3>1 DEF Owned
    <3>2. PICK k \in AllNames : actors[k] = a
      BY <2>1, <3>1 DEF IInv, Owned
    <3>3. CASE k = n
      BY <3>1, <3>2, <3>3, Distinct
    <3>4. CASE k # n
      BY <3>1, <3>2, <3>4
    <3> QED
      BY <3>3, <3>4
  <2>2. CASE ~(~stopped /\ actors[n] # NoActor)
    BY <2>2 DEF IInv, Owned, Unregister, registry, stopAll
  <2> QED
    BY <2>1, <2>2
<1>6. Spawning'
  <2>1. TypeOK /\ Spawning /\ u \in Procs /\ u \notin Spawners /\ state' = state
    BY Distinct DEF IInv, Unregister, acts
  <2>2. \A k \in AllNames : actors'[k] = actors[k] \/ actors'[k] = NoActor
    BY <2>1 DEF TypeOK, Unregister, registry
  <2>3. \A k \in AllNames : actors'[k] # NoActor => Ready(actors'[k]) /\ actors'[k] \in Actors
    BY <2>1, <2>2 DEF TypeOK, Spawning
  <2>4. Elsewhere(u) /\ Settles
    BY <2>1 DEF TypeOK, Unregister, Return, Elsewhere, Settles, Ready
  <2> QED
    BY <2>1, <2>3, <2>4, SpawnFrame
<1>7. Stoppable'
  <2>1. TypeOK /\ u \in Procs
    BY Distinct DEF IInv
  <2>2. Elsewhere(u) /\ pc'[u] = "returned" /\ UNCHANGED acts
    BY <2>1 DEF TypeOK, Unregister, Return, Elsewhere
  <2> QED
    BY <2>1, <2>2, StoppableFrame DEF IInv
<1> QED
  BY <1>1, <1>2, <1>3, <1>4, <1>5, <1>6, <1>7 DEF IInv

LEMMA LookupInv ==
  ASSUME IInv, NEW u \in Users, NEW n \in AllNames, NEW to \in {"dispatch", "stop"}, Lookup(u, n, to)
  PROVE  IInv'
<1>1. TypeOK'
  BY UserEffect, WorldKept DEF IInv
<1>2. RegistryConsistent'
  BY DEF IInv, RegistryConsistent, Lookup, Idle, Return, registry, acts, stopAll,
     rest, world
<1>3. OneCloser'
  BY UserEffect, CloserFrame, NothingMoves, Distinct DEF IInv, world, registry, stopAll
<1>4. Worked'
  BY DEF IInv, Worked, Handled, Ready, Lookup, Idle, Return, registry, acts,
     stopAll, rest, world
<1>5. Owned'
  BY DEF IInv, Owned, Lookup, Idle, Return, registry, acts, stopAll, rest, world
<1>6. Spawning'
  BY Distinct DEF IInv, TypeOK, Spawning, Ready, Lookup, Idle, Return, registry,
     acts, stopAll, rest, world
<1>7. Stoppable'
  <2>1. u \in Procs /\ Elsewhere(u) /\ UNCHANGED acts
    BY UserEffect DEF world
  <2>2. pc'[u] \in {"dispatch", "stop", "returned"}
    BY <2>1 DEF IInv, TypeOK, Lookup, Return
  <2> QED
    BY <2>1, <2>2, StoppableFrame DEF IInv
<1> QED
  BY <1>1, <1>2, <1>3, <1>4, <1>5, <1>6, <1>7 DEF IInv

LEMMA DispatchInv ==
  ASSUME IInv, NEW u \in Users, Dispatch(u) PROVE IInv'
<1>1. TypeOK'
  BY UserEffect, WorldKept DEF IInv
<1>2. RegistryConsistent'
  BY DEF IInv, RegistryConsistent, Dispatch, Goto, Return, registry, acts, stopAll,
     locals, rest, world
<1>3. OneCloser'
  BY UserEffect, CloserFrame, NothingMoves, Distinct DEF IInv, world, registry, stopAll
<1>4. Worked'
  BY DEF IInv, Worked, Handled, Ready, Dispatch, Goto, Return, registry, acts,
     stopAll, locals, rest, world
<1>5. Owned'
  BY DEF IInv, Owned, Dispatch, Goto, Return, registry, acts, stopAll, locals,
     rest, world
<1>6. Spawning'
  BY Distinct DEF IInv, TypeOK, Spawning, Ready, Dispatch, Goto, Return, registry,
     acts, stopAll, locals, rest, world
<1>7. Stoppable'
  BY DEF IInv, TypeOK, Stoppable, Ready, Dispatch, Goto, Return, registry, acts,
     stopAll, locals, rest, world
<1> QED
  BY <1>1, <1>2, <1>3, <1>4, <1>5, <1>6, <1>7 DEF IInv

LEMMA EnqueueInv ==
  ASSUME IInv, NEW u \in Users, Enqueue(u) PROVE IInv'
<1>1. TypeOK'
  BY UserEffect, WorldKept DEF IInv
<1>2. RegistryConsistent'
  BY DEF IInv, RegistryConsistent, Enqueue, Goto, Return, registry, acts, stopAll,
     locals, rest, world
<1>3. OneCloser'
  BY UserEffect, CloserFrame, NothingMoves, Distinct DEF IInv, world, registry, stopAll
<1>4. Worked'
  BY DEF IInv, Worked, Handled, Ready, Enqueue, Goto, Return, registry, acts,
     stopAll, locals, rest, world
<1>5. Owned'
  BY DEF IInv, Owned, Enqueue, Goto, Return, registry, acts, stopAll, locals, rest,
     world
<1>6. Spawning'
  BY Distinct DEF IInv, TypeOK, Spawning, Ready, Enqueue, Goto, Return, registry,
     acts, stopAll, locals, rest, world
<1>7. Stoppable'
  BY DEF IInv, TypeOK, Stoppable, Ready, Enqueue, Goto, Return, registry, acts,
     stopAll, locals, rest, world
<1> QED
  BY <1>1, <1>2, <1>3, <1>4, <1>5, <1>6, <1>7 DEF IInv

LEMMA EnqueueStoppedInv ==
  ASSUME IInv, NEW u \in Users, EnqueueStopped(u) PROVE IInv'
<1>1. TypeOK'
  BY UserEffect, WorldKept DEF IInv
<1>2. RegistryConsistent'
  BY DEF IInv, RegistryConsistent, EnqueueStopped, Return, registry, acts, stopAll,
     locals, rest, world
<1>3. OneCloser'
  BY UserEffect, CloserFrame, NothingMoves, Distinct DEF IInv, world, registry, stopAll
<1>4. Worked'
  BY DEF IInv, Worked, Handled, Ready, EnqueueStopped, Return, registry, acts,
     stopAll, locals, rest, world
<1>5. Owned'
  BY DEF IInv, Owned, EnqueueStopped, Return, registry, acts, stopAll, locals, rest,
     world
<1>6. Spawning'
  BY Distinct DEF IInv, TypeOK, Spawning, Ready, EnqueueStopped, Return, registry,
     acts, stopAll, locals, rest, world
<1>7. Stoppable'
  BY DEF IInv, TypeOK, Stoppable, Ready, EnqueueStopped, Return, registry, acts,
     stopAll, locals, rest, world
<1> QED
  BY <1>1, <1>2, <1>3, <1>4, <1>5, <1>6, <1>7 DEF IInv

LEMMA EnqueueGivesUpInv ==
  ASSUME IInv, NEW u \in Users, EnqueueGivesUp(u) PROVE IInv'
<1>1. TypeOK'
  BY UserEffect, WorldKept DEF IInv
<1>2. RegistryConsistent'
  BY DEF IInv, RegistryConsistent, EnqueueGivesUp, Return, registry, acts, stopAll,
     locals, rest, world
<1>3. OneCloser'
  BY UserEffect, CloserFrame, NothingMoves, Distinct DEF IInv, world, registry, stopAll
<1>4. Worked'
  BY DEF IInv, Worked, Handled, Ready, EnqueueGivesUp, Return, registry, acts,
     stopAll, locals, rest, world
<1>5. Owned'
  BY DEF IInv, Owned, EnqueueGivesUp, Return, registry, acts, stopAll, locals, rest,
     world
<1>6. Spawning'
  BY Distinct DEF IInv, TypeOK, Spawning, Ready, EnqueueGivesUp, Return, registry,
     acts, stopAll, locals, rest, world
<1>7. Stoppable'
  BY DEF IInv, TypeOK, Stoppable, Ready, EnqueueGivesUp, Return, registry, acts,
     stopAll, locals, rest, world
<1> QED
  BY <1>1, <1>2, <1>3, <1>4, <1>5, <1>6, <1>7 DEF IInv

LEMMA AnsweredInv ==
  ASSUME IInv, NEW u \in Users, Answered(u) PROVE IInv'
<1>1. TypeOK'
  BY Distinct DEF IInv, TypeOK, Steps, ActorStates, Answered, Return, registry,
     acts, stopAll, rest, world
<1>2. RegistryConsistent'
  BY DEF IInv, RegistryConsistent, Answered, Return, registry, acts, stopAll, rest,
     world
<1>3. OneCloser'
  BY Distinct DEF IInv, TypeOK, OneCloser, Closing, Busy, Answered, Return,
     registry, acts, stopAll, rest, world
<1>4. Worked'
  BY DEF IInv, Worked, Handled, Ready, Answered, Return, registry, acts, stopAll,
     rest, world
<1>5. Owned'
  BY DEF IInv, Owned, Answered, Return, registry, acts, stopAll, rest, world
<1>6. Spawning'
  BY DEF IInv, TypeOK, Spawning, Ready, Answered, Return, registry, acts, stopAll,
     rest, world
<1>7. Stoppable'
  BY DEF IInv, TypeOK, Stoppable, Ready, Answered, Return, registry, acts, stopAll,
     rest, world
<1> QED
  BY <1>1, <1>2, <1>3, <1>4, <1>5, <1>6, <1>7 DEF IInv

LEMMA AwaitTimerInv ==
  ASSUME IInv, NEW u \in Users, AwaitTimer(u) PROVE IInv'
<1>1. TypeOK'
  BY Distinct DEF IInv, TypeOK, Steps, ActorStates, AwaitTimer, Return, registry,
     acts, stopAll, rest, world
<1>2. RegistryConsistent'
  BY DEF IInv, RegistryConsistent, AwaitTimer, Return, registry, acts, stopAll,
     rest, world
<1>3. OneCloser'
  BY Distinct DEF IInv, TypeOK, OneCloser, Closing, Busy, AwaitTimer, Return,
     registry, acts, stopAll, rest, world
<1>4. Worked'
  BY DEF IInv, Worked, Handled, Ready, AwaitTimer, Return, registry, acts, stopAll,
     rest, world
<1>5. Owned'
  BY DEF IInv, Owned, AwaitTimer, Return, registry, acts, stopAll, rest, world
<1>6. Spawning'
  BY DEF IInv, TypeOK, Spawning, Ready, AwaitTimer, Return, registry, acts,
     stopAll, rest, world
<1>7. Stoppable'
  BY DEF IInv, TypeOK, Stoppable, Ready, AwaitTimer, Return, registry, acts,
     stopAll, rest, world
<1> QED
  BY <1>1, <1>2, <1>3, <1>4, <1>5, <1>6, <1>7 DEF IInv

LEMMA ActorServesInv ==
  ASSUME IInv, NEW u \in Users, ActorServes(u) PROVE IInv'
<1>1. TypeOK'
  BY DEF IInv, TypeOK, Steps, ActorStates, ActorServes, registry, stopAll, locals,
     calls, rest
<1>2. RegistryConsistent'
  BY DEF IInv, RegistryConsistent, ActorServes, registry, stopAll, locals, calls,
     rest
<1>3. OneCloser'
  BY DEF IInv, TypeOK, OneCloser, Closing, Busy, ActorServes, registry, stopAll,
     locals, calls, rest
<1>4. Worked'
  BY DEF IInv, Worked, Handled, Ready, ActorServes, registry, stopAll, locals,
     calls, rest
<1>5. Owned'
  BY DEF IInv, Owned, ActorServes, registry, stopAll, locals, calls, rest
<1>6. Spawning'
  BY DEF IInv, TypeOK, Spawning, Ready, ActorServes, registry, stopAll, locals,
     calls, rest
<1>7. Stoppable'
  BY DEF IInv, TypeOK, Stoppable, Ready, ActorServes, registry, stopAll, locals,
     calls, rest
<1> QED
  BY <1>1, <1>2, <1>3, <1>4, <1>5, <1>6, <1>7 DEF IInv

LEMMA CloseInv ==
  ASSUME IInv, NEW s \in Closers, Close(s) PROVE IInv'
<1>1. TypeOK'
  <2>1. TypeOK /\ s \in Procs /\ "emit" \in Steps /\ "stopped" \in Results
    BY Distinct DEF IInv, Steps, Results
  <2>2. CASE stopped
    <3>1. LocalTypes'
      BY <2>1, <2>2, ReturnEffect DEF Close
    <3> QED
      BY <2>1, <2>2, <3>1, WorldKept DEF Close, world
  <2>3. CASE ~stopped
    <3>1. LocalTypes'
      BY <2>1, <2>3, GotoEffect DEF Close
    <3>2. entries' \in Entries /\ closing' \in Entries
      BY <2>1, <2>3, SnapshotEffect DEF Close
    <3>3. order' \in Seq(AllNames) /\ actors' \in [AllNames -> Actors \cup {NoActor}] /\ stopped' \in BOOLEAN
      BY <2>3 DEF Close
    <3> QED
      BY <2>1, <2>3, <3>1, <3>2, <3>3 DEF TypeOK, LocalTypes, Results, Close, acts, rest
  <2> QED
    BY <2>2, <2>3
<1>2. RegistryConsistent'
  BY DEF IInv, RegistryConsistent, Close, Idle, Goto, Return, Snapshot, registry,
     acts, stopAll, locals, rest
<1>3. OneCloser'
  <2>1. TypeOK /\ OneCloser /\ s \in Procs /\ "emit" \in Steps /\ "stopped" \in Results
    BY Distinct DEF IInv, Steps, Results
  <2>2. Elsewhere(s) /\ (stopped => pc'[s] = "returned" /\ result'[s] = "stopped")
        /\ (~stopped => pc'[s] = "emit")
    BY <2>1, GotoEffect, ReturnEffect DEF Close
  <2>3. \A t \in Closers : t # s =>
          t \in Procs /\ pc'[t] = pc[t] /\ result'[t] = result[t] /\ target'[t] = target[t]
    BY <2>2, Distinct DEF Elsewhere
  <2>4. \A t \in Closers : t # s => (Closing(t)' <=> Closing(t))
    BY <2>3 DEF Closing
  <2>5. CASE stopped
    <3>1. ~Closing(s)' /\ stopped' /\ UNCHANGED <<entries, errs, told>>
      BY <2>2, <2>5 DEF Closing, Close, registry, stopAll, acts, Busy
    <3> QED
      BY <2>1, <2>2, <2>3, <2>4, <2>5, <3>1 DEF OneCloser
  <2>6. CASE ~stopped
    <3>1. \A t \in Closers : ~Closing(t)
      BY <2>1, <2>6 DEF OneCloser
    <3>2. \A t \in Closers : t # s => ~Closing(t)'
      BY <2>4, <3>1
    <3>3. \A t \in Closers : t # s => pc'[t] \notin Busy /\ (pc'[t] = "returned" => result'[t] = "stopped")
      BY <3>2 DEF Closing
    <3>4. stopped' /\ pc'[s] = "emit"
      BY <2>2, <2>6 DEF Close
    <3> QED
      BY <2>1, <2>3, <3>2, <3>3, <3>4 DEF OneCloser, Busy
  <2> QED
    BY <2>5, <2>6
<1>4. Worked'
  <2>1. CASE stopped
    <3>1. UNCHANGED <<entries, closing, errs, state, told>>
      BY <2>1 DEF Close, stopAll, acts
    <3> QED
      BY <3>1 DEF IInv, Worked, Handled, Ready
  <2>2. CASE ~stopped
    <3>1. entries' = Snapshot /\ closing' = Snapshot /\ state' = state
      BY <2>2 DEF Close, acts
    <3>2. \A k \in 1..Len(Snapshot) :
            Snapshot[k].managed \in Actors /\ Ready(Snapshot[k].managed)
      <4> SUFFICES ASSUME NEW k \in 1..Len(Snapshot)
                   PROVE  Snapshot[k].managed \in Actors /\ Ready(Snapshot[k].managed)
        OBVIOUS
      <4>1. PICK i \in Slots : Snapshot[k] = Entry(i)
        BY SnapshotEffect DEF IInv
      <4>2. order[i] \in AllNames /\ actors[order[i]] # NoActor
        BY DEF IInv, TypeOK, Slots
      <4> QED
        BY <4>1, <4>2 DEF IInv, TypeOK, Spawning, Entry
    <3>3. Len(closing') = Len(Snapshot) /\ Len(entries') = Len(Snapshot) /\ Len(Snapshot) \in Nat
      BY <3>1, SnapshotEffect DEF IInv
    <3>4. \A i \in 1..Len(Snapshot) : i + (Len(Snapshot) - Len(Snapshot)) = i
      BY <3>3
    <3>5. 1..(Len(Snapshot) - Len(Snapshot)) = {} /\ Len(Snapshot) <= Len(Snapshot)
      BY <3>3
    <3> QED
      BY <3>1, <3>2, <3>3, <3>4, <3>5 DEF Worked, Ready
  <2> QED
    BY <2>1, <2>2
<1>5. Owned'
  <2>1. CASE stopped
    <3>1. UNCHANGED <<closing, freed, stopped>>
      BY <2>1 DEF Close, stopAll, registry
    <3> QED
      BY <2>1, <3>1 DEF IInv, Owned
  <2>2. CASE ~stopped
    <3> SUFFICES ASSUME NEW a \in Actors \ freed
                 PROVE  \E k \in 1..Len(Snapshot) : Snapshot[k].managed = a
      BY <2>2 DEF Owned, Close
    <3>1. PICK n \in AllNames : actors[n] = a
      BY <2>2 DEF IInv, Owned
    <3>2. PICK i \in DOMAIN order : n # NoName /\ order[i] = n
      BY <3>1, Distinct DEF IInv, RegistryConsistent
    <3>3. i \in Slots /\ Entry(i).managed = a
      BY <3>1, <3>2, Distinct DEF Slots, Entry
    <3> QED
      BY <3>3, SnapshotEffect DEF IInv
  <2> QED
    BY <2>1, <2>2
<1>6. Spawning'
  BY Distinct DEF IInv, TypeOK, Spawning, Ready, OneCloser, Closing, Busy, Close,
     Idle, Goto, Return, Snapshot, registry, acts, stopAll, locals, rest
<1>7. Stoppable'
  <2>1. TypeOK /\ s \in Procs /\ UNCHANGED acts
    BY Distinct DEF IInv, Close
  <2>2. Return(s, "stopped") \/ Goto(s, "emit")
    BY DEF Close
  <2>3. Elsewhere(s) /\ pc'[s] \in {"returned", "emit"}
    BY <2>1, <2>2, GotoEffect, ReturnEffect DEF Steps, Results
  <2> QED
    BY <2>1, <2>3, StoppableFrame DEF IInv
<1> QED
  BY <1>1, <1>2, <1>3, <1>4, <1>5, <1>6, <1>7 DEF IInv

LEMMA StopNextInv ==
  ASSUME IInv, NEW s \in Closers, StopNext(s) PROVE IInv'
<1>1. TypeOK'
  <2>1. TypeOK /\ s \in Procs /\ "stop" \in Steps
    BY Distinct DEF IInv, Steps
  <2>2. Head(entries).name \in AllNames /\ Head(entries).managed \in Actors
    <3>1. TypeOK /\ Worked /\ entries # <<>>
      BY DEF IInv, StopNext
    <3> QED
      BY <3>1, FirstEntry, Distinct
  <2>3. LocalTypes'
    BY <2>1, <2>2, Locals DEF LocalTypes, StopNext
  <2> QED
    BY <2>1, <2>3, WorldKept DEF StopNext
<1>2. RegistryConsistent'
  BY DEF IInv, RegistryConsistent, StopNext, registry, acts, stopAll, rest, world
<1>3. OneCloser'
  BY DEF IInv, TypeOK, OneCloser, Closing, Busy, StopNext, registry, acts, stopAll,
     rest, world
<1>4. Worked'
  BY DEF IInv, Worked, Handled, Ready, StopNext, registry, acts, stopAll, rest,
     world
<1>5. Owned'
  BY DEF IInv, Owned, StopNext, registry, acts, stopAll, rest, world
<1>6. Spawning'
  BY DEF IInv, TypeOK, Spawning, Ready, StopNext, registry, acts, stopAll, rest,
     world
<1>7. Stoppable'
  BY DEF IInv, TypeOK, Stoppable, Ready, StopNext, registry, acts, stopAll, rest,
     world
<1> QED
  BY <1>1, <1>2, <1>3, <1>4, <1>5, <1>6, <1>7 DEF IInv

LEMMA StopAllReturnsInv ==
  ASSUME IInv, NEW s \in Closers, StopAllReturns(s) PROVE IInv'
<1>1. TypeOK'
  BY Distinct DEF IInv, TypeOK, Steps, ActorStates, StopAllReturns, Return,
     registry, acts, stopAll, rest, world
<1>2. RegistryConsistent'
  BY DEF IInv, RegistryConsistent, StopAllReturns, Return, registry, acts, stopAll,
     rest, world
<1>3. OneCloser'
  BY DEF IInv, TypeOK, OneCloser, Closing, Busy, StopAllReturns, Return, registry,
     acts, stopAll, rest, world
<1>4. Worked'
  BY DEF IInv, Worked, Handled, Ready, StopAllReturns, Return, registry, acts,
     stopAll, rest, world
<1>5. Owned'
  BY DEF IInv, Owned, StopAllReturns, Return, registry, acts, stopAll, rest, world
<1>6. Spawning'
  BY DEF IInv, TypeOK, Spawning, Ready, StopAllReturns, Return, registry, acts,
     stopAll, rest, world
<1>7. Stoppable'
  BY DEF IInv, TypeOK, Stoppable, Ready, StopAllReturns, Return, registry, acts,
     stopAll, rest, world
<1> QED
  BY <1>1, <1>2, <1>3, <1>4, <1>5, <1>6, <1>7 DEF IInv

LEMMA AwaitShutdownInv ==
  ASSUME IInv, NEW s \in Waiters, AwaitShutdown(s) PROVE IInv'
<1>1. TypeOK'
  BY DEF IInv, TypeOK, Steps, ActorStates, AwaitShutdown, Idle, Goto, registry,
     acts, stopAll, locals, rest, world
<1>2. RegistryConsistent'
  BY DEF IInv, RegistryConsistent, AwaitShutdown, Idle, Goto, registry, acts,
     stopAll, locals, rest, world
<1>3. OneCloser'
  BY DEF IInv, TypeOK, OneCloser, Closing, Busy, AwaitShutdown, Idle, Goto,
     registry, acts, stopAll, locals, rest, world
<1>4. Worked'
  BY DEF IInv, Worked, Handled, Ready, AwaitShutdown, Idle, Goto, registry, acts,
     stopAll, locals, rest, world
<1>5. Owned'
  BY DEF IInv, Owned, AwaitShutdown, Idle, Goto, registry, acts, stopAll, locals,
     rest, world
<1>6. Spawning'
  BY Distinct DEF IInv, TypeOK, Spawning, Ready, AwaitShutdown, Idle, Goto,
     registry, acts, stopAll, locals, rest, world
<1>7. Stoppable'
  BY DEF IInv, TypeOK, Stoppable, Ready, AwaitShutdown, Idle, Goto, registry, acts,
     stopAll, locals, rest, world
<1> QED
  BY <1>1, <1>2, <1>3, <1>4, <1>5, <1>6, <1>7 DEF IInv

LEMMA StopCASInv ==
  ASSUME IInv, NEW p \in Procs, StopCAS(p) PROVE IInv'
<1>1. TypeOK'
  <2>1. TypeOK /\ "awaitStop" \in Steps /\ target[p] \in Actors
    BY DEF IInv, TypeOK, Steps, StopCAS
  <2>2. CASE state[target[p]] = "Started"
    <3>1. LocalTypes'
      BY <2>1, <2>2, GotoEffect DEF StopCAS
    <3>2. state' \in [Actors -> ActorStates] /\ told' \in [Actors -> BOOLEAN]
      BY <2>1, <2>2 DEF TypeOK, StopCAS, SetState, ActorStates
    <3> QED
      BY <2>1, <2>2, <3>1, <3>2 DEF TypeOK, LocalTypes, Results, StopCAS, registry, stopAll, rest
  <2>3. CASE state[target[p]] # "Started"
    <3>1. LocalTypes' /\ entries' \in Entries /\ errs' \subseteq Names /\ closing' = closing
      BY <2>3, AfterStopEffect DEF StopCAS
    <3> QED
      BY <2>1, <2>3, <3>1 DEF TypeOK, LocalTypes, Results, StopCAS, registry, rest
  <2> QED
    BY <2>2, <2>3
<1>2. RegistryConsistent'
  BY DEF IInv, RegistryConsistent, StopCAS, SetState, Goto, Return, Errors,
     AfterStop, registry, stopAll, locals, rest
<1>3. OneCloser'
  <2>1. TypeOK /\ OneCloser /\ "awaitStop" \in Steps /\ target[p] \in Actors /\ stopped' = stopped
    BY DEF IInv, TypeOK, Steps, StopCAS, registry
  <2>2. StopsKept
    BY <2>1 DEF TypeOK, StopCAS, StopsKept
  <2>3. /\ Elsewhere(p) /\ errs \subseteq errs'
        /\ p \notin Closers => UNCHANGED <<entries, errs>>
        /\ p \in Closers => result'[p] = result[p] /\ (pc'[p] = "emit" \/
              /\ pc'[p] = "awaitStop" /\ UNCHANGED <<entries, errs>> /\ target'[p] = target[p] /\ told'[target[p]])
    <3>1. CASE state[target[p]] = "Started"
      BY <2>1, <3>1, GotoEffect DEF StopCAS, stopAll, TypeOK
    <3>2. CASE state[target[p]] # "Started"
      BY <3>2, AfterStopEffect DEF StopCAS
    <3> QED
      BY <3>1, <3>2
  <2>4. CASE p \notin Closers
    BY <2>1, <2>2, <2>3, <2>4, CloserFrame
  <2>5. CASE p \in Closers
    <3>1. \A t \in Closers : t # p => ~Closing(t)
      BY <2>1, <2>5 DEF OneCloser, Closing, Busy, StopCAS
    <3>2. \A t \in Closers : t # p => /\ pc'[t] = pc[t] /\ result'[t] = result[t] /\ target'[t] = target[t]
                                     /\ ~Closing(t)'
      BY <2>3, <3>1, Distinct DEF Elsewhere, Closing
    <3>3. stopped /\ pc'[p] \in Busy
      BY <2>1, <2>3, <2>5 DEF OneCloser, Closing, Busy, StopCAS
    <3>4. \A t \in Closers : t # p => pc[t] \notin Busy /\ (pc[t] = "returned" => result[t] = "stopped")
      BY <3>1 DEF Closing
    <3> QED
      BY <2>1, <2>3, <2>5, <3>2, <3>3, <3>4 DEF OneCloser, Busy, StopCAS
  <2> QED
    BY <2>4, <2>5
<1>4. Worked'
  <2>1. TypeOK /\ Worked /\ target[p] \in Actors
    BY DEF IInv, TypeOK, StopCAS
  <2>2. Settles /\ StopsKept
    BY <2>1 DEF TypeOK, StopCAS, SetState, Settles, StopsKept, Ready
  <2>3. CASE state[target[p]] = "Started" \/ p \notin Closers
    <3>1. UNCHANGED <<entries, closing, errs>>
      BY <2>3, AfterStopEffect DEF StopCAS, stopAll
    <3> QED
      BY <2>1, <2>2, <3>1, WorkedFrame
  <2>4. CASE state[target[p]] # "Started" /\ p \in Closers
    <3>1. /\ entries # <<>> /\ entries' = Tail(entries) /\ closing' = closing /\ errs \subseteq errs'
          /\ target[p] = entries[1].managed /\ entries[1].name \in errs'
      BY <2>4, AfterStopEffect DEF StopCAS
    <3>2. state' = state
      BY <2>4 DEF StopCAS
    <3> QED
      BY <2>1, <2>2, <2>4, <3>1, <3>2, WorkedTail
  <2> QED
    BY <2>3, <2>4
<1>5. Owned'
  BY DEF IInv, Owned, StopCAS, SetState, Goto, Return, Errors, AfterStop, registry,
     stopAll, locals, rest
<1>6. Spawning'
  <2>1. TypeOK /\ Spawning /\ target[p] \in Actors /\ actors' = actors
    BY DEF IInv, TypeOK, StopCAS, registry
  <2>2. /\ Settles /\ \A a \in Actors : ~Ready(a) => state'[a] = state[a]
        /\ \A n \in AllNames : actors'[n] # NoActor => Ready(actors'[n]) /\ actors'[n] \in Actors
    <3>1. \A n \in AllNames : actors'[n] # NoActor => Ready(actors'[n]) /\ actors'[n] \in Actors
      BY <2>1 DEF TypeOK, Spawning
    <3>2. CASE state[target[p]] = "Started"
      <4>1. \A a \in Actors : state'[a] = IF a = target[p] THEN "Stopping" ELSE state[a]
        BY <2>1, <3>2 DEF TypeOK, StopCAS, SetState
      <4> QED
        BY <3>1, <3>2, <4>1 DEF Settles, Ready
    <3>3. CASE state[target[p]] # "Started"
      <4>1. state' = state
        BY <3>3 DEF StopCAS
      <4> QED
        BY <3>1, <4>1 DEF Settles, Ready
    <3> QED
      BY <3>2, <3>3
  <2>3. CASE p \notin Spawners
    <3>1. Elsewhere(p)
      BY <2>1, AfterStopEffect, GotoEffect DEF StopCAS, Steps
    <3> QED
      BY <2>1, <2>2, <2>3, <3>1, SpawnFrame
  <2>4. CASE p \in Spawners
    <3>1. target[p] = p /\ result[p] \in {"err", "notReady"} /\ (result[p] = "err" => Ready(p))
      BY <2>1, <2>4 DEF Spawning, StopCAS
    <3>2. /\ Elsewhere(p) /\ result'[p] = result[p]
          /\ \/ pc'[p] = "awaitStop" /\ target'[p] = p
             \/ pc'[p] = "returned" /\ state' = state /\ state[p] # "Started"
      <4>1. CASE state[p] = "Started"
        BY <2>1, <3>1, <4>1, GotoEffect DEF StopCAS, Steps
      <4>2. CASE state[p] # "Started"
        BY <2>4, <3>1, <4>2, AfterStopEffect, Distinct DEF StopCAS
      <4> QED
        BY <4>1, <4>2
    <3>3. \A a \in Actors : Ready(a) => Ready(a)'
      BY <2>2 DEF Settles
    <3>4. \A a \in Actors : /\ state[a] = "Initialized" => state'[a] = "Initialized"
                            /\ state[a] \notin {"Launched", "Started"} => state'[a] \notin {"Launched", "Started"}
      BY <2>2 DEF Settles, Ready
    <3>5. \A n \in AllNames : actors'[n] # NoActor => state'[actors'[n]] \notin {"Initialized", "Launched"}
      BY <2>2, <3>3 DEF Ready
    <3>6. \A a \in Loose : Ready(a)'
      BY <2>1, <3>3, Distinct DEF Spawning
    <3>7. \A q \in Spawners : q # p => /\ q \in Actors /\ pc'[q] = pc[q]
                                      /\ result'[q] = result[q] /\ target'[q] = target[q]
      BY <3>2, Distinct DEF Elsewhere
    <3>8. p \in Actors /\ (Ready(p) => Ready(p)')
          /\ (state[p] \notin {"Launched", "Started"} => state'[p] \notin {"Launched", "Started"})
      BY <2>4, <3>3, <3>4, Distinct
    <3>9. ASSUME NEW q \in Spawners
          PROVE  /\ pc'[q] \in {"idle", "waitReady", "register", "emit", "notify",
                                "stop", "awaitStop", "afterStop", "returned"}
                 /\ pc'[q] = "idle" => state'[q] = "Initialized"
                 /\ pc'[q] \in {"waitReady", "register"} => target'[q] = q /\ state'[q] # "Initialized"
                 /\ pc'[q] \in {"register", "emit", "notify"} => Ready(q)'
                 /\ pc'[q] \in {"stop", "awaitStop", "afterStop"} =>
                      target'[q] = q /\ result'[q] \in {"err", "notReady"} /\ (result'[q] = "err" => Ready(q)')
                 /\ pc'[q] = "returned" => result'[q] \in {"ok", "err", "notReady"}
                 /\ pc'[q] = "returned" /\ result'[q] = "ok" => Ready(q)'
                 /\ pc'[q] = "returned" /\ result'[q] = "err" => state'[q] \notin {"Launched", "Started"}
      <4>1. CASE q = p
        BY <3>1, <3>2, <3>8, <4>1 DEF Ready
      <4>2. CASE q # p
        <5>1. state[q] # "Initialized" => state'[q] # "Initialized"
          BY <2>2, <3>3, <3>7, <4>2 DEF Ready
        <5> QED
          BY <2>1, <3>3, <3>4, <3>7, <4>2, <5>1 DEF Spawning
      <4> QED
        BY <4>1, <4>2
    <3> QED
      BY <3>5, <3>6, <3>9 DEF Spawning, Ready
  <2> QED
    BY <2>3, <2>4
<1>7. Stoppable'
  <2>1. TypeOK /\ Stoppable /\ target[p] \in Actors /\ alive' = alive
    BY DEF IInv, TypeOK, StopCAS
  <2>2. \A q \in Procs : pc[q] \in {"awaitStop", "afterStop"} => target[q] \in Actors
    BY <2>1 DEF TypeOK
  <2>3. CASE state[target[p]] = "Started"
    <3>1. \A a \in Actors : /\ state'[a] = IF a = target[p] THEN "Stopping" ELSE state[a]
                            /\ told'[a] <=> (a = target[p] \/ told[a])
      BY <2>1, <2>3 DEF TypeOK, StopCAS, SetState
    <3>2. Elsewhere(p) /\ target'[p] = target[p]
      BY <2>1, <2>3, GotoEffect DEF StopCAS, Steps
    <3>3. \A q \in Procs : pc'[q] \in {"awaitStop", "afterStop"} =>
            /\ target'[q] = target[q] /\ target[q] \in Actors
            /\ target[q] = target[p] \/ (Ready(target[q]) /\ told[target[q]])
      BY <2>1, <2>2, <3>2 DEF Stoppable, Elsewhere
    <3>4. \A q \in Procs : pc'[q] \in {"awaitStop", "afterStop"} =>
            Ready(target[q])' /\ told'[target'[q]]
      BY <3>1, <3>3 DEF Ready
    <3>5. \A a \in Actors : /\ state'[a] \in {"Stopping", "Stopped"} => told'[a]
                            /\ told'[a] => state'[a] \in {"Stopping", "Stopped", "Failed"}
                            /\ state'[a] = "Initialized" => ~alive'[a]
      BY <2>1, <3>1 DEF Stoppable
    <3> QED
      BY <3>4, <3>5 DEF Stoppable, Ready
  <2>4. CASE state[target[p]] # "Started"
    <3>1. UNCHANGED <<state, told>> /\ Elsewhere(p) /\ pc'[p] \notin {"awaitStop", "afterStop"}
      BY <2>4, AfterStopEffect DEF StopCAS
    <3> QED
      BY <2>1, <3>1 DEF Stoppable, Elsewhere, Ready
  <2> QED
    BY <2>3, <2>4
<1> QED
  BY <1>1, <1>2, <1>3, <1>4, <1>5, <1>6, <1>7 DEF IInv

LEMMA StopWaitsInv ==
  ASSUME IInv, NEW p \in Procs, StopWaits(p) PROVE IInv'
<1> DEFINE a == target[p]
<1>1. /\ a \in Actors /\ Ready(a) /\ told[a] /\ pc[p] = "awaitStop"
      /\ TypeOK /\ "afterStop" \in Steps
  BY DEF IInv, TypeOK, Stoppable, StopWaits, Steps
<1>2. /\ Elsewhere(p) /\ pc'[p] = "afterStop" /\ UNCHANGED <<result, target>> /\ LocalTypes'
      /\ UNCHANGED <<registry, alive, told, faults, served, stopAll, rest>>
  BY <1>1, GotoEffect DEF StopWaits
<1>3. state' \in [Actors -> ActorStates]
      /\ \A b \in Actors : state'[b] = IF b = a THEN "Stopped" ELSE state[b]
  BY <1>1 DEF TypeOK, StopWaits, SetState, ActorStates
<1>4. Settles /\ StopsKept /\ \A b \in Actors : ~Ready(b) => state'[b] = state[b]
  BY <1>1, <1>2, <1>3 DEF Settles, StopsKept, Ready
<1> HIDE DEF a
<1>5. TypeOK'
  BY <1>1, <1>2, <1>3 DEF TypeOK, LocalTypes, Results, registry, stopAll, rest
<1>6. RegistryConsistent' /\ Owned'
  BY <1>2 DEF IInv, RegistryConsistent, Owned, registry, stopAll
<1>7. OneCloser'
  <2>1. \A s \in Closers : Closing(s)' <=> Closing(s)
    BY <1>1, <1>2, Distinct DEF Closing, Busy, Elsewhere
  <2>2. \A s \in Closers :
          /\ pc'[s] = pc[s] \/ (s = p /\ pc[s] = "awaitStop" /\ pc'[s] = "afterStop")
          /\ result'[s] = result[s] /\ target'[s] = target[s]
    BY <1>1, <1>2, Distinct DEF Elsewhere
  <2> QED
    BY <1>2, <2>1, <2>2 DEF IInv, OneCloser, Busy, registry, stopAll
<1>8. Worked'
  BY <1>1, <1>2, <1>4, WorkedFrame DEF IInv, stopAll
<1>9. Spawning'
  <2>1. \A n \in AllNames : actors'[n] # NoActor => Ready(actors'[n]) /\ actors'[n] \in Actors
    BY <1>1, <1>2 DEF IInv, TypeOK, Spawning, registry
  <2>2. CASE p \notin Spawners
    BY <1>1, <1>2, <1>4, <2>1, <2>2, SpawnFrame DEF IInv
  <2>3. CASE p \in Spawners
    <3>1. Spawning /\ a = p /\ result[p] \in {"err", "notReady"} /\ actors' = actors
      BY <1>1, <1>2, <2>3 DEF IInv, Spawning, registry, a
    <3>2. \A b \in Actors : Ready(b) => Ready(b)'
      BY <1>4 DEF Settles
    <3>3. \A n \in AllNames : actors'[n] # NoActor => Ready(actors[n])'
      BY <1>1, <1>2, <2>1, <3>1, <3>2
    <3>4. \A b \in Actors : b # p => state'[b] = state[b]
      BY <1>3, <3>1
    <3>5. Ready(p)' /\ target[p] = p
      BY <1>1, <3>1, <3>2 DEF a
    <3>6. \A q \in Spawners : q # p => /\ q \in Actors /\ pc'[q] = pc[q] /\ state'[q] = state[q]
      BY <1>2, <3>4, Distinct DEF Elsewhere
    <3>7. \A b \in Loose : Ready(b)'
      BY <3>1, <3>2, Distinct DEF Spawning
    <3> QED
      BY <1>2, <3>1, <3>3, <3>5, <3>6, <3>7 DEF Spawning, Ready
  <2> QED
    BY <2>2, <2>3
<1>10. Stoppable'
  <2>1. \A q \in Procs : pc'[q] \in {"awaitStop", "afterStop"} =>
          target[q] \in Actors /\ Ready(target[q]) /\ told[target[q]]
    BY <1>1, <1>2 DEF IInv, TypeOK, Stoppable, Elsewhere
  <2>2. \A b \in Actors : Ready(b) => Ready(b)'
    BY <1>4 DEF Settles
  <2>3. \A q \in Procs : pc'[q] \in {"awaitStop", "afterStop"} => Ready(target[q])' /\ told'[target'[q]]
    BY <1>2, <2>1, <2>2 DEF Ready
  <2>4. \A b \in Actors : /\ state'[b] \in {"Stopping", "Stopped"} => told'[b]
                          /\ told'[b] => state'[b] \in {"Stopping", "Stopped", "Failed"}
                          /\ state'[b] = "Initialized" => ~alive'[b]
    BY <1>1, <1>2, <1>3 DEF IInv, Stoppable
  <2> QED
    BY <2>3, <2>4 DEF Stoppable, Ready
<1> QED
  BY <1>5, <1>6, <1>7, <1>8, <1>9, <1>10 DEF IInv

LEMMA StopReturnsInv ==
  ASSUME IInv, NEW p \in Procs, StopReturns(p) PROVE IInv'
<1> DEFINE a == target[p]
<1>1. /\ a \in Actors /\ Ready(a) /\ told[a] /\ pc[p] = "afterStop"
      /\ TypeOK /\ OneCloser /\ Worked /\ Spawning
  BY DEF IInv, TypeOK, Stoppable, StopReturns
<1>2. /\ Elsewhere(p) /\ LocalTypes' /\ closing' = closing
      /\ entries' \in Entries /\ errs' \subseteq Names /\ errs \subseteq errs'
      /\ p \in Closers =>
           /\ entries # <<>> /\ a = entries[1].managed
           /\ entries' = Tail(entries) /\ pc'[p] = "emit" /\ result'[p] = result[p]
      /\ p \notin Closers =>
           /\ entries' = entries /\ errs' = errs /\ pc'[p] = "returned"
           /\ p \in Spawners => result'[p] = result[p]
  BY <1>1, AfterStopEffect DEF StopReturns
<1>3. /\ state' \in [Actors -> ActorStates] /\ faults' \in 0..MaxFaults
      /\ \A b \in Actors : state'[b] = state[b] \/ (b = a /\ state'[b] = "Failed")
  <2>1. UNCHANGED <<state, faults>> \/ (Fault /\ SetState(a, "Failed"))
    BY DEF StopReturns
  <2>2. CASE UNCHANGED <<state, faults>>
    BY <1>1, <2>2 DEF TypeOK
  <2>3. CASE Fault /\ SetState(a, "Failed")
    <3>1. faults' \in 0..MaxFaults
      BY <1>1, <2>3, DistinctProcs DEF TypeOK, Fault
    <3>2. state' = [state EXCEPT ![a] = "Failed"] /\ state \in [Actors -> ActorStates]
      BY <1>1, <2>3 DEF TypeOK, SetState
    <3>3. state' \in [Actors -> ActorStates]
          /\ \A b \in Actors : state'[b] = state[b] \/ (b = a /\ state'[b] = "Failed")
      BY <1>1, <3>2 DEF ActorStates
    <3> QED
      BY <3>1, <3>3
  <2> QED
    BY <2>1, <2>2, <2>3
<1>4. Settles /\ StopsKept /\ \A b \in Actors : ~Ready(b) => state'[b] = state[b]
  BY <1>1, <1>3 DEF StopReturns, Settles, StopsKept, Ready
<1>5. UNCHANGED <<registry, alive, told, served, rest>>
  BY DEF StopReturns
<1> HIDE DEF a
<1>6. TypeOK'
  BY <1>1, <1>2, <1>3, <1>5 DEF TypeOK, LocalTypes, Results, registry, rest
<1>7. RegistryConsistent' /\ Owned'
  BY <1>2, <1>5 DEF IInv, RegistryConsistent, Owned, registry
<1>8. OneCloser'
  <2>1. CASE p \notin Closers
    BY <1>1, <1>2, <1>5, <2>1, CloserFrame DEF registry
  <2>2. CASE p \in Closers
    <3>1. \A t \in Closers : t # p => ~Closing(t)
      BY <1>1, <2>2 DEF OneCloser, Closing, Busy
    <3>2. \A t \in Closers : t # p => /\ pc'[t] = pc[t] /\ result'[t] = result[t] /\ target'[t] = target[t]
                                     /\ ~Closing(t)'
      BY <1>2, <3>1, Distinct DEF Elsewhere, Closing
    <3>3. stopped /\ stopped'
      BY <1>1, <1>5, <2>2 DEF OneCloser, Closing, Busy, registry
    <3>4. \A t \in Closers : t # p => pc[t] \notin Busy /\ (pc[t] = "returned" => result[t] = "stopped")
      BY <3>1 DEF Closing
    <3> QED
      BY <1>1, <1>2, <2>2, <3>2, <3>3, <3>4 DEF OneCloser, Busy
  <2> QED
    BY <2>1, <2>2
<1>9. Worked'
  <2>1. CASE p \notin Closers
    BY <1>1, <1>2, <1>4, <2>1, WorkedFrame
  <2>2. CASE p \in Closers
    <3>1. told'[entries[1].managed]
      BY <1>1, <1>2, <1>5, <2>2
    <3> QED
      BY <1>1, <1>2, <1>4, <2>2, <3>1, WorkedTail
  <2> QED
    BY <2>1, <2>2
<1>10. Spawning'
  <2>1. \A n \in AllNames : actors'[n] # NoActor => Ready(actors'[n]) /\ actors'[n] \in Actors
    BY <1>1, <1>5 DEF TypeOK, Spawning, registry
  <2>2. CASE p \notin Spawners
    BY <1>1, <1>2, <1>4, <2>1, <2>2, SpawnFrame
  <2>3. CASE p \in Spawners
    <3>1. a = p /\ result[p] \in {"err", "notReady"} /\ pc'[p] = "returned" /\ result'[p] = result[p]
      BY <1>1, <1>2, <2>3, Distinct DEF Spawning, a
    <3>2. \A b \in Actors : Ready(b) => Ready(b)'
      BY <1>4 DEF Settles
    <3>3. actors' = actors /\ \A n \in AllNames : actors[n] # NoActor => Ready(actors[n])'
      BY <1>1, <1>5, <2>1, <3>2 DEF TypeOK, registry
    <3>4. Ready(p)' /\ state'[p] # "Launched" /\ (state'[p] = "Started" => state[p] = "Started")
      BY <1>1, <1>3, <3>1, <3>2 DEF Ready
    <3>5. state[p] # "Started"
      BY <1>1, <3>1 DEF IInv, Stoppable
    <3>6. \A q \in Spawners : q # p => /\ q \in Actors /\ pc'[q] = pc[q] /\ state'[q] = state[q]
                                      /\ result'[q] = result[q] /\ target'[q] = target[q]
      BY <1>2, <1>3, <3>1, Distinct DEF Elsewhere
    <3>7. \A b \in Loose : Ready(b)'
      BY <1>1, <3>2, Distinct DEF Spawning
    <3>8. ASSUME NEW q \in Spawners
          PROVE  /\ pc'[q] \in {"idle", "waitReady", "register", "emit", "notify",
                                "stop", "awaitStop", "afterStop", "returned"}
                 /\ pc'[q] = "idle" => state'[q] = "Initialized"
                 /\ pc'[q] \in {"waitReady", "register"} => target'[q] = q /\ state'[q] # "Initialized"
                 /\ pc'[q] \in {"register", "emit", "notify"} => Ready(q)'
                 /\ pc'[q] \in {"stop", "awaitStop", "afterStop"} =>
                      target'[q] = q /\ result'[q] \in {"err", "notReady"} /\ (result'[q] = "err" => Ready(q)')
                 /\ pc'[q] = "returned" => result'[q] \in {"ok", "err", "notReady"}
                 /\ pc'[q] = "returned" /\ result'[q] = "ok" => Ready(q)'
                 /\ pc'[q] = "returned" /\ result'[q] = "err" => state'[q] \notin {"Launched", "Started"}
      <4>1. CASE q = p
        BY <3>1, <3>4, <3>5, <4>1
      <4>2. CASE q # p
        BY <1>1, <3>6, <4>2 DEF Spawning, Ready
      <4> QED
        BY <4>1, <4>2
    <3> QED
      BY <3>3, <3>7, <3>8 DEF Spawning, Ready
  <2> QED
    BY <2>2, <2>3
<1>11. Stoppable'
  <2>1. \A q \in Procs : pc'[q] \in {"awaitStop", "afterStop"} =>
          /\ target'[q] = target[q] /\ target[q] \in Actors
          /\ Ready(target[q]) /\ told[target[q]]
    BY <1>1, <1>2 DEF IInv, TypeOK, Stoppable, Elsewhere
  <2>2. \A b \in Actors : Ready(b) => Ready(b)'
    BY <1>4 DEF Settles
  <2>3. \A q \in Procs : pc'[q] \in {"awaitStop", "afterStop"} => Ready(target[q])' /\ told'[target'[q]]
    BY <1>5, <2>1, <2>2 DEF Ready
  <2>4. \A b \in Actors : /\ state'[b] \in {"Stopping", "Stopped"} => told'[b]
                          /\ told'[b] => state'[b] \in {"Stopping", "Stopped", "Failed"}
                          /\ state'[b] = "Initialized" => ~alive'[b]
    BY <1>3, <1>5 DEF IInv, Stoppable
  <2> QED
    BY <2>3, <2>4 DEF Stoppable, Ready
<1> QED
  BY <1>6, <1>7, <1>8, <1>9, <1>10, <1>11 DEF IInv

LEMMA EmitEventInv ==
  ASSUME IInv, NEW p \in Procs, EmitEvent(p) PROVE IInv'
<1>1. TypeOK'
  BY DEF IInv, TypeOK, Steps, ActorStates, EmitEvent, registry, acts, stopAll,
     rest, world
<1>2. RegistryConsistent'
  BY DEF IInv, RegistryConsistent, EmitEvent, registry, acts, stopAll, rest, world
<1>3. OneCloser'
  BY DEF IInv, TypeOK, OneCloser, Closing, Busy, EmitEvent, registry, acts,
     stopAll, rest, world
<1>4. Worked'
  BY DEF IInv, Worked, Handled, Ready, EmitEvent, registry, acts, stopAll, rest,
     world
<1>5. Owned'
  BY DEF IInv, Owned, EmitEvent, registry, acts, stopAll, rest, world
<1>6. Spawning'
  BY DEF IInv, TypeOK, Spawning, Ready, EmitEvent, registry, acts, stopAll, rest,
     world
<1>7. Stoppable'
  BY DEF IInv, TypeOK, Stoppable, Ready, EmitEvent, registry, acts, stopAll, rest,
     world
<1> QED
  BY <1>1, <1>2, <1>3, <1>4, <1>5, <1>6, <1>7 DEF IInv

LEMMA EmittedInv ==
  ASSUME IInv, NEW p \in Procs, Emitted(p) PROVE IInv'
<1>1. TypeOK'
  <2>1. TypeOK /\ "next" \in Steps /\ "ok" \in Results
    BY DEF IInv, Steps, Results
  <2>2. LocalTypes' /\ UNCHANGED world
    BY <2>1, GotoEffect, ReturnEffect DEF Emitted
  <2> QED
    BY <2>1, <2>2, WorldKept
<1>2. RegistryConsistent'
  BY DEF IInv, RegistryConsistent, Emitted, Goto, Return, registry, acts, stopAll,
     locals, rest, world
<1>3. OneCloser'
  <2>1. TypeOK /\ OneCloser /\ "next" \in Steps /\ "ok" \in Results
    BY DEF IInv, Steps, Results
  <2>2. CASE p \in Closers
    <3>1. pc[p] = "notify" /\ Goto(p, "next") /\ UNCHANGED world
      BY <2>2, Distinct DEF Emitted
    <3>2. Elsewhere(p) /\ pc'[p] = "next" /\ result' = result /\ target' = target
      BY <2>1, <3>1, GotoEffect
    <3>3. \A s \in Closers : Closing(s)' <=> Closing(s)
      BY <2>2, <3>1, <3>2, Distinct DEF Closing, Busy, Elsewhere
    <3> QED
      BY <2>1, <2>2, <3>1, <3>2, <3>3, Distinct
        DEF OneCloser, Busy, Elsewhere, world, registry, acts, stopAll
  <2>3. CASE p \notin Closers
    <3>1. Elsewhere(p) /\ UNCHANGED world
      BY <2>1, GotoEffect, ReturnEffect DEF Emitted
    <3> QED
      BY <2>1, <2>3, <3>1, CloserFrame, NothingMoves DEF world, registry, stopAll
  <2> QED
    BY <2>2, <2>3
<1>4. Worked'
  BY DEF IInv, Worked, Handled, Ready, Emitted, Goto, Return, registry, acts,
     stopAll, locals, rest, world
<1>5. Owned'
  BY DEF IInv, Owned, Emitted, Goto, Return, registry, acts, stopAll, locals, rest,
     world
<1>6. Spawning'
  <2>1. TypeOK /\ Spawning /\ "next" \in Steps /\ "ok" \in Results
    BY DEF IInv, Steps, Results
  <2>2. CASE p \in Spawners
    <3>1. pc[p] = "notify" /\ Return(p, "ok") /\ UNCHANGED world
      BY <2>2 DEF Emitted
    <3>2. Elsewhere(p) /\ pc'[p] = "returned" /\ result'[p] = "ok"
      BY <2>1, <3>1, ReturnEffect
    <3> QED
      BY <2>1, <2>2, <3>1, <3>2, Distinct DEF Spawning, Ready, Elsewhere, world, registry, acts
  <2>3. CASE p \notin Spawners
    <3>1. Elsewhere(p) /\ UNCHANGED world
      BY <2>1, GotoEffect, ReturnEffect DEF Emitted
    <3>2. \A n \in AllNames : actors'[n] # NoActor => Ready(actors'[n]) /\ actors'[n] \in Actors
      BY <2>1, <3>1 DEF Spawning, TypeOK, world, registry
    <3> QED
      BY <2>1, <2>3, <3>1, <3>2, SpawnFrame, NothingMoves DEF world, acts
  <2> QED
    BY <2>2, <2>3
<1>7. Stoppable'
  <2>1. TypeOK /\ UNCHANGED acts /\ (Return(p, "ok") \/ Goto(p, "next"))
    BY DEF IInv, Emitted, world
  <2>2. Elsewhere(p) /\ pc'[p] \in {"returned", "next"}
    BY <2>1, GotoEffect, ReturnEffect DEF Steps, Results
  <2> QED
    BY <2>1, <2>2, StoppableFrame DEF IInv
<1> QED
  BY <1>1, <1>2, <1>3, <1>4, <1>5, <1>6, <1>7 DEF IInv

LEMMA CallHandlerInv ==
  ASSUME IInv, NEW p \in Procs, CallHandler(p) PROVE IInv'
<1>1. TypeOK'
  BY DEF IInv, TypeOK, Steps, ActorStates, CallHandler, registry, acts, stopAll
<1>2. RegistryConsistent'
  BY DEF IInv, RegistryConsistent, CallHandler, registry, acts, stopAll
<1>3. OneCloser'
  BY DEF IInv, TypeOK, OneCloser, Closing, Busy, CallHandler, registry, acts,
     stopAll
<1>4. Worked'
  BY DEF IInv, Worked, Handled, Ready, CallHandler, registry, acts, stopAll
<1>5. Owned'
  BY DEF IInv, Owned, CallHandler, registry, acts, stopAll
<1>6. Spawning'
  BY DEF IInv, TypeOK, Spawning, Ready, CallHandler, registry, acts, stopAll
<1>7. Stoppable'
  BY DEF IInv, TypeOK, Stoppable, Ready, CallHandler, registry, acts, stopAll
<1> QED
  BY <1>1, <1>2, <1>3, <1>4, <1>5, <1>6, <1>7 DEF IInv

LEMMA ActorStartsInv ==
  ASSUME IInv, NEW a \in Actors, ActorStarts(a) PROVE IInv'
<1>1. TypeOK'
  BY DEF IInv, TypeOK, Steps, ActorStates, ActorStarts, SetState, registry,
     stopAll, locals, calls, rest
<1>2. RegistryConsistent'
  BY DEF IInv, RegistryConsistent, ActorStarts, SetState, registry, stopAll,
     locals, calls, rest
<1>3. OneCloser'
  BY DEF IInv, TypeOK, OneCloser, Closing, Busy, ActorStarts, SetState, registry,
     stopAll, locals, calls, rest
<1>4. Worked'
  BY DEF IInv, Worked, Handled, Ready, ActorStarts, SetState, registry, stopAll,
     locals, calls, rest
<1>5. Owned'
  BY DEF IInv, Owned, ActorStarts, SetState, registry, stopAll, locals, calls, rest
<1>6. Spawning'
  BY DEF IInv, TypeOK, Spawning, Ready, ActorStarts, SetState, registry, stopAll,
     locals, calls, rest
<1>7. Stoppable'
  BY DEF IInv, TypeOK, Stoppable, Ready, ActorStarts, SetState, registry, stopAll,
     locals, calls, rest
<1> QED
  BY <1>1, <1>2, <1>3, <1>4, <1>5, <1>6, <1>7 DEF IInv

LEMMA ActorFailsInv ==
  ASSUME IInv, NEW a \in Actors, ActorFails(a) PROVE IInv'
<1>1. TypeOK'
  <2>1. faults' \in 0..MaxFaults
    BY DistinctProcs DEF IInv, TypeOK, ActorFails, Fault
  <2>2. state' \in [Actors -> ActorStates] /\ alive' \in [Actors -> BOOLEAN]
    BY DEF IInv, TypeOK, ActorFails, SetState, ActorStates
  <2> QED
    BY <2>1, <2>2 DEF IInv, TypeOK, ActorFails, registry, stopAll, rest, calls, locals
<1>2. RegistryConsistent'
  BY DEF IInv, RegistryConsistent, ActorFails, SetState, registry, stopAll, locals,
     calls, rest
<1>3. OneCloser'
  BY DEF IInv, TypeOK, OneCloser, Closing, Busy, ActorFails, SetState, registry,
     stopAll, locals, calls, rest
<1>4. Worked'
  BY DEF IInv, Worked, Handled, Ready, ActorFails, SetState, registry, stopAll,
     locals, calls, rest
<1>5. Owned'
  BY DEF IInv, Owned, ActorFails, SetState, registry, stopAll, locals, calls, rest
<1>6. Spawning'
  BY DEF IInv, TypeOK, Spawning, Ready, ActorFails, SetState, registry, stopAll,
     locals, calls, rest
<1>7. Stoppable'
  BY DEF IInv, TypeOK, Stoppable, Ready, ActorFails, SetState, registry, stopAll,
     locals, calls, rest
<1> QED
  BY <1>1, <1>2, <1>3, <1>4, <1>5, <1>6, <1>7 DEF IInv

LEMMA ActorExitsInv ==
  ASSUME IInv, NEW a \in Actors, ActorExits(a) PROVE IInv'
<1>1. TypeOK'
  BY DEF IInv, TypeOK, Steps, ActorStates, ActorExits, registry,
     stopAll, locals, calls, rest
<1>2. RegistryConsistent'
  BY DEF IInv, RegistryConsistent, ActorExits, registry, stopAll,
     locals, calls, rest
<1>3. OneCloser'
  BY DEF IInv, TypeOK, OneCloser, Closing, Busy, ActorExits, registry,
     stopAll, locals, calls, rest
<1>4. Worked'
  BY DEF IInv, Worked, Handled, Ready, ActorExits, registry, stopAll,
     locals, calls, rest
<1>5. Owned'
  BY DEF IInv, Owned, ActorExits, registry, stopAll, locals, calls, rest
<1>6. Spawning'
  BY DEF IInv, TypeOK, Spawning, Ready, ActorExits, registry, stopAll,
     locals, calls, rest
<1>7. Stoppable'
  BY DEF IInv, TypeOK, Stoppable, Ready, ActorExits, registry, stopAll,
     locals, calls, rest
<1> QED
  BY <1>1, <1>2, <1>3, <1>4, <1>5, <1>6, <1>7 DEF IInv

LEMMA SignalInv ==
  ASSUME IInv, Signal PROVE IInv'
<1>1. TypeOK'
  BY DEF IInv, TypeOK, Steps, ActorStates, Signal, registry, acts, stopAll, locals,
     calls
<1>2. RegistryConsistent'
  BY DEF IInv, RegistryConsistent, Signal, registry, acts, stopAll, locals, calls
<1>3. OneCloser'
  BY DEF IInv, TypeOK, OneCloser, Closing, Busy, Signal, registry, acts, stopAll,
     locals, calls
<1>4. Worked'
  BY DEF IInv, Worked, Handled, Ready, Signal, registry, acts, stopAll, locals,
     calls
<1>5. Owned'
  BY DEF IInv, Owned, Signal, registry, acts, stopAll, locals, calls
<1>6. Spawning'
  BY DEF IInv, TypeOK, Spawning, Ready, Signal, registry, acts, stopAll, locals,
     calls
<1>7. Stoppable'
  BY DEF IInv, TypeOK, Stoppable, Ready, Signal, registry, acts, stopAll, locals,
     calls
<1> QED
  BY <1>1, <1>2, <1>3, <1>4, <1>5, <1>6, <1>7 DEF IInv

-----------------------------------------------------------------------------
(* Theorems                                                                *)

LEMMA InitInv == Init => IInv
<1> SUFFICES ASSUME Init PROVE IInv
  OBVIOUS
<1>1. TypeOK
  <2>1. \A S : <<>> \in Seq(S)
    BY EmptySeq
  <2>2. /\ state \in [Actors -> ActorStates] /\ told \in [Actors -> BOOLEAN]
        /\ alive \in [Actors -> BOOLEAN] /\ served \in [Users -> BOOLEAN] /\ heard \in [Users -> Seq(AllNames)]
        /\ actors \in [AllNames -> Actors \cup {NoActor}] /\ faults \in 0..MaxFaults
    BY <2>1, DistinctProcs DEF Init, ActorStates
  <2>3. /\ pc \in [Procs -> Steps] /\ copy \in [Procs -> Seq(Users)]
        /\ result \in [Procs -> {"none", "ok", "err", "notReady", "stopped"}]
        /\ arg \in [Procs -> AllNames] /\ target \in [Procs -> Actors \cup {NoActor}]
        /\ \A p \in Procs : pc[p] = "idle"
    BY <2>1, Distinct DEF Init, Steps
  <2> QED
    BY <2>1, <2>2, <2>3 DEF Init, TypeOK, Entries
<1>2. /\ \A p \in Procs : pc[p] = "idle"
      /\ \A n \in AllNames : actors[n] = NoActor
      /\ \A a \in Loose : state[a] = "Started"
      /\ \A a \in Spawners : state[a] = "Initialized" /\ ~alive[a]
      /\ \A a \in Actors : ~told[a]
      /\ order = <<>> /\ entries = <<>> /\ closing = <<>> /\ freed = Actors
  BY Distinct DEF Init
<1>3. RegistryConsistent
  BY <1>2 DEF RegistryConsistent
<1>4. OneCloser
  BY <1>2, Distinct DEF OneCloser, Closing, Busy
<1>5. Worked
  BY <1>2 DEF Worked
<1>6. Owned
  BY <1>2 DEF Owned
<1>7. Spawning
  BY <1>2, Distinct DEF Spawning, Ready
<1>8. Stoppable
  BY <1>2, Distinct DEF Stoppable
<1> QED
  BY <1>1, <1>3, <1>4, <1>5, <1>6, <1>7, <1>8 DEF IInv

LEMMA StepInv == IInv /\ [Next]_vars => IInv'
<1> SUFFICES ASSUME IInv, [Next]_vars PROVE IInv'
  OBVIOUS
<1>1. CASE UNCHANGED vars
  <2>1. /\ UNCHANGED <<actors, order, stopped, freed, state, alive, told, faults, served, entries, errs>>
        /\ UNCHANGED <<closing, handlers, heard, signal, cast, pc, result, arg, target, copy>>
    BY <1>1 DEF vars, world, registry, acts, stopAll, rest, calls, locals
  <2>2. TypeOK'
    BY <2>1 DEF IInv, TypeOK
  <2>3. RegistryConsistent' /\ Owned'
    BY <2>1 DEF IInv, RegistryConsistent, Owned
  <2>4. OneCloser'
    BY <2>1 DEF IInv, OneCloser, Closing
  <2>5. Worked'
    BY <2>1 DEF IInv, Worked, Handled, Ready
  <2>6. Spawning' /\ Stoppable'
    BY <2>1 DEF IInv, Spawning, Stoppable, Ready
  <2> QED
    BY <2>2, <2>3, <2>4, <2>5, <2>6 DEF IInv
<1>2. ASSUME NEW p \in Spawners, Spawn(p) \/ \E n \in AllNames : SpawnStarts(p, n)
      PROVE  IInv'
  BY <1>2, SpawnStartsInv, SpawnWaitsInv, SpawnRegistersInv DEF Spawn
<1>3. ASSUME NEW u \in Users, UserCalls(u) PROVE IInv'
  BY <1>3, OnEventInv, UserRegistersInv, UnregisterInv, LookupInv DEF UserCalls
<1>4. ASSUME NEW u \in Users, UserGoesOn(u) PROVE IInv'
  BY <1>4, DispatchInv, EnqueueInv, EnqueueStoppedInv, EnqueueGivesUpInv, AnsweredInv,
     AwaitTimerInv, ActorServesInv DEF UserGoesOn, Ask
<1>5. ASSUME NEW s \in Closers, Close(s) \/ StopAll(s) PROVE IInv'
  BY <1>5, CloseInv, StopNextInv, StopAllReturnsInv DEF StopAll
<1>6. ASSUME NEW s \in Waiters, AwaitShutdown(s) PROVE IInv'
  BY <1>6, AwaitShutdownInv
<1>7. ASSUME NEW p \in Procs, Stop(p) \/ StopReturns(p) \/ Emit(p) \/ CallHandler(p)
      PROVE  IInv'
  BY <1>7, StopCASInv, StopWaitsInv, StopReturnsInv, EmitEventInv, EmittedInv, CallHandlerInv DEF Stop, Emit
<1>8. ASSUME NEW a \in Actors, ActorStarts(a) \/ ActorFails(a) \/ ActorExits(a) PROVE IInv'
  BY <1>8, ActorStartsInv, ActorFailsInv, ActorExitsInv
<1>9. CASE Signal
  BY <1>9, SignalInv
<1> QED
  BY <1>1, <1>2, <1>3, <1>4, <1>5, <1>6, <1>7, <1>8, <1>9 DEF Next

\* Every reachable state satisfies the inductive invariant, whatever the calls,
\* the actors that fail and the order in which StopAll meets them.
THEOREM Invariant == Spec => []IInv
BY InitInv, StepInv, PTL DEF Spec

\* The variables have their types: no call dispatches to, or stops, a nil actor,
\* although names are freed and taken again while calls hold what they looked up.
THEOREM TypeCorrect == Spec => []TypeOK
<1>1. IInv => TypeOK
  BY DEF IInv
<1> QED
  BY Invariant, <1>1, PTL

\* The map of the registry and the order of registration agree at every moment,
\* tombstones and names that are taken again included.
THEOREM RegistryAgrees == Spec => []RegistryConsistent
<1>1. IInv => RegistryConsistent
  BY DEF IInv
<1> QED
  BY Invariant, <1>1, PTL

LEMMA Done == ASSUME IInv, entries = <<>>, NEW i \in 1..Len(closing) PROVE Handled(closing[i])
<1>1. Len(entries) = 0 /\ Len(closing) \in Nat
  BY LenProperties DEF IInv, TypeOK, Entries
<1>2. i \in 1..(Len(closing) - Len(entries))
  BY <1>1
<1> QED
  BY <1>2 DEF IInv, Worked

\* When the StopAll that closed the system has returned, each actor that was the
\* system's and still runs has been told to stop or is in the error of StopAll; one
\* whose Spawn failed and that runs untold has panicked, or was late.
THEOREM ShutdownLeavesNothing == Spec => []NothingSurvives
<1>1. IInv => NothingSurvives
  <2> SUFFICES ASSUME IInv, NEW s \in Closers, ShutDown(s),
                      NEW a \in Actors, alive[a], ~told[a]
               PROVE  /\ a \in freed \/ \E i \in DOMAIN closing :
                                          closing[i].managed = a /\ closing[i].name \in errs
                      /\ a \in Spawners /\ pc[a] = "returned" /\ result[a] = "err"
                           => state[a] = "Failed"
    BY DEF NothingSurvives
  <2>1. stopped /\ entries = <<>>
    BY DEF IInv, OneCloser, Closing, ShutDown
  <2>2. a \in freed \/ \E i \in DOMAIN closing :
                         closing[i].managed = a /\ closing[i].name \in errs
    <3> SUFFICES ASSUME a \notin freed
                 PROVE  \E i \in DOMAIN closing :
                          closing[i].managed = a /\ closing[i].name \in errs
      OBVIOUS
    <3>1. PICK i \in 1..Len(closing) : closing[i].managed = a
      BY <2>1 DEF IInv, Owned
    <3>2. i \in DOMAIN closing
      BY LenProperties DEF IInv, TypeOK, Entries
    <3> QED
      BY <2>1, <3>1, <3>2, Done DEF Handled
  <2>3. ASSUME a \in Spawners, pc[a] = "returned", result[a] = "err"
        PROVE  state[a] = "Failed"
    <3>1. state[a] \in ActorStates
      BY DEF IInv, TypeOK
    <3>2. state[a] \notin {"Initialized", "Launched", "Started", "Stopping", "Stopped"}
      BY <2>3 DEF IInv, Spawning, Stoppable
    <3> QED
      BY <3>1, <3>2 DEF ActorStates
  <2> QED
    BY <2>2, <2>3
<1> QED
  BY Invariant, <1>1, PTL

\* A StopAll that returns nil has told each of the system's actors to stop.
THEOREM NilToldAll == Spec => []NilMeansTold
<1>1. IInv => NilMeansTold
  <2> SUFFICES ASSUME IInv, NEW s \in Closers, pc[s] = "returned", result[s] = "ok",
                      NEW i \in DOMAIN closing
               PROVE  told[closing[i].managed]
    BY DEF NilMeansTold
  <2>1. entries = <<>> /\ errs = {}
    BY DEF IInv, OneCloser
  <2>2. i \in 1..Len(closing)
    BY LenProperties DEF IInv, TypeOK, Entries
  <2> QED
    BY <2>1, <2>2, Done DEF Handled
<1> QED
  BY Invariant, <1>1, PTL
===============================================================================
