--------------------------- MODULE SupervisorProofs ---------------------------
(***************************************************************************)
(* Theorems about Supervisor, for any number of children, of restarts and  *)
(* of faults, any limit of restarts, and both strategies.                  *)
(*                                                                         *)
(* IInv says what a process holds: a child, a ref that was started, and,   *)
(* for a monitor of its child's present version, that child's present ref. *)
(* OneMonitor adds what OneForOne makes of it: a child has one monitor, so *)
(* that the versions always agree. With the two the properties themselves  *)
(* are inductive.                                                          *)
(***************************************************************************)
EXTENDS SupervisorProps, TLAPS

HoldsChild == {"spawn", "publish", "bump", "pick", "stop", "awaitStop"}
HoldsRef   == {"publish", "watch", "terminated", "notified", "stop", "awaitStop"}

\* A process that is to do something with a child or a ref has one.
Held ==
  \A p \in Procs :
    /\ pc[p] \in HoldsChild => at[p] \in Children
    /\ pc[p] \in HoldsRef => held[p] \in Refs /\ held[p] <= born

\* A ref that is not started has no child, no state and no monitor; one that has
\* exited was told to, and does not run.
Started ==
  /\ \A r \in Refs : r <= born => child[r] \in Children
  /\ \A r \in Refs : r > born => rstate[r] = "Initialized" /\ ~leaving[r] /\ pc[r] = "idle"
  /\ \A c \in Children : ref[c] <= born
  /\ \A r \in Refs : rdone[r] => leaving[r]
  /\ \A r \in Refs : leaving[r] => rstate[r] # "Started"

\* A ref that is yet to be published has no monitor, and one process has it.
Unpublished ==
  \A p \in Procs : pc[p] = "publish" =>
    /\ child[held[p]] = at[p]
    /\ pc[held[p]] = "idle"
    /\ \A q \in Procs : pc[q] = "publish" /\ held[q] = held[p] => q = p

\* A monitor of the present version watches the present ref, its own.
Versions ==
  \A m \in Refs :
    /\ pc[m] # "idle" => ref[child[m]] # 0 /\ ver[m] <= version[child[m]]
    /\ pc[m] # "idle" /\ ver[m] = version[child[m]] =>
         ref[child[m]] = m /\ (pc[m] \in {"watch", "terminated", "notified"} => held[m] = m)
    /\ pc[m] \in {"terminated", "notified"} => rdone[held[m]]

IInv == TypeOK /\ Held /\ Started /\ Unpublished /\ Versions

Active == {"read", "watch", "terminated", "notified", "spawn", "publish"}

\* Under OneForOne: a child has at most one monitor, that of its ref, and it
\* acts when the ref has exited; StartAll has no monitors before it.
OneMonitor ==
  strategy = "OneForOne" =>
    /\ \A m \in Refs :
         /\ pc[m] \in Active => ref[child[m]] = m /\ ver[m] = version[child[m]]
         /\ pc[m] \in {"terminated", "notified", "spawn", "publish"} => rdone[m]
         /\ pc[m] \in {"spawn", "publish"} => at[m] = child[m]
         /\ pc[m] \in {"idle", "read", "watch", "terminated"} => told[m] = 0
         /\ pc[m] \notin {"stale", "bump", "stop", "awaitStop"}
    /\ pc[StartAll] \in {"idle", "rejected", "spawn", "publish", "startErr", "returned"}
    /\ pc[StartAll] = "idle" => \A c \in Children : ref[c] = 0
    /\ pc[StartAll] \in {"spawn", "publish"} =>
         \A c \in Children : c >= at[StartAll] => ref[c] = 0
    /\ pc[StopAll] \notin {"spawn", "publish"}

\* NoOrphan, over the refs.
Kept ==
  strategy = "OneForOne" =>
    \A r \in Refs : r <= born =>
      rdone[r] \/ Current(r) \/ \E p \in Procs : pc[p] = "publish" /\ held[p] = r

OneInv == OneMonitor /\ Kept /\ ToldOfTheDead /\ RunningIsWatched

-----------------------------------------------------------------------------
\* The arithmetic of processes, refs and children, which are opaque from here on.
LEMMA Numbers ==
  /\ Refs \subseteq Procs /\ StartAll \in Procs \ Refs /\ StopAll \in Procs \ Refs
  /\ \A p \in Procs : p \in Refs \/ p = StartAll \/ p = StopAll
  /\ StartAll # StopAll
  /\ \A r \in 0..MaxRefs : r # 0 => r \in Refs
  /\ \A r \in Refs : r # 0 /\ r \in 0..MaxRefs
  /\ \A p \in Procs : p \in Nat
  /\ \A c \in Children : c \in 0..NumChildren /\ (c < NumChildren => c + 1 \in Children)
  /\ \A c \in Children : c > 1 => c - 1 \in Children
  /\ 0 \in 0..NumChildren /\ 0 \in 0..MaxRefs /\ 1 \in Children /\ NumChildren \in Children
  /\ \A n \in Nat : n + 1 \in Nat
BY Bounds DEF Refs, Procs, StartAll, StopAll, Children

LEMMA NextStopTypes ==
  ASSUME TypeOK, NEW p \in Procs, at[p] \in Children, NextStop(p)
  PROVE  pc' \in [Procs -> ProcSteps] /\ at' \in [Procs -> 0..NumChildren]
BY Bounds, Numbers, SMTT(30) DEF TypeOK, NextStop, GotoAt, Goto, ProcSteps

LEMMA InitInv == Init => IInv /\ OneInv
<1> SUFFICES ASSUME Init PROVE IInv /\ OneInv
  OBVIOUS
<1>1. TypeOK
  <2>1. /\ pc \in [Procs -> ProcSteps] /\ at \in [Procs -> 0..NumChildren]
        /\ held \in [Procs -> 0..MaxRefs]
    BY Numbers DEF Init, ProcSteps
  <2>2. /\ ref \in [Children -> 0..MaxRefs] /\ version \in [Children -> Nat]
        /\ child \in [Refs -> 0..NumChildren] /\ rstate \in [Refs -> RefStates]
    BY Numbers DEF Init, RefStates
  <2>3. recent \in Nat /\ born \in 0..MaxRefs /\ faults \in 0..MaxFaults[strategy]
    BY Bounds DEF Init
  <2>4. ver \in [Refs -> Nat] /\ told \in [Refs -> Nat]
    BY DEF Init
  <2> QED
    BY <2>1, <2>2, <2>3, <2>4 DEF Init, TypeOK
<1>2. Held /\ Started /\ Unpublished /\ Versions
  BY Numbers DEF Init, Held, Started, Unpublished, Versions, HoldsChild, HoldsRef
<1>3. OneMonitor /\ RunningIsWatched
  BY Numbers DEF Init, OneMonitor, RunningIsWatched, Active
<1>4. Kept /\ ToldOfTheDead
  BY Numbers DEF Init, Kept, ToldOfTheDead
<1> QED
  BY <1>1, <1>2, <1>3, <1>4 DEF IInv, OneInv

-----------------------------------------------------------------------------
(* Each action preserves IInv                                              *)

LEMMA StartAllCheckInv ==
  ASSUME IInv, StartAllCheck PROVE IInv'
<1>1. TypeOK'
  BY Numbers DEF IInv, TypeOK, ProcSteps, StartAllCheck, Goto, GotoAt, sup, actors
<1>2. Held'
  BY Numbers DEF IInv, TypeOK, Held, HoldsChild, HoldsRef, StartAllCheck, Goto,
     GotoAt, sup, actors
<1>3. Started'
  BY Numbers DEF IInv, TypeOK, Started, StartAllCheck, Goto, GotoAt, sup, actors
<1>4. Unpublished'
  BY Numbers DEF IInv, TypeOK, Unpublished, Held, HoldsRef, StartAllCheck, Goto,
     GotoAt, sup, actors
<1>5. Versions'
  BY Numbers DEF IInv, TypeOK, Started, Versions, StartAllCheck, Goto, GotoAt, sup,
     actors
<1> QED
  BY <1>1, <1>2, <1>3, <1>4, <1>5 DEF IInv

LEMMA SpecStartInv ==
  ASSUME IInv, NEW p \in Procs, SpecStart(p) PROVE IInv'
<1>1. TypeOK'
  BY Bounds, Numbers DEF IInv, TypeOK, ProcSteps, RefStates, Held, HoldsChild,
     HoldsRef, Started, Versions, SpecStart, Goto, SetState, sup
<1>2. Held'
  BY Bounds, Numbers DEF IInv, TypeOK, Held, HoldsChild, HoldsRef, Started,
     Versions, SpecStart, Goto, SetState, sup
<1>3. Started'
  BY Bounds, Numbers DEF IInv, TypeOK, Started, Held, HoldsRef, HoldsChild,
     Versions, SpecStart, Goto, SetState, sup
<1>4. Unpublished'
  BY Bounds, Numbers DEF IInv, TypeOK, Unpublished, Held, HoldsRef, Started,
     HoldsChild, SpecStart, Goto, SetState, sup
<1>5. Versions'
  BY DEF IInv, TypeOK, Started, Versions, SpecStart, Goto, SetState, sup
<1> QED
  BY <1>1, <1>2, <1>3, <1>4, <1>5 DEF IInv

LEMMA SpecStartFailsInv ==
  ASSUME IInv, NEW p \in Procs, SpecStartFails(p) PROVE IInv'
<1>1. TypeOK'
  BY Numbers DEF IInv, TypeOK, ProcSteps, SpecStartFails, Goto, GotoAt, NextStart,
     sup, actors
<1>2. Held'
  BY Numbers DEF IInv, TypeOK, Held, HoldsChild, HoldsRef, SpecStartFails, Goto,
     GotoAt, NextStart, sup, actors
<1>3. Started'
  BY Numbers DEF IInv, TypeOK, Started, SpecStartFails, Goto, GotoAt, NextStart,
     sup, actors
<1>4. Unpublished'
  BY Numbers DEF IInv, TypeOK, Unpublished, Held, HoldsRef, SpecStartFails, Goto,
     GotoAt, NextStart, sup, actors
<1>5. Versions'
  BY Numbers DEF IInv, TypeOK, Started, Versions, SpecStartFails, Goto, GotoAt,
     NextStart, sup, actors
<1> QED
  BY <1>1, <1>2, <1>3, <1>4, <1>5 DEF IInv

LEMMA MonitorReadInv ==
  ASSUME IInv, NEW m \in Refs, MonitorRead(m) PROVE IInv'
<1>1. TypeOK'
  BY Bounds, Numbers DEF IInv, TypeOK, ProcSteps, RefStates, Held, HoldsChild,
     HoldsRef, Started, Versions, MonitorRead, Goto, sup, actors
<1>2. Held'
  BY Bounds, Numbers DEF IInv, TypeOK, Held, HoldsChild, HoldsRef, Started,
     Versions, MonitorRead, Goto, sup, actors
<1>3. Started'
  BY DEF IInv, TypeOK, Started, MonitorRead, Goto, sup, actors
<1>4. Unpublished'
  BY DEF IInv, TypeOK, Unpublished, MonitorRead, Goto, sup, actors
<1>5. Versions'
  BY DEF IInv, TypeOK, Started, Versions, MonitorRead, Goto, sup, actors
<1> QED
  BY <1>1, <1>2, <1>3, <1>4, <1>5 DEF IInv

LEMMA MonitorCtxDoneInv ==
  ASSUME IInv, NEW m \in Refs, MonitorCtxDone(m) PROVE IInv'
<1>1. TypeOK'
  BY DEF IInv, TypeOK, ProcSteps, MonitorCtxDone, Goto, sup, actors
<1>2. Held'
  BY DEF IInv, TypeOK, Held, HoldsChild, HoldsRef, MonitorCtxDone, Goto, sup,
     actors
<1>3. Started'
  BY DEF IInv, TypeOK, Started, MonitorCtxDone, Goto, sup, actors
<1>4. Unpublished'
  BY DEF IInv, TypeOK, Unpublished, MonitorCtxDone, Goto, sup, actors
<1>5. Versions'
  BY DEF IInv, TypeOK, Started, Versions, MonitorCtxDone, Goto, sup, actors
<1> QED
  BY <1>1, <1>2, <1>3, <1>4, <1>5 DEF IInv

LEMMA MonitorDoneInv ==
  ASSUME IInv, NEW m \in Refs, MonitorDone(m) PROVE IInv'
<1>1. TypeOK'
  BY DEF IInv, TypeOK, ProcSteps, MonitorDone, Goto, sup, actors
<1>2. Held'
  BY DEF IInv, TypeOK, Held, HoldsChild, HoldsRef, MonitorDone, Goto, sup, actors
<1>3. Started'
  BY DEF IInv, TypeOK, Started, MonitorDone, Goto, sup, actors
<1>4. Unpublished'
  BY DEF IInv, TypeOK, Unpublished, MonitorDone, Goto, sup, actors
<1>5. Versions'
  BY DEF IInv, TypeOK, Started, Versions, MonitorDone, Goto, sup, actors
<1> QED
  BY <1>1, <1>2, <1>3, <1>4, <1>5 DEF IInv

LEMMA NotifyInv ==
  ASSUME IInv, NEW m \in Refs, Notify(m) PROVE IInv'
<1>1. TypeOK'
  BY Bounds, Numbers DEF IInv, TypeOK, ProcSteps, RefStates, Held, HoldsChild,
     HoldsRef, Started, Versions, Notify, Goto, sup, actors
<1>2. Held'
  BY DEF IInv, TypeOK, Held, HoldsChild, HoldsRef, Notify, Goto, sup, actors
<1>3. Started'
  BY DEF IInv, TypeOK, Started, Notify, Goto, sup, actors
<1>4. Unpublished'
  BY DEF IInv, TypeOK, Unpublished, Notify, Goto, sup, actors
<1>5. Versions'
  BY DEF IInv, TypeOK, Started, Versions, Notify, Goto, sup, actors
<1> QED
  BY <1>1, <1>2, <1>3, <1>4, <1>5 DEF IInv

LEMMA DecideInv ==
  ASSUME IInv, NEW m \in Refs, Decide(m) PROVE IInv'
<1>1. TypeOK'
  BY Numbers, SMTT(30) DEF IInv, TypeOK, ProcSteps, Decide, Goto, GotoAt, Restart,
     CountRestart, actors
<1>2. Held'
  BY Numbers DEF IInv, TypeOK, Held, HoldsChild, HoldsRef, Started, Decide, Goto,
     GotoAt, Restart, CountRestart, actors
<1>3. Started'
  BY Numbers DEF IInv, TypeOK, Started, Decide, Goto, GotoAt, Restart,
     CountRestart, actors
<1>4. Unpublished'
  BY Numbers DEF IInv, TypeOK, Unpublished, Held, HoldsRef, Decide, Goto, GotoAt,
     Restart, CountRestart, actors
<1>5. Versions'
  BY Numbers DEF IInv, TypeOK, Started, Versions, Decide, Goto, GotoAt, Restart,
     CountRestart, actors
<1> QED
  BY <1>1, <1>2, <1>3, <1>4, <1>5 DEF IInv

LEMMA BumpInv ==
  ASSUME IInv, NEW m \in Refs, Bump(m) PROVE IInv'
<1>1. TypeOK'
  <2>1. at[m] \in Children /\ m \in Procs
    BY Numbers DEF IInv, Held, Bump, HoldsChild
  <2>2. version' \in [Children -> Nat] /\ held' \in [Procs -> 0..MaxRefs]
    BY <2>1, Numbers DEF IInv, TypeOK, Bump, PickRef
  <2>3. CASE ref[at[m]] = 0
    BY <2>1, <2>2, <2>3, NextStopTypes DEF IInv, TypeOK, Bump, PickRef, actors
  <2>4. CASE ref[at[m]] # 0
    BY <2>1, <2>2, <2>4 DEF IInv, TypeOK, Bump, PickRef, Goto, ProcSteps, actors
  <2> QED
    BY <2>3, <2>4
<1>2. Held'
  BY Numbers DEF IInv, TypeOK, Held, HoldsChild, HoldsRef, Started, Bump, Goto,
     GotoAt, NextStop, PickRef, actors
<1>3. Started'
  BY Numbers DEF IInv, TypeOK, Started, Bump, Goto, GotoAt, NextStop, PickRef,
     actors
<1>4. Unpublished'
  BY Numbers DEF IInv, TypeOK, Unpublished, Held, HoldsRef, Bump, Goto, GotoAt,
     NextStop, PickRef, actors
<1>5. Versions'
  BY Numbers DEF IInv, TypeOK, Started, Versions, Bump, Goto, GotoAt, NextStop,
     PickRef, actors
<1> QED
  BY <1>1, <1>2, <1>3, <1>4, <1>5 DEF IInv

LEMMA StopAllCheckInv ==
  ASSUME IInv, StopAllCheck PROVE IInv'
<1>1. TypeOK'
  BY Numbers DEF IInv, TypeOK, ProcSteps, StopAllCheck, Goto, GotoAt, actors
<1>2. Held'
  BY Numbers DEF IInv, TypeOK, Held, HoldsChild, HoldsRef, StopAllCheck, Goto,
     GotoAt, actors
<1>3. Started'
  BY Numbers DEF IInv, TypeOK, Started, StopAllCheck, Goto, GotoAt, actors
<1>4. Unpublished'
  BY Numbers DEF IInv, TypeOK, Unpublished, Held, HoldsRef, StopAllCheck, Goto,
     GotoAt, actors
<1>5. Versions'
  BY Numbers DEF IInv, TypeOK, Started, Versions, StopAllCheck, Goto, GotoAt,
     actors
<1> QED
  BY <1>1, <1>2, <1>3, <1>4, <1>5 DEF IInv

LEMMA StopAllPickInv ==
  ASSUME IInv, StopAllPick PROVE IInv'
<1>1. TypeOK'
  <2>1. at[StopAll] \in Children
    BY Numbers DEF IInv, Held, StopAllPick, HoldsChild
  <2>2. CASE ref[at[StopAll]] = 0
    BY <2>1, <2>2, Numbers, NextStopTypes DEF IInv, TypeOK, StopAllPick, PickRef, sup, actors
  <2>3. CASE ref[at[StopAll]] # 0
    BY <2>1, <2>3, Numbers DEF IInv, TypeOK, StopAllPick, PickRef, Goto, ProcSteps, sup, actors
  <2> QED
    BY <2>2, <2>3
<1>2. Held'
  BY Numbers DEF IInv, TypeOK, Held, HoldsChild, HoldsRef, Started, StopAllPick,
     Goto, GotoAt, NextStop, PickRef, sup, actors
<1>3. Started'
  BY Numbers DEF IInv, TypeOK, Started, StopAllPick, Goto, GotoAt, NextStop,
     PickRef, sup, actors
<1>4. Unpublished'
  BY Numbers DEF IInv, TypeOK, Unpublished, Held, HoldsRef, StopAllPick, Goto,
     GotoAt, NextStop, PickRef, sup, actors
<1>5. Versions'
  BY Numbers DEF IInv, TypeOK, Started, Versions, StopAllPick, Goto, GotoAt,
     NextStop, PickRef, sup, actors
<1> QED
  BY <1>1, <1>2, <1>3, <1>4, <1>5 DEF IInv

LEMMA StopRefInv ==
  ASSUME IInv, NEW p \in Procs, StopRef(p) PROVE IInv'
<1>1. TypeOK'
  <2>1. held[p] \in Refs /\ at[p] \in Children
    BY DEF IInv, Held, StopRef, HoldsChild, HoldsRef
  <2>2. CASE rstate[held[p]] = "Started"
    BY <2>1, <2>2 DEF IInv, TypeOK, StopRef, SetState, Goto, ProcSteps, RefStates, sup
  <2>3. CASE rstate[held[p]] # "Started"
    BY <2>1, <2>3, NextStopTypes DEF IInv, TypeOK, StopRef, sup
  <2> QED
    BY <2>2, <2>3
<1>2. Held'
  BY Numbers DEF IInv, TypeOK, Held, HoldsChild, HoldsRef, StopRef, Goto, GotoAt,
     SetState, NextStop, sup
<1>3. Started'
  <2>1. held[p] \in Refs /\ held[p] <= born
    BY DEF IInv, Held, StopRef, HoldsRef
  <2>2. pc[p] # "idle" /\ \A q \in Procs : q # p => pc'[q] = pc[q]
    BY DEF IInv, TypeOK, StopRef, Goto, GotoAt, NextStop
  <2>3. CASE rstate[held[p]] = "Started"
    BY <2>1, <2>2, <2>3, Numbers, SMTT(30) DEF IInv, TypeOK, Started, StopRef, SetState, sup
  <2>4. CASE rstate[held[p]] # "Started"
    BY <2>2, <2>4, Numbers DEF IInv, TypeOK, Started, StopRef, sup
  <2> QED
    BY <2>3, <2>4
<1>4. Unpublished'
  BY Numbers DEF IInv, TypeOK, Unpublished, Held, HoldsRef, StopRef, Goto, GotoAt,
     SetState, NextStop, sup
<1>5. Versions'
  BY Numbers DEF IInv, TypeOK, Started, Versions, StopRef, Goto, GotoAt, SetState,
     NextStop, sup
<1> QED
  BY <1>1, <1>2, <1>3, <1>4, <1>5 DEF IInv

LEMMA StopSeesDoneInv ==
  ASSUME IInv, NEW p \in Procs, StopSeesDone(p) PROVE IInv'
<1>1. TypeOK'
  <2>1. held[p] \in Refs /\ at[p] \in Children
    BY DEF IInv, Held, StopSeesDone, HoldsChild, HoldsRef
  <2> QED
    BY <2>1, NextStopTypes DEF IInv, TypeOK, StopSeesDone, SetState, RefStates, sup
<1>2. Held'
  BY Numbers DEF IInv, TypeOK, Held, HoldsChild, HoldsRef, StopSeesDone, Goto,
     GotoAt, SetState, NextStop, sup
<1>3. Started'
  BY Numbers DEF IInv, TypeOK, Started, StopSeesDone, Goto, GotoAt, SetState,
     NextStop, sup
<1>4. Unpublished'
  BY Numbers DEF IInv, TypeOK, Unpublished, Held, HoldsRef, StopSeesDone, Goto,
     GotoAt, SetState, NextStop, sup
<1>5. Versions'
  BY Numbers DEF IInv, TypeOK, Started, Versions, StopSeesDone, Goto, GotoAt,
     SetState, NextStop, sup
<1> QED
  BY <1>1, <1>2, <1>3, <1>4, <1>5 DEF IInv

LEMMA StopTimerInv ==
  ASSUME IInv, NEW p \in Procs, StopTimer(p) PROVE IInv'
<1>1. TypeOK'
  <2>1. held[p] \in Refs /\ at[p] \in Children
    BY DEF IInv, Held, StopTimer, HoldsChild, HoldsRef
  <2> QED
    BY <2>1, NextStopTypes DEF IInv, TypeOK, StopTimer, SetState, RefStates, sup
<1>2. Held'
  BY Numbers DEF IInv, TypeOK, Held, HoldsChild, HoldsRef, StopTimer, Goto, GotoAt,
     SetState, NextStop, sup
<1>3. Started'
  BY Numbers DEF IInv, TypeOK, Started, Held, HoldsRef, StopTimer, Goto, GotoAt,
     SetState, NextStop, sup
<1>4. Unpublished'
  BY Numbers DEF IInv, TypeOK, Unpublished, Held, HoldsRef, StopTimer, Goto,
     GotoAt, SetState, NextStop, sup
<1>5. Versions'
  BY Numbers DEF IInv, TypeOK, Started, Versions, StopTimer, Goto, GotoAt,
     SetState, NextStop, sup
<1> QED
  BY <1>1, <1>2, <1>3, <1>4, <1>5 DEF IInv

LEMMA RefFailsInv ==
  ASSUME IInv, NEW r \in Refs, RefFails(r) PROVE IInv'
<1>1. TypeOK'
  BY Bounds, Numbers DEF IInv, TypeOK, ProcSteps, RefStates, Held, HoldsChild,
     HoldsRef, Started, Versions, RefFails, SetState, Fault, sup, procs
<1>2. Held'
  BY DEF IInv, TypeOK, Held, HoldsChild, HoldsRef, RefFails, SetState, Fault, sup,
     procs
<1>3. Started'
  BY Numbers DEF IInv, TypeOK, Started, RefFails, SetState, Fault, sup, procs
<1>4. Unpublished'
  BY DEF IInv, TypeOK, Unpublished, RefFails, SetState, Fault, sup, procs
<1>5. Versions'
  BY DEF IInv, TypeOK, Started, Versions, RefFails, SetState, Fault, sup, procs
<1> QED
  BY <1>1, <1>2, <1>3, <1>4, <1>5 DEF IInv

LEMMA RefPanicsInv ==
  ASSUME IInv, NEW r \in Refs, RefPanics(r) PROVE IInv'
<1>1. TypeOK'
  BY Bounds, Numbers DEF IInv, TypeOK, ProcSteps, RefStates, Held, HoldsChild,
     HoldsRef, Started, Versions, RefPanics, SetState, Fault, sup, procs
<1>2. Held'
  BY DEF IInv, TypeOK, Held, HoldsChild, HoldsRef, RefPanics, SetState, Fault, sup,
     procs
<1>3. Started'
  BY Numbers DEF IInv, TypeOK, Started, RefPanics, SetState, Fault, sup, procs
<1>4. Unpublished'
  BY DEF IInv, TypeOK, Unpublished, RefPanics, SetState, Fault, sup, procs
<1>5. Versions'
  BY DEF IInv, TypeOK, Started, Versions, RefPanics, SetState, Fault, sup, procs
<1> QED
  BY <1>1, <1>2, <1>3, <1>4, <1>5 DEF IInv

LEMMA RefExitsInv ==
  ASSUME IInv, NEW r \in Refs, RefExits(r) PROVE IInv'
<1>1. TypeOK'
  BY DEF IInv, TypeOK, ProcSteps, RefExits, sup, procs
<1>2. Held'
  BY DEF IInv, TypeOK, Held, HoldsChild, HoldsRef, RefExits, sup, procs
<1>3. Started'
  BY DEF IInv, TypeOK, Started, RefExits, sup, procs
<1>4. Unpublished'
  BY DEF IInv, TypeOK, Unpublished, RefExits, sup, procs
<1>5. Versions'
  BY DEF IInv, TypeOK, Started, Versions, RefExits, sup, procs
<1> QED
  BY <1>1, <1>2, <1>3, <1>4, <1>5 DEF IInv

LEMMA OwnerStopsInv ==
  ASSUME IInv, NEW r \in Refs, OwnerStops(r) PROVE IInv'
<1>1. TypeOK'
  BY Bounds, Numbers DEF IInv, TypeOK, ProcSteps, RefStates, Held, HoldsChild,
     HoldsRef, Started, Versions, OwnerStops, SetState, Fault, sup, procs
<1>2. Held'
  BY DEF IInv, TypeOK, Held, HoldsChild, HoldsRef, OwnerStops, SetState, Fault,
     sup, procs
<1>3. Started'
  BY DEF IInv, TypeOK, Started, OwnerStops, SetState, Fault, sup, procs
<1>4. Unpublished'
  BY DEF IInv, TypeOK, Unpublished, OwnerStops, SetState, Fault, sup, procs
<1>5. Versions'
  BY DEF IInv, TypeOK, Started, Versions, OwnerStops, SetState, Fault, sup, procs
<1> QED
  BY <1>1, <1>2, <1>3, <1>4, <1>5 DEF IInv

LEMMA OwnerSeesDoneInv ==
  ASSUME IInv, NEW r \in Refs, OwnerSeesDone(r) PROVE IInv'
<1>1. TypeOK'
  BY Numbers DEF IInv, TypeOK, ProcSteps, RefStates, Held, HoldsChild, HoldsRef,
     OwnerSeesDone, SetState, sup, procs
<1>2. Held'
  BY DEF IInv, TypeOK, Held, HoldsChild, HoldsRef, OwnerSeesDone, SetState, sup,
     procs
<1>3. Started'
  BY DEF IInv, TypeOK, Started, OwnerSeesDone, SetState, sup, procs
<1>4. Unpublished'
  BY DEF IInv, TypeOK, Unpublished, OwnerSeesDone, SetState, sup, procs
<1>5. Versions'
  BY DEF IInv, TypeOK, Started, Versions, OwnerSeesDone, SetState, sup, procs
<1> QED
  BY <1>1, <1>2, <1>3, <1>4, <1>5 DEF IInv

LEMMA EndCtxInv ==
  ASSUME IInv, EndCtx PROVE IInv'
<1>1. TypeOK'
  BY DEF IInv, TypeOK, ProcSteps, EndCtx, sup, actors, procs
<1>2. Held'
  BY DEF IInv, TypeOK, Held, HoldsChild, HoldsRef, EndCtx, sup, actors, procs
<1>3. Started'
  BY DEF IInv, TypeOK, Started, EndCtx, sup, actors, procs
<1>4. Unpublished'
  BY DEF IInv, TypeOK, Unpublished, EndCtx, sup, actors, procs
<1>5. Versions'
  BY DEF IInv, TypeOK, Started, Versions, EndCtx, sup, actors, procs
<1> QED
  BY <1>1, <1>2, <1>3, <1>4, <1>5 DEF IInv

\* What Publish does, process by process and child by child.
LEMMA PublishEffect ==
  ASSUME IInv, NEW p \in Procs, Publish(p)
  PROVE  /\ at[p] \in Children /\ held[p] \in Refs /\ held[p] <= born
         /\ pc[p] = "publish" /\ pc[held[p]] = "idle" /\ child[held[p]] = at[p]
         /\ pc'[held[p]] = "read"
         /\ \/ pc'[p] = "returned"
            \/ /\ pc'[p] = "spawn" /\ at'[p] = at[p] + 1 /\ at[p] < NumChildren
               /\ p = StartAll \/ strategy = "AllForOne"
         /\ \A q \in Procs : q # p => held'[q] = held[q] /\ at'[q] = at[q]
         /\ \A q \in Procs : q # p /\ q # held[p] => pc'[q] = pc[q]
         /\ \A c \in Children :
              /\ ref'[c] = IF c = at[p] THEN held[p] ELSE ref[c]
              /\ version'[c] = IF c = at[p] THEN version[c] + 1 ELSE version[c]
         /\ \A m \in Refs : ver'[m] = IF m = held[p] THEN version[at[p]] + 1 ELSE ver[m]
         /\ UNCHANGED <<strategy, stopped, recent, ctxDone, actors, owner, seen, told>>
<1>1. at[p] \in Children /\ held[p] \in Refs /\ held[p] <= born /\ pc[p] = "publish"
  BY DEF IInv, Held, HoldsChild, HoldsRef, Publish
<1>2. pc[held[p]] = "idle" /\ child[held[p]] = at[p]
  BY <1>1 DEF IInv, Unpublished
<1>3. p # held[p] /\ held[p] \in Procs
  BY <1>1, <1>2, Numbers
<1>4. /\ \A c \in Children :
           /\ ref'[c] = IF c = at[p] THEN held[p] ELSE ref[c]
           /\ version'[c] = IF c = at[p] THEN version[c] + 1 ELSE version[c]
      /\ \A m \in Refs : ver'[m] = IF m = held[p] THEN version[at[p]] + 1 ELSE ver[m]
  BY <1>1 DEF IInv, TypeOK, Publish
<1>5. /\ pc'[held[p]] = "read"
      /\ \/ pc'[p] = "returned"
         \/ /\ pc'[p] = "spawn" /\ at'[p] = at[p] + 1 /\ at[p] < NumChildren
            /\ p = StartAll \/ strategy = "AllForOne"
      /\ \A q \in Procs : q # p => held'[q] = held[q] /\ at'[q] = at[q]
      /\ \A q \in Procs : q # p /\ q # held[p] => pc'[q] = pc[q]
  BY <1>3 DEF IInv, TypeOK, Publish
<1> QED
  BY <1>1, <1>2, <1>4, <1>5 DEF Publish

LEMMA PublishInv ==
  ASSUME IInv, NEW p \in Procs, Publish(p) PROVE IInv'
<1>1. TypeOK'
  <2>1. at[p] \in Children /\ held[p] \in Refs
    BY PublishEffect
  <2>2. ref' \in [Children -> 0..MaxRefs] /\ version' \in [Children -> Nat]
    BY <2>1, Numbers DEF IInv, TypeOK, Publish
  <2>3. version'[at[p]] \in Nat /\ ver' \in [Refs -> Nat] /\ held' \in [Procs -> 0..MaxRefs]
    BY <2>1, <2>2, Numbers DEF IInv, TypeOK, Publish
  <2>4. pc' \in [Procs -> ProcSteps] /\ at' \in [Procs -> 0..NumChildren]
    <3>1. {"read", "spawn", "returned"} \subseteq ProcSteps
      BY DEF ProcSteps
    <3>2. at[p] < NumChildren => at[p] + 1 \in 0..NumChildren
      BY <2>1, Numbers
    <3>3. CASE (p = StartAll \/ strategy = "AllForOne") /\ at[p] < NumChildren
      <4>1. pc' = [pc EXCEPT ![p] = "spawn", ![held[p]] = "read"]
            /\ at' = [at EXCEPT ![p] = at[p] + 1]
        BY <3>3 DEF Publish
      <4>2. pc' \in [Procs -> ProcSteps]
        BY <4>1, <3>1 DEF IInv, TypeOK
      <4>3. at' \in [Procs -> 0..NumChildren]
        BY <4>1, <3>2, <3>3 DEF IInv, TypeOK
      <4> QED
        BY <4>2, <4>3
    <3>4. CASE ~((p = StartAll \/ strategy = "AllForOne") /\ at[p] < NumChildren)
      BY <2>1, <3>1, <3>4, Numbers, SMTT(30) DEF IInv, TypeOK, Publish
    <3> QED
      BY <3>3, <3>4 DEF Publish
  <2> QED
    BY <2>2, <2>3, <2>4 DEF IInv, TypeOK, Publish, actors
<1>2. Held'
  <2> SUFFICES ASSUME NEW q \in Procs
               PROVE  /\ pc'[q] \in HoldsChild => at'[q] \in Children
                      /\ pc'[q] \in HoldsRef => held'[q] \in Refs /\ held'[q] <= born'
    BY DEF Held
  <2>1. CASE q = p
    BY <2>1, PublishEffect, Numbers DEF HoldsChild, HoldsRef
  <2>2. CASE q = held[p]
    BY <2>2, PublishEffect DEF HoldsChild, HoldsRef
  <2>3. CASE q # p /\ q # held[p]
    BY <2>3, PublishEffect DEF IInv, Held, actors
  <2> QED
    BY <2>1, <2>2, <2>3
<1>3. Started'
  BY PublishEffect, Numbers, SMTT(30) DEF IInv, TypeOK, Started, actors
<1>4. Unpublished'
  BY PublishEffect, Numbers DEF IInv, Unpublished, Held, HoldsRef, actors
<1>5. Versions'
  BY PublishEffect, Numbers, SMTT(30) DEF IInv, TypeOK, Started, Held, Versions, HoldsRef, actors
<1> QED
  BY <1>1, <1>2, <1>3, <1>4, <1>5 DEF IInv

LEMMA IInvStep == IInv /\ [Next]_vars => IInv'
<1> SUFFICES ASSUME IInv, [Next]_vars PROVE IInv'
  OBVIOUS
<1>1. CASE UNCHANGED vars
  BY <1>1 DEF vars, sup, actors, procs, IInv, TypeOK, Held, Started, Unpublished, Versions
<1>2. CASE StartAllCheck \/ StopAllCheck \/ StopAllPick \/ EndCtx
  BY <1>2, StartAllCheckInv, StopAllCheckInv, StopAllPickInv, EndCtxInv
<1>3. ASSUME NEW p \in Procs, StartChild(p) PROVE IInv'
  BY <1>3, SpecStartInv, SpecStartFailsInv, PublishInv DEF StartChild
<1>4. ASSUME NEW p \in Procs, StopChild(p) PROVE IInv'
  BY <1>4, StopRefInv, StopSeesDoneInv, StopTimerInv DEF StopChild
<1>5. ASSUME NEW r \in Refs, Monitor(r) PROVE IInv'
  BY <1>5, MonitorReadInv, MonitorCtxDoneInv, MonitorDoneInv, NotifyInv, DecideInv, BumpInv DEF Monitor
<1>6. ASSUME NEW r \in Refs, Actor(r) PROVE IInv'
  BY <1>6, RefFailsInv, RefPanicsInv, RefExitsInv, OwnerStopsInv, OwnerSeesDoneInv DEF Actor
<1> QED
  BY <1>1, <1>2, <1>3, <1>4, <1>5, <1>6 DEF Next

\* What the processes and monitors hold is right in every state.
THEOREM Invariant == Spec => []IInv
BY InitInv, IInvStep, PTL DEF Spec

-----------------------------------------------------------------------------
(* Each action preserves OneInv                                            *)

LEMMA StartAllCheckOne ==
  ASSUME IInv, OneInv, StartAllCheck PROVE OneInv'
<1>1. OneMonitor'
  BY Numbers DEF IInv, TypeOK, OneInv, OneMonitor, Active, StartAllCheck, Goto,
     GotoAt, sup, actors
<1>2. Kept'
  BY DEF IInv, TypeOK, OneInv, Kept, Current, StartAllCheck, Goto, GotoAt, sup,
     actors
<1>3. ToldOfTheDead'
  BY DEF IInv, TypeOK, OneInv, ToldOfTheDead, StartAllCheck, Goto, GotoAt, sup,
     actors
<1>4. RunningIsWatched'
  BY Numbers DEF IInv, TypeOK, OneInv, RunningIsWatched, Watching, StartAllCheck,
     Goto, GotoAt, sup, actors
<1> QED
  BY <1>1, <1>2, <1>3, <1>4 DEF OneInv

LEMMA SpecStartOne ==
  ASSUME IInv, OneInv, NEW p \in Procs, SpecStart(p) PROVE OneInv'
<1>1. OneMonitor'
  BY Numbers DEF IInv, TypeOK, OneInv, OneMonitor, Active, Started, Versions,
     SpecStart, Goto, SetState, sup
<1>2. Kept'
  BY Numbers DEF IInv, TypeOK, OneInv, Kept, Current, SpecStart, Goto, SetState,
     sup
<1>3. ToldOfTheDead'
  BY DEF IInv, TypeOK, OneInv, ToldOfTheDead, SpecStart, Goto, SetState, sup
<1>4. RunningIsWatched'
  BY Numbers DEF IInv, TypeOK, OneInv, RunningIsWatched, Watching, Started,
     Versions, SpecStart, Goto, SetState, sup
<1> QED
  BY <1>1, <1>2, <1>3, <1>4 DEF OneInv

LEMMA SpecStartFailsOne ==
  ASSUME IInv, OneInv, NEW p \in Procs, SpecStartFails(p) PROVE OneInv'
<1>1. OneMonitor'
  BY Numbers DEF IInv, TypeOK, OneInv, OneMonitor, Active, SpecStartFails, Goto,
     GotoAt, NextStart, sup, actors
<1>2. Kept'
  BY DEF IInv, TypeOK, OneInv, Kept, Current, SpecStartFails, Goto, GotoAt,
     NextStart, sup, actors
<1>3. ToldOfTheDead'
  BY DEF IInv, TypeOK, OneInv, ToldOfTheDead, SpecStartFails, Goto, GotoAt,
     NextStart, sup, actors
<1>4. RunningIsWatched'
  BY Numbers DEF IInv, TypeOK, OneInv, RunningIsWatched, Watching, SpecStartFails,
     Goto, GotoAt, NextStart, sup, actors
<1> QED
  BY <1>1, <1>2, <1>3, <1>4 DEF OneInv

LEMMA MonitorReadOne ==
  ASSUME IInv, OneInv, NEW m \in Refs, MonitorRead(m) PROVE OneInv'
<1>1. OneMonitor'
  BY DEF IInv, TypeOK, OneInv, OneMonitor, Active, MonitorRead, Goto, sup, actors
<1>2. Kept'
  BY DEF IInv, TypeOK, OneInv, Kept, Current, MonitorRead, Goto, sup, actors
<1>3. ToldOfTheDead'
  BY DEF IInv, TypeOK, OneInv, ToldOfTheDead, MonitorRead, Goto, sup, actors
<1>4. RunningIsWatched'
  BY DEF IInv, TypeOK, OneInv, RunningIsWatched, Watching, MonitorRead, Goto, sup,
     actors
<1> QED
  BY <1>1, <1>2, <1>3, <1>4 DEF OneInv

LEMMA MonitorCtxDoneOne ==
  ASSUME IInv, OneInv, NEW m \in Refs, MonitorCtxDone(m) PROVE OneInv'
<1>1. OneMonitor'
  BY DEF IInv, TypeOK, OneInv, OneMonitor, Active, MonitorCtxDone, Goto, sup,
     actors
<1>2. Kept'
  BY DEF IInv, TypeOK, OneInv, Kept, Current, MonitorCtxDone, Goto, sup, actors
<1>3. ToldOfTheDead'
  BY DEF IInv, TypeOK, OneInv, ToldOfTheDead, MonitorCtxDone, Goto, sup, actors
<1>4. RunningIsWatched'
  BY DEF IInv, TypeOK, OneInv, RunningIsWatched, Watching, MonitorCtxDone, Goto,
     sup, actors
<1> QED
  BY <1>1, <1>2, <1>3, <1>4 DEF OneInv

LEMMA MonitorDoneOne ==
  ASSUME IInv, OneInv, NEW m \in Refs, MonitorDone(m) PROVE OneInv'
<1>1. OneMonitor'
  BY Numbers DEF IInv, TypeOK, OneInv, OneMonitor, Active, Started, Versions,
     MonitorDone, Goto, sup, actors
<1>2. Kept'
  BY DEF IInv, TypeOK, OneInv, Kept, Current, MonitorDone, Goto, sup, actors
<1>3. ToldOfTheDead'
  BY DEF IInv, TypeOK, OneInv, ToldOfTheDead, MonitorDone, Goto, sup, actors
<1>4. RunningIsWatched'
  BY DEF IInv, TypeOK, OneInv, RunningIsWatched, Watching, MonitorDone, Goto, sup,
     actors
<1> QED
  BY <1>1, <1>2, <1>3, <1>4 DEF OneInv

LEMMA NotifyOne ==
  ASSUME IInv, OneInv, NEW m \in Refs, Notify(m) PROVE OneInv'
<1>1. OneMonitor'
  BY Numbers DEF IInv, TypeOK, OneInv, OneMonitor, Active, Started, Versions,
     Notify, Goto, sup, actors
<1>2. Kept'
  BY DEF IInv, TypeOK, OneInv, Kept, Current, Notify, Goto, sup, actors
<1>3. ToldOfTheDead'
  BY Bounds, Numbers DEF IInv, TypeOK, OneInv, ToldOfTheDead, OneMonitor, Active,
     Started, Versions, Held, HoldsRef, Notify, Goto, sup, actors
<1>4. RunningIsWatched'
  BY DEF IInv, TypeOK, OneInv, RunningIsWatched, Watching, Notify, Goto, sup,
     actors
<1> QED
  BY <1>1, <1>2, <1>3, <1>4 DEF OneInv

LEMMA DecideOne ==
  ASSUME IInv, OneInv, NEW m \in Refs, Decide(m) PROVE OneInv'
<1>1. OneMonitor'
  BY Numbers DEF IInv, TypeOK, OneInv, OneMonitor, Active, Decide, Goto, GotoAt,
     Restart, CountRestart, actors
<1>2. Kept'
  BY DEF IInv, TypeOK, OneInv, Kept, Current, Decide, Goto, GotoAt, Restart,
     CountRestart, actors
<1>3. ToldOfTheDead'
  BY DEF IInv, TypeOK, OneInv, ToldOfTheDead, Decide, Goto, GotoAt, Restart,
     CountRestart, actors
<1>4. RunningIsWatched'
  BY Numbers DEF IInv, TypeOK, OneInv, RunningIsWatched, Watching, Started,
     Versions, Decide, Goto, GotoAt, Restart, CountRestart, actors
<1> QED
  BY <1>1, <1>2, <1>3, <1>4 DEF OneInv

LEMMA BumpOne ==
  ASSUME IInv, OneInv, NEW m \in Refs, Bump(m) PROVE OneInv'
<1>1. OneMonitor'
  BY DEF IInv, TypeOK, OneInv, OneMonitor, Active, Bump, Goto, GotoAt, NextStop,
     PickRef, actors
<1>2. Kept'
  BY DEF IInv, TypeOK, OneInv, Kept, Current, Bump, Goto, GotoAt, NextStop,
     PickRef, actors
<1>3. ToldOfTheDead'
  BY DEF IInv, TypeOK, OneInv, ToldOfTheDead, Bump, Goto, GotoAt, NextStop,
     PickRef, actors
<1>4. RunningIsWatched'
  <2>1. at[m] \in Children /\ m \in Procs /\ pc[m] = "bump"
    BY Numbers DEF IInv, Held, Bump, HoldsChild
  <2>2. /\ version' = [version EXCEPT ![at[m]] = @ + 1] /\ held'[m] = ref[at[m]]
        /\ ref[at[m]] # 0 => pc'[m] = "stop"
        /\ \A q \in Procs : q # m => pc'[q] = pc[q] /\ held'[q] = held[q]
    BY <2>1 DEF IInv, TypeOK, Bump, PickRef, NextStop, Goto, GotoAt
  <2> SUFFICES ASSUME NEW c \in Children, ref[c] # 0, rstate[ref[c]] = "Started", ~ctxDone
               PROVE  Watching(c)' \/ \E q \in Procs : pc'[q] = "stop" /\ held'[q] = ref[c]
    BY DEF RunningIsWatched, Bump, actors
  <2>3. CASE c = at[m]
    BY <2>1, <2>2, <2>3
  <2>4. CASE c # at[m] /\ Watching(c)
    <3>1. PICK k \in Refs : /\ child[k] = c /\ ver[k] = version[c]
                            /\ pc[k] \in {"read", "watch", "terminated", "notified"}
      BY <2>4 DEF Watching
    <3>2. k # m /\ k \in Procs /\ version'[c] = version[c]
      BY <2>1, <2>2, <2>4, <3>1, Numbers DEF IInv, TypeOK
    <3> QED
      BY <2>2, <3>1, <3>2 DEF Watching, Bump, actors
  <2>5. CASE \E q \in Procs : pc[q] = "stop" /\ held[q] = ref[c]
    BY <2>1, <2>2, <2>5
  <2> QED
    BY <2>3, <2>4, <2>5 DEF OneInv, RunningIsWatched
<1> QED
  BY <1>1, <1>2, <1>3, <1>4 DEF OneInv

LEMMA StopAllCheckOne ==
  ASSUME IInv, OneInv, StopAllCheck PROVE OneInv'
<1>1. OneMonitor'
  BY Numbers DEF IInv, TypeOK, OneInv, OneMonitor, Active, StopAllCheck, Goto,
     GotoAt, actors
<1>2. Kept'
  BY DEF IInv, TypeOK, OneInv, Kept, Current, StopAllCheck, Goto, GotoAt, actors
<1>3. ToldOfTheDead'
  BY DEF IInv, TypeOK, OneInv, ToldOfTheDead, StopAllCheck, Goto, GotoAt, actors
<1>4. RunningIsWatched'
  BY DEF IInv, TypeOK, OneInv, RunningIsWatched, Watching, StopAllCheck, Goto,
     GotoAt, actors
<1> QED
  BY <1>1, <1>2, <1>3, <1>4 DEF OneInv

LEMMA StopAllPickOne ==
  ASSUME IInv, OneInv, StopAllPick PROVE OneInv'
<1>1. OneMonitor'
  BY Numbers DEF IInv, TypeOK, OneInv, OneMonitor, Active, StopAllPick, Goto,
     GotoAt, NextStop, PickRef, sup, actors
<1>2. Kept'
  BY DEF IInv, TypeOK, OneInv, Kept, Current, StopAllPick, Goto, GotoAt, NextStop,
     PickRef, sup, actors
<1>3. ToldOfTheDead'
  BY DEF IInv, TypeOK, OneInv, ToldOfTheDead, StopAllPick, Goto, GotoAt, NextStop,
     PickRef, sup, actors
<1>4. RunningIsWatched'
  BY Numbers DEF IInv, TypeOK, OneInv, RunningIsWatched, Watching, StopAllPick,
     Goto, GotoAt, NextStop, PickRef, sup, actors
<1> QED
  BY <1>1, <1>2, <1>3, <1>4 DEF OneInv

LEMMA StopRefOne ==
  ASSUME IInv, OneInv, NEW p \in Procs, StopRef(p) PROVE OneInv'
<1>1. OneMonitor'
  BY Numbers DEF IInv, TypeOK, OneInv, OneMonitor, Active, StopRef, Goto, GotoAt,
     SetState, NextStop, sup
<1>2. Kept'
  BY DEF IInv, TypeOK, OneInv, Kept, Current, StopRef, Goto, GotoAt, SetState,
     NextStop, sup
<1>3. ToldOfTheDead'
  BY DEF IInv, TypeOK, OneInv, ToldOfTheDead, StopRef, Goto, GotoAt, SetState,
     NextStop, sup
<1>4. RunningIsWatched'
  BY Numbers DEF IInv, TypeOK, OneInv, RunningIsWatched, Watching, StopRef, Goto,
     GotoAt, SetState, NextStop, sup
<1> QED
  BY <1>1, <1>2, <1>3, <1>4 DEF OneInv

LEMMA StopSeesDoneOne ==
  ASSUME IInv, OneInv, NEW p \in Procs, StopSeesDone(p) PROVE OneInv'
<1>1. OneMonitor'
  BY Numbers DEF IInv, TypeOK, OneInv, OneMonitor, Active, StopSeesDone, Goto,
     GotoAt, SetState, NextStop, sup
<1>2. Kept'
  BY DEF IInv, TypeOK, OneInv, Kept, Current, StopSeesDone, Goto, GotoAt, SetState,
     NextStop, sup
<1>3. ToldOfTheDead'
  BY DEF IInv, TypeOK, OneInv, ToldOfTheDead, StopSeesDone, Goto, GotoAt, SetState,
     NextStop, sup
<1>4. RunningIsWatched'
  BY Numbers DEF IInv, TypeOK, OneInv, RunningIsWatched, Watching, StopSeesDone,
     Goto, GotoAt, SetState, NextStop, sup
<1> QED
  BY <1>1, <1>2, <1>3, <1>4 DEF OneInv

LEMMA StopTimerOne ==
  ASSUME IInv, OneInv, NEW p \in Procs, StopTimer(p) PROVE OneInv'
<1>1. OneMonitor'
  BY Numbers DEF IInv, TypeOK, OneInv, OneMonitor, Active, StopTimer, Goto, GotoAt,
     SetState, NextStop, sup
<1>2. Kept'
  BY DEF IInv, TypeOK, OneInv, Kept, Current, StopTimer, Goto, GotoAt, SetState,
     NextStop, sup
<1>3. ToldOfTheDead'
  BY DEF IInv, TypeOK, OneInv, ToldOfTheDead, StopTimer, Goto, GotoAt, SetState,
     NextStop, sup
<1>4. RunningIsWatched'
  BY Numbers DEF IInv, TypeOK, OneInv, RunningIsWatched, Watching, StopTimer, Goto,
     GotoAt, SetState, NextStop, sup
<1> QED
  BY <1>1, <1>2, <1>3, <1>4 DEF OneInv

LEMMA RefFailsOne ==
  ASSUME IInv, OneInv, NEW r \in Refs, RefFails(r) PROVE OneInv'
<1>1. OneMonitor'
  BY DEF IInv, TypeOK, OneInv, OneMonitor, Active, RefFails, SetState, Fault, sup,
     procs
<1>2. Kept'
  BY DEF IInv, TypeOK, OneInv, Kept, Current, RefFails, SetState, Fault, sup, procs
<1>3. ToldOfTheDead'
  BY DEF IInv, TypeOK, OneInv, ToldOfTheDead, RefFails, SetState, Fault, sup, procs
<1>4. RunningIsWatched'
  BY DEF IInv, TypeOK, OneInv, RunningIsWatched, Watching, RefFails, SetState,
     Fault, sup, procs
<1> QED
  BY <1>1, <1>2, <1>3, <1>4 DEF OneInv

LEMMA RefPanicsOne ==
  ASSUME IInv, OneInv, NEW r \in Refs, RefPanics(r) PROVE OneInv'
<1>1. OneMonitor'
  BY DEF IInv, TypeOK, OneInv, OneMonitor, Active, RefPanics, SetState, Fault, sup,
     procs
<1>2. Kept'
  BY DEF IInv, TypeOK, OneInv, Kept, Current, RefPanics, SetState, Fault, sup,
     procs
<1>3. ToldOfTheDead'
  BY DEF IInv, TypeOK, OneInv, ToldOfTheDead, RefPanics, SetState, Fault, sup,
     procs
<1>4. RunningIsWatched'
  BY DEF IInv, TypeOK, OneInv, RunningIsWatched, Watching, RefPanics, SetState,
     Fault, sup, procs
<1> QED
  BY <1>1, <1>2, <1>3, <1>4 DEF OneInv

LEMMA RefExitsOne ==
  ASSUME IInv, OneInv, NEW r \in Refs, RefExits(r) PROVE OneInv'
<1>1. OneMonitor'
  BY DEF IInv, TypeOK, OneInv, OneMonitor, Active, RefExits, sup, procs
<1>2. Kept'
  BY DEF IInv, TypeOK, OneInv, Kept, Current, RefExits, sup, procs
<1>3. ToldOfTheDead'
  BY DEF IInv, TypeOK, OneInv, ToldOfTheDead, RefExits, sup, procs
<1>4. RunningIsWatched'
  BY DEF IInv, TypeOK, OneInv, RunningIsWatched, Watching, RefExits, sup, procs
<1> QED
  BY <1>1, <1>2, <1>3, <1>4 DEF OneInv

LEMMA OwnerStopsOne ==
  ASSUME IInv, OneInv, NEW r \in Refs, OwnerStops(r) PROVE OneInv'
<1>1. OneMonitor'
  BY DEF IInv, TypeOK, OneInv, OneMonitor, Active, OwnerStops, SetState, Fault,
     sup, procs
<1>2. Kept'
  BY DEF IInv, TypeOK, OneInv, Kept, Current, OwnerStops, SetState, Fault, sup,
     procs
<1>3. ToldOfTheDead'
  BY DEF IInv, TypeOK, OneInv, ToldOfTheDead, OwnerStops, SetState, Fault, sup,
     procs
<1>4. RunningIsWatched'
  BY DEF IInv, TypeOK, OneInv, RunningIsWatched, Watching, OwnerStops, SetState,
     Fault, sup, procs
<1> QED
  BY <1>1, <1>2, <1>3, <1>4 DEF OneInv

LEMMA OwnerSeesDoneOne ==
  ASSUME IInv, OneInv, NEW r \in Refs, OwnerSeesDone(r) PROVE OneInv'
<1>1. OneMonitor'
  BY DEF IInv, TypeOK, OneInv, OneMonitor, Active, OwnerSeesDone, SetState, sup,
     procs
<1>2. Kept'
  BY DEF IInv, TypeOK, OneInv, Kept, Current, OwnerSeesDone, SetState, sup, procs
<1>3. ToldOfTheDead'
  BY DEF IInv, TypeOK, OneInv, ToldOfTheDead, OwnerSeesDone, SetState, sup, procs
<1>4. RunningIsWatched'
  BY DEF IInv, TypeOK, OneInv, RunningIsWatched, Watching, OwnerSeesDone, SetState,
     sup, procs
<1> QED
  BY <1>1, <1>2, <1>3, <1>4 DEF OneInv

LEMMA EndCtxOne ==
  ASSUME IInv, OneInv, EndCtx PROVE OneInv'
<1>1. OneMonitor'
  BY DEF IInv, TypeOK, OneInv, OneMonitor, Active, EndCtx, sup, actors, procs
<1>2. Kept'
  BY DEF IInv, TypeOK, OneInv, Kept, Current, EndCtx, sup, actors, procs
<1>3. ToldOfTheDead'
  BY DEF IInv, TypeOK, OneInv, ToldOfTheDead, EndCtx, sup, actors, procs
<1>4. RunningIsWatched'
  BY DEF IInv, TypeOK, OneInv, RunningIsWatched, Watching, EndCtx, sup, actors,
     procs
<1> QED
  BY <1>1, <1>2, <1>3, <1>4 DEF OneInv

LEMMA PublishOne ==
  ASSUME IInv, OneInv, NEW p \in Procs, Publish(p) PROVE OneInv'
<1>1. OneMonitor'
  <2> SUFFICES ASSUME strategy = "OneForOne" PROVE OneMonitor'
    BY PublishEffect DEF OneMonitor
  <2>1. p # StopAll /\ (p = StartAll => ref[at[p]] = 0)
         /\ (p \in Refs => at[p] = child[p] /\ ref[at[p]] = p)
    BY PublishEffect, Numbers DEF OneInv, OneMonitor, Active
  <2>2. p = StartAll \/ p \in Refs
    BY <2>1, Numbers
  <2>3. ASSUME NEW m \in Refs, m # p, m # held[p], pc[m] \in Active
        PROVE  child[m] # at[p] /\ child[m] \in Children
    BY <2>1, <2>2, <2>3, Numbers DEF IInv, Started, TypeOK, OneInv, OneMonitor, Active
  <2>4. \A m \in Refs :
          /\ pc'[m] \in Active => ref'[child'[m]] = m /\ ver'[m] = version'[child'[m]]
          /\ pc'[m] \in {"terminated", "notified", "spawn", "publish"} => rdone'[m]
          /\ pc'[m] \in {"spawn", "publish"} => at'[m] = child'[m]
          /\ pc'[m] \in {"idle", "read", "watch", "terminated"} => told'[m] = 0
          /\ pc'[m] \notin {"stale", "bump", "stop", "awaitStop"}
    <3> SUFFICES ASSUME NEW m \in Refs
                 PROVE  /\ pc'[m] \in Active => ref'[child[m]] = m /\ ver'[m] = version'[child[m]]
                        /\ pc'[m] \in {"terminated", "notified", "spawn", "publish"} => rdone[m]
                        /\ pc'[m] \in {"spawn", "publish"} => at'[m] = child[m]
                        /\ pc'[m] \in {"idle", "read", "watch", "terminated"} => told[m] = 0
                        /\ pc'[m] \notin {"stale", "bump", "stop", "awaitStop"}
      BY PublishEffect DEF actors
    <3>1. CASE m = p
      BY <3>1, PublishEffect, Numbers DEF Active
    <3>2. CASE m = held[p]
      BY <3>2, PublishEffect DEF OneInv, OneMonitor, Active
    <3>3. CASE m # p /\ m # held[p]
      <4>1. pc'[m] = pc[m] /\ at'[m] = at[m] /\ ver'[m] = ver[m]
        BY <3>3, PublishEffect, Numbers
      <4>2. pc[m] \in Active => ref'[child[m]] = ref[child[m]] /\ version'[child[m]] = version[child[m]]
        BY <3>3, <2>3, PublishEffect
      <4> QED
        BY <4>1, <4>2 DEF OneInv, OneMonitor
    <3> QED
      BY <3>1, <3>2, <3>3
  <2>5. pc'[StopAll] = pc[StopAll] /\ (p # StartAll => pc'[StartAll] = pc[StartAll] /\ at'[StartAll] = at[StartAll])
    BY <2>1, PublishEffect, Numbers
  <2>6. /\ pc'[StartAll] \in {"idle", "rejected", "spawn", "publish", "startErr", "returned"}
        /\ pc'[StartAll] = "idle" => \A c \in Children : ref'[c] = 0
        /\ pc'[StartAll] \in {"spawn", "publish"} =>
             \A c \in Children : c >= at'[StartAll] => ref'[c] = 0
    <3>1. CASE p = StartAll
      <4>1. pc'[p] \in {"returned", "spawn"} /\ (pc'[p] = "spawn" => at'[p] = at[p] + 1)
        BY PublishEffect
      <4>2. \A c \in Children : c >= at[p] => ref[c] = 0
        BY <3>1, PublishEffect DEF OneInv, OneMonitor
      <4>3. \A c \in Children : c >= at[p] + 1 => c # at[p] /\ c >= at[p]
        BY PublishEffect, Numbers
      <4>4. \A c \in Children : c # at[p] => ref'[c] = ref[c]
        BY PublishEffect
      <4> QED
        BY <3>1, <4>1, <4>2, <4>3, <4>4
    <3>2. CASE p # StartAll
      <4>1. ref[at[p]] # 0 /\ at[p] \in Children
        BY <3>2, <2>1, <2>2, PublishEffect, Numbers
      <4>2. pc[StartAll] # "idle"
            /\ (pc[StartAll] \in {"spawn", "publish"} => ~(at[p] >= at[StartAll]))
        BY <4>1 DEF OneInv, OneMonitor
      <4>3. \A c \in Children : c # at[p] => ref'[c] = ref[c]
        BY PublishEffect
      <4> QED
        BY <3>2, <2>5, <4>2, <4>3 DEF OneInv, OneMonitor
    <3> QED
      BY <3>1, <3>2
  <2> QED
    BY <2>4, <2>5, <2>6, PublishEffect DEF OneInv, OneMonitor, actors
<1>2. Kept'
  <2> SUFFICES ASSUME strategy = "OneForOne", NEW r \in Refs, r <= born
               PROVE  \/ rdone[r] \/ \E c \in Children : ref'[c] = r
                      \/ \E q \in Procs : pc'[q] = "publish" /\ held'[q] = r
    BY PublishEffect DEF Kept, Current, actors
  <2>1. CASE r = held[p]
    BY <2>1, PublishEffect
  <2>2. CASE r # held[p] /\ \E c \in Children : ref[c] = r
    <3>1. PICK c \in Children : ref[c] = r
      BY <2>2
    <3>2. CASE c = at[p]
      <4>1. p \in Refs => r = p /\ rdone[r]
        BY <3>1, <3>2, PublishEffect DEF OneInv, OneMonitor, Active
      <4>2. p = StartAll => ref[at[p]] = 0
        BY PublishEffect, Numbers DEF OneInv, OneMonitor
      <4>3. p = StartAll \/ p \in Refs
        BY PublishEffect, Numbers DEF OneInv, OneMonitor
      <4> QED
        BY <3>1, <3>2, <4>1, <4>2, <4>3, Numbers
    <3>3. CASE c # at[p]
      BY <3>1, <3>3, PublishEffect
    <3> QED
      BY <3>2, <3>3
  <2>3. CASE r # held[p] /\ \E q \in Procs : pc[q] = "publish" /\ held[q] = r
    <3>1. PICK q \in Procs : pc[q] = "publish" /\ held[q] = r
      BY <2>3
    <3> QED
      BY <3>1, <2>3, PublishEffect
  <2> QED
    BY <2>1, <2>2, <2>3 DEF OneInv, Kept, Current
<1>3. ToldOfTheDead'
  BY PublishEffect DEF OneInv, ToldOfTheDead, actors
<1>4. RunningIsWatched'
  <2> SUFFICES ASSUME NEW c \in Children, ref'[c] # 0, rstate[ref'[c]] = "Started", ~ctxDone
               PROVE  Watching(c)' \/ \E q \in Procs : pc'[q] = "stop" /\ held'[q] = ref'[c]
    BY PublishEffect DEF RunningIsWatched, actors
  <2>1. CASE c = at[p]
    <3>1. held[p] \in Refs /\ child'[held[p]] = c /\ ver'[held[p]] = version'[c] /\ pc'[held[p]] = "read"
      BY <2>1, PublishEffect DEF actors
    <3> QED
      BY <3>1 DEF Watching
  <2>2. CASE c # at[p]
    <3>1. ref'[c] = ref[c] /\ version'[c] = version[c]
      BY <2>2, PublishEffect
    <3>2. CASE Watching(c)
      <4>1. PICK m \in Refs : /\ child[m] = c /\ ver[m] = version[c]
                              /\ pc[m] \in {"read", "watch", "terminated", "notified"}
        BY <3>2 DEF Watching
      <4>2. m # p /\ m # held[p] /\ m \in Procs
        BY <4>1, PublishEffect, Numbers
      <4>3. child'[m] = c /\ ver'[m] = version'[c] /\ pc'[m] = pc[m]
        BY <4>1, <4>2, <3>1, PublishEffect DEF actors
      <4> QED
        BY <4>1, <4>3 DEF Watching
    <3>3. CASE \E q \in Procs : pc[q] = "stop" /\ held[q] = ref[c]
      <4>1. PICK q \in Procs : pc[q] = "stop" /\ held[q] = ref[c]
        BY <3>3
      <4>2. q # p /\ q # held[p]
        BY <4>1, PublishEffect
      <4> QED
        BY <3>1, <4>1, <4>2, PublishEffect
    <3> QED
      BY <3>1, <3>2, <3>3 DEF OneInv, RunningIsWatched
  <2> QED
    BY <2>1, <2>2
<1> QED
  BY <1>1, <1>2, <1>3, <1>4 DEF OneInv

LEMMA OneInvStep == IInv /\ OneInv /\ [Next]_vars => OneInv'
<1> SUFFICES ASSUME IInv, OneInv, [Next]_vars PROVE OneInv'
  OBVIOUS
<1>1. CASE UNCHANGED vars
  BY <1>1 DEF vars, sup, actors, procs, OneInv, OneMonitor, Kept, Current, ToldOfTheDead,
     RunningIsWatched, Watching
<1>2. CASE StartAllCheck \/ StopAllCheck \/ StopAllPick \/ EndCtx
  BY <1>2, StartAllCheckOne, StopAllCheckOne, StopAllPickOne, EndCtxOne
<1>3. ASSUME NEW p \in Procs, StartChild(p) PROVE OneInv'
  BY <1>3, SpecStartOne, SpecStartFailsOne, PublishOne DEF StartChild
<1>4. ASSUME NEW p \in Procs, StopChild(p) PROVE OneInv'
  BY <1>4, StopRefOne, StopSeesDoneOne, StopTimerOne DEF StopChild
<1>5. ASSUME NEW r \in Refs, Monitor(r) PROVE OneInv'
  BY <1>5, MonitorReadOne, MonitorCtxDoneOne, MonitorDoneOne, NotifyOne, DecideOne, BumpOne DEF Monitor
<1>6. ASSUME NEW r \in Refs, Actor(r) PROVE OneInv'
  BY <1>6, RefFailsOne, RefPanicsOne, RefExitsOne, OwnerStopsOne, OwnerSeesDoneOne DEF Actor
<1> QED
  BY <1>1, <1>2, <1>3, <1>4, <1>5, <1>6 DEF Next

LEMMA OneInvariant == Spec => [](IInv /\ OneInv)
<1>1. IInv /\ OneInv /\ [Next]_vars => (IInv /\ OneInv)'
  BY IInvStep, OneInvStep
<1> QED
  BY <1>1, InitInv, PTL DEF Spec

-----------------------------------------------------------------------------
\* Every variable of the supervisor keeps its type.
THEOREM TypeCorrect == Spec => []TypeOK
<1>1. IInv => TypeOK
  BY DEF IInv
<1> QED
  BY <1>1, Invariant, PTL

\* Under OneForOne no actor is left running that is not its child's ref: a monitor
\* starts another only for a ref, its own, that has exited.
THEOREM NoActorIsOrphaned == Spec => []NoOrphan
<1>1. IInv /\ OneInv => NoOrphan
  <2> SUFFICES ASSUME IInv, OneInv, strategy = "OneForOne", NEW r \in 1..born
               PROVE  rdone[r] \/ Current(r) \/ \E p \in Procs : pc[p] = "publish" /\ held[p] = r
    BY DEF NoOrphan
  <2>1. r \in Refs /\ r <= born
    BY Bounds DEF IInv, TypeOK, Refs
  <2> QED
    BY <2>1 DEF OneInv, Kept
<1> QED
  BY <1>1, OneInvariant, PTL

\* Under either strategy a child that runs is watched or about to be stopped:
\* a monitor loses its version only to a process that publishes a new ref, with
\* a monitor of its own, or that holds the ref and stops it next.
THEOREM WhatRunsIsWatched == Spec => []RunningIsWatched
<1>1. OneInv => RunningIsWatched
  BY DEF OneInv
<1> QED
  BY <1>1, OneInvariant, PTL

\* Under OneForOne the watchers hear of each end of a ref once, and after it.
THEOREM EndIsToldOnce == Spec => []ToldOfTheDead
<1>1. OneInv => ToldOfTheDead
  BY DEF OneInv
<1> QED
  BY <1>1, OneInvariant, PTL

\* Under OneForOne only the monitor of the present version restarts its child.
THEOREM RestartsAreFresh == Spec => RestartIsFresh
<1>1. IInv /\ OneInv /\ [Next]_vars =>
        [strategy = "OneForOne" =>
           \A m \in Refs :
             pc[m] = "notified" /\ pc'[m] \in {"bump", "spawn"} =>
               ver[m] = version[child[m]]]_vars
  BY DEF OneInv, OneMonitor, Active
<1> QED
  BY <1>1, OneInvariant, PTL DEF Spec, RestartIsFresh
===============================================================================
