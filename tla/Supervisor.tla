----------------------------- MODULE Supervisor ------------------------------
(***************************************************************************)
(* A supervisor of pkg/supervision (supervisor.go, strategy.go): its       *)
(* children, which the mutex guards, one call of StartAll and one of       *)
(* StopAll, and the monitor goroutine that each start of a child spawns,   *)
(* which notifies the watchers and restarts one child or all of them.      *)
(*                                                                         *)
(* A child's ref is an actor: a goroutine that exits once it is told to,   *)
(* and a Stop that stores Done, after the exit, or StoppedWithError, after *)
(* its timeout. One step is one critical section, or one access to a ref.  *)
(* The children are numbered in the order of Add; the refs, in the order   *)
(* of their start. Monitor m is the one spawned for ref m.                 *)
(***************************************************************************)
EXTENDS Naturals

CONSTANTS
  NumChildren,  \* children added before StartAll
  MaxRefs,      \* bound of the model: starts of a child
  Strategies,   \* the strategies a policy may have
  MaxFaults,    \* bound of the model, for each strategy: refs that fail, panic or
                \* are stopped
  MaxRestarts   \* policy.MaxRestarts; 0 for unlimited

ASSUME Bounds ==
  /\ NumChildren \in Nat \ {0}
  /\ MaxRefs \in Nat /\ MaxFaults \in [Strategies -> Nat]
  /\ MaxRestarts \in Nat
  /\ Strategies \subseteq {"OneForOne", "AllForOne"}

VARIABLES
  strategy,  \* s.policy.Strategy
  stopped,   \* s.stopped
  recent,    \* Len(s.restarts), the timestamps within the window
  ref,       \* c.ref of each child; 0 for nil
  version,   \* c.version of each child
  ctxDone,   \* the context of StartAll has ended
  born,      \* refs started so far
  child,     \* the child a ref was started for
  rstate,    \* State() of a ref
  leaving,   \* the goroutine of a ref has been told to exit
  rdone,     \* Done() of a ref is closed
  owner,     \* the owner of the actor, beside the supervisor, calls Stop
  faults,    \* how many of MaxFaults have happened
  pc, at,    \* where each process is, and at which child
  held,      \* the ref it holds: watched, being stopped, or not yet published
  ver,       \* the version a monitor was spawned with
  seen,      \* the state a monitor has passed to the watchers
  told       \* history: how often the watchers heard of the end of a ref

sup     == <<strategy, stopped, recent, ref, version>>
actors  == <<born, child, rstate, leaving, rdone, faults>>
procs   == <<pc, at, held, ver, seen>>
vars    == <<sup, ctxDone, actors, owner, procs, told>>

Children == 1..NumChildren
Refs     == 1..MaxRefs
StartAll == 0
StopAll  == MaxRefs + 1
Procs    == 0..(MaxRefs + 1)

Init ==
  /\ strategy \in Strategies
  /\ stopped = FALSE /\ ctxDone = FALSE
  /\ recent = 0 /\ born = 0 /\ faults = 0
  /\ ref = [c \in Children |-> 0]
  /\ version = [c \in Children |-> 0]
  /\ child = [r \in Refs |-> 0]
  /\ rstate = [r \in Refs |-> "Initialized"]
  /\ leaving = [r \in Refs |-> FALSE]
  /\ rdone = [r \in Refs |-> FALSE]
  /\ owner = [r \in Refs |-> "idle"]
  /\ pc = [p \in Procs |-> "idle"]
  /\ at = [p \in Procs |-> 0]
  /\ held = [p \in Procs |-> 0]
  /\ ver = [m \in Refs |-> 0]
  /\ seen = [m \in Refs |-> "none"]
  /\ told = [r \in Refs |-> 0]

Goto(p, to)      == pc' = [pc EXCEPT ![p] = to]
GotoAt(p, to, c) == Goto(p, to) /\ at' = [at EXCEPT ![p] = c]
SetState(r, s)   == rstate' = [rstate EXCEPT ![r] = s]

-----------------------------------------------------------------------------
(* StartAll, and startChild in StartAll, restartOne and restartAll         *)

StartAllCheck ==
  /\ pc[StartAll] = "idle"
  /\ IF stopped THEN Goto(StartAll, "rejected") /\ UNCHANGED at
                ELSE GotoAt(StartAll, "spawn", 1)
  /\ UNCHANGED <<sup, ctxDone, actors, owner, held, ver, seen, told>>

\* Mutant: one child too many.
NextStartOffByOne(p) ==
  IF (p = StartAll \/ strategy = "AllForOne") /\ at[p] <= NumChildren
  THEN GotoAt(p, "spawn", at[p] + 1)
  ELSE GotoAt(p, "returned", 0)

\* After a child of StartAll or restartAll comes the next; restartOne is over.
NextStart(p) ==
  IF (p = StartAll \/ strategy = "AllForOne") /\ at[p] < NumChildren
  THEN GotoAt(p, "spawn", at[p] + 1)
  ELSE GotoAt(p, "returned", 0)

SpecStart(p) ==
  /\ pc[p] = "spawn"
  /\ born < MaxRefs
  /\ born' = born + 1
  /\ child' = [child EXCEPT ![born'] = at[p]]
  /\ SetState(born', "Started")
  /\ held' = [held EXCEPT ![p] = born']
  /\ Goto(p, "publish")
  /\ UNCHANGED <<sup, ctxDone, leaving, rdone, faults, owner, at, ver, seen, told>>

\* StartAll returns the error of spec.Start; a restart reports it and goes on.
SpecStartFails(p) ==
  /\ pc[p] = "spawn"
  /\ CASE p = StartAll             -> GotoAt(p, "startErr", 0)
       [] strategy = "OneForOne"   -> GotoAt(p, "startErr", 0)
       [] OTHER                    -> NextStart(p)
  /\ UNCHANGED <<sup, ctxDone, actors, owner, held, ver, seen, told>>

\* Mutant: the monitor is spawned with the version before the increment.
PublishOldVersion(p) ==
  LET c == at[p]
      r == held[p]
  IN
  /\ pc[p] = "publish"
  /\ ref' = [ref EXCEPT ![c] = r]
  /\ version' = [version EXCEPT ![c] = @ + 1]
  /\ ver' = [ver EXCEPT ![r] = version[c]]
  /\ IF (p = StartAll \/ strategy = "AllForOne") /\ c < NumChildren
     THEN pc' = [pc EXCEPT ![p] = "spawn", ![r] = "read"]
          /\ at' = [at EXCEPT ![p] = c + 1]
     ELSE pc' = [pc EXCEPT ![p] = "returned", ![r] = "read"]
          /\ at' = [at EXCEPT ![p] = 0]
  /\ held' = [held EXCEPT ![p] = 0]
  /\ UNCHANGED <<strategy, stopped, recent, ctxDone, actors, owner, seen, told>>

\* The ref and its version are set under the lock, and its monitor is spawned.
Publish(p) ==
  LET c == at[p]
      r == held[p]
  IN
  /\ pc[p] = "publish"
  /\ ref' = [ref EXCEPT ![c] = r]
  /\ version' = [version EXCEPT ![c] = @ + 1]
  /\ ver' = [ver EXCEPT ![r] = version'[c]]
  /\ IF (p = StartAll \/ strategy = "AllForOne") /\ c < NumChildren
     THEN pc' = [pc EXCEPT ![p] = "spawn", ![r] = "read"]
          /\ at' = [at EXCEPT ![p] = c + 1]
     ELSE pc' = [pc EXCEPT ![p] = "returned", ![r] = "read"]
          /\ at' = [at EXCEPT ![p] = 0]
  /\ held' = [held EXCEPT ![p] = 0]
  /\ UNCHANGED <<strategy, stopped, recent, ctxDone, actors, owner, seen, told>>

-----------------------------------------------------------------------------
(* monitor and handleTermination                                           *)

\* The ref is read when the goroutine runs, the version came with it.
MonitorRead(m) ==
  /\ pc[m] = "read"
  /\ held' = [held EXCEPT ![m] = ref[child[m]]]
  /\ Goto(m, "watch")
  /\ UNCHANGED <<sup, ctxDone, actors, owner, at, ver, seen, told>>

MonitorCtxDone(m) ==
  /\ pc[m] = "watch"
  /\ ctxDone
  /\ Goto(m, "returned")
  /\ UNCHANGED <<sup, ctxDone, actors, owner, at, held, ver, seen, told>>

\* Mutant: the monitor wakes when the child is told to stop.
MonitorSeesLeaving(m) ==
  /\ pc[m] = "watch"
  /\ leaving[held[m]]
  /\ Goto(m, IF version[child[m]] = ver[m] THEN "terminated" ELSE "stale")
  /\ UNCHANGED <<sup, ctxDone, actors, owner, at, held, ver, seen, told>>

\* The version check; the lock is released before handleTermination takes it.
MonitorDone(m) ==
  /\ pc[m] = "watch"
  /\ rdone[held[m]]
  /\ Goto(m, IF version[child[m]] = ver[m] THEN "terminated" ELSE "stale")
  /\ UNCHANGED <<sup, ctxDone, actors, owner, at, held, ver, seen, told>>

\* The state is that of the ref the child has now.
Notify(m) ==
  /\ pc[m] = "terminated"
  /\ seen' = [seen EXCEPT ![m] = rstate[ref[child[m]]]]
  /\ told' = [told EXCEPT ![held[m]] = @ + 1]
  /\ Goto(m, "notified")
  /\ UNCHANGED <<sup, ctxDone, actors, owner, at, held, ver>>

\* Any number of the oldest timestamps may have left the window by now.
CountRestart ==
  IF MaxRestarts = 0 THEN UNCHANGED recent
  ELSE \E kept \in 0..recent : recent' = kept + 1

\* Mutant: every policy restarts all of the children.
RestartsAll(m) == GotoAt(m, "bump", 1)

\* The switch on the strategy: restartOne or restartAll.
Restart(m) ==
  IF strategy = "OneForOne" THEN GotoAt(m, "spawn", child[m]) ELSE GotoAt(m, "bump", 1)

Decide(m) ==
  /\ pc[m] = "notified"
  /\ \/ /\ seen[m] = "Done"
        /\ GotoAt(m, "clean", 0)
        /\ UNCHANGED recent
     \/ /\ seen[m] # "Done"
        /\ stopped
        /\ GotoAt(m, "returned", 0)
        /\ UNCHANGED recent
     \/ /\ seen[m] # "Done"
        /\ ~stopped
        /\ CountRestart
        /\ IF MaxRestarts > 0 /\ recent' > MaxRestarts
           THEN GotoAt(m, "gaveUp", 0)
           ELSE Restart(m)
  /\ seen' = [seen EXCEPT ![m] = "none"]
  /\ UNCHANGED <<strategy, stopped, ref, version, ctxDone, actors, owner,
                 held, ver, told>>

-----------------------------------------------------------------------------
(* The stops of restartAll and of StopAll                                  *)

\* restartAll stops in the order of Add and then starts; StopAll in reverse.
NextStop(p) ==
  CASE p = StopAll /\ at[p] > 1             -> GotoAt(p, "pick", at[p] - 1)
    [] p = StopAll /\ at[p] <= 1            -> GotoAt(p, "returned", 0)
    [] p # StopAll /\ at[p] < NumChildren   -> GotoAt(p, "bump", at[p] + 1)
    [] OTHER                                -> GotoAt(p, "spawn", 1)

PickRef(p) ==
  /\ held' = [held EXCEPT ![p] = ref[at[p]]]
  /\ IF ref[at[p]] = 0 THEN NextStop(p) ELSE Goto(p, "stop") /\ UNCHANGED at

Bump(m) ==
  /\ pc[m] = "bump"
  /\ version' = [version EXCEPT ![at[m]] = @ + 1]
  /\ PickRef(m)
  /\ UNCHANGED <<strategy, stopped, recent, ref, ctxDone, actors, owner,
                 ver, seen, told>>

StopAllCheck ==
  /\ pc[StopAll] = "idle"
  /\ stopped' = TRUE
  /\ GotoAt(StopAll, "pick", NumChildren)
  /\ UNCHANGED <<strategy, recent, ref, version, ctxDone, actors, owner,
                 held, ver, seen, told>>

StopAllPick ==
  /\ pc[StopAll] = "pick"
  /\ PickRef(StopAll)
  /\ UNCHANGED <<sup, ctxDone, actors, owner, ver, seen, told>>

\* Stop of a ref that has left Started is an error, which is reported.
StopRef(p) ==
  /\ pc[p] = "stop"
  /\ IF rstate[held[p]] = "Started"
     THEN /\ SetState(held[p], "Stopping")
          /\ leaving' = [leaving EXCEPT ![held[p]] = TRUE]
          /\ Goto(p, "awaitStop")
          /\ UNCHANGED at
     ELSE NextStop(p) /\ UNCHANGED <<rstate, leaving>>
  /\ UNCHANGED <<sup, ctxDone, born, child, rdone, faults, owner, held, ver, seen, told>>

StopSeesDone(p) ==
  /\ pc[p] = "awaitStop"
  /\ rdone[held[p]]
  /\ SetState(held[p], "Done")
  /\ NextStop(p)
  /\ UNCHANGED <<sup, ctxDone, born, child, leaving, rdone, faults, owner,
                 held, ver, seen, told>>

\* Mutant: the timeout is not watched while the goroutine runs.
StopTimerAfterDone(p) ==
  /\ pc[p] = "awaitStop"
  /\ rdone[held[p]]
  /\ SetState(held[p], "StoppedWithError")
  /\ NextStop(p)
  /\ UNCHANGED <<sup, ctxDone, born, child, leaving, rdone, faults, owner,
                 held, ver, seen, told>>

StopTimer(p) ==
  /\ pc[p] = "awaitStop"
  /\ SetState(held[p], "StoppedWithError")
  /\ NextStop(p)
  /\ UNCHANGED <<sup, ctxDone, born, child, leaving, rdone, faults, owner,
                 held, ver, seen, told>>

-----------------------------------------------------------------------------
(* The actors behind the refs, their owner, and the context                *)

Fault == faults < MaxFaults[strategy] /\ faults' = faults + 1

\* The actor's own context ends.
RefFails(r) ==
  /\ Fault
  /\ r <= born /\ ~rdone[r]
  /\ rstate[r] # "StoppedWithError"
  /\ SetState(r, "StoppedWithError")
  /\ leaving' = [leaving EXCEPT ![r] = TRUE]
  /\ UNCHANGED <<sup, ctxDone, born, child, rdone, owner, procs, told>>

\* A handler panics: the state changes, the goroutine goes on.
RefPanics(r) ==
  /\ Fault
  /\ r <= born /\ ~rdone[r]
  /\ rstate[r] # "Panicked"
  /\ SetState(r, "Panicked")
  /\ UNCHANGED <<sup, ctxDone, born, child, leaving, rdone, owner, procs, told>>

RefExits(r) ==
  /\ leaving[r] /\ ~rdone[r]
  /\ rdone' = [rdone EXCEPT ![r] = TRUE]
  /\ UNCHANGED <<sup, ctxDone, born, child, rstate, leaving, faults, owner, procs, told>>

OwnerStops(r) ==
  /\ Fault
  /\ owner[r] = "idle"
  /\ rstate[r] = "Started"
  /\ SetState(r, "Stopping")
  /\ leaving' = [leaving EXCEPT ![r] = TRUE]
  /\ owner' = [owner EXCEPT ![r] = "awaitDone"]
  /\ UNCHANGED <<sup, ctxDone, born, child, rdone, procs, told>>

OwnerSeesDone(r) ==
  /\ owner[r] = "awaitDone"
  /\ rdone[r]
  /\ SetState(r, "Done")
  /\ owner' = [owner EXCEPT ![r] = "returned"]
  /\ UNCHANGED <<sup, ctxDone, born, child, leaving, rdone, faults, procs, told>>

EndCtx ==
  /\ ~ctxDone
  /\ ctxDone' = TRUE
  /\ UNCHANGED <<sup, actors, owner, procs, told>>

-----------------------------------------------------------------------------
StartChild(p) == SpecStart(p) \/ SpecStartFails(p) \/ Publish(p)

Monitor(m) ==
  \/ MonitorRead(m) \/ MonitorCtxDone(m) \/ MonitorDone(m)
  \/ Notify(m) \/ Decide(m) \/ Bump(m)

StopChild(p) == StopRef(p) \/ StopSeesDone(p) \/ StopTimer(p)

Actor(r) ==
  \/ RefFails(r) \/ RefPanics(r) \/ RefExits(r)
  \/ OwnerStops(r) \/ OwnerSeesDone(r)

Next ==
  \/ StartAllCheck \/ StopAllCheck \/ StopAllPick \/ EndCtx
  \/ \E p \in Procs : StartChild(p) \/ StopChild(p)
  \/ \E r \in Refs : Monitor(r) \/ Actor(r)

Spec == Init /\ [][Next]_vars
=============================================================================
