--------------------------- MODULE SupervisorProps ----------------------------
(***************************************************************************)
(* What is to hold of the supervisor of Supervisor.tla.                    *)
(***************************************************************************)
EXTENDS Supervisor, FiniteSets

RefStates == {"Initialized", "Started", "Stopping", "Done",
              "StoppedWithError", "Panicked"}

ProcSteps == {"idle", "rejected", "spawn", "publish", "startErr", "returned",
              "read", "watch", "stale", "terminated", "notified", "clean",
              "gaveUp", "bump", "pick", "stop", "awaitStop"}

\* Every variable has its type.
TypeOK ==
  /\ strategy \in Strategies
  /\ {stopped, ctxDone} \subseteq BOOLEAN
  /\ recent \in Nat
  /\ ref \in [Children -> 0..MaxRefs]
  /\ version \in [Children -> Nat]
  /\ born \in 0..MaxRefs
  /\ child \in [Refs -> 0..NumChildren]
  /\ rstate \in [Refs -> RefStates]
  /\ leaving \in [Refs -> BOOLEAN]
  /\ rdone \in [Refs -> BOOLEAN]
  /\ faults \in 0..MaxFaults[strategy]
  /\ owner \in [Refs -> {"idle", "awaitDone", "returned"}]
  /\ pc \in [Procs -> ProcSteps]
  /\ at \in [Procs -> 0..NumChildren]
  /\ held \in [Procs -> 0..MaxRefs]
  /\ ver \in [Refs -> Nat]
  /\ seen \in [Refs -> RefStates \cup {"none"}]
  /\ told \in [Refs -> Nat]

\* The ref is the one its child has now.
Current(r) == \E c \in Children : ref[c] = r

\* A monitor that has not returned, of the version its child has now.
Watching(c) ==
  \E m \in Refs :
    /\ child[m] = c
    /\ ver[m] = version[c]
    /\ pc[m] \in {"read", "watch", "terminated", "notified"}

-----------------------------------------------------------------------------
\* Under OneForOne the supervisor keeps the one ref of a child that runs: it
\* starts another only when the goroutine of the last has exited, so no actor
\* is left running that nobody monitors or stops.
NoOrphan ==
  strategy = "OneForOne" =>
    \A r \in 1..born :
      rdone[r] \/ Current(r) \/ \E p \in Procs : pc[p] = "publish" /\ held[p] = r

\* Under either strategy a child that runs is watched, by a monitor of its present
\* version, unless the context has ended or a restart or StopAll that holds its
\* ref is just about to stop it: no race of restarts leaves it unwatched.
RunningIsWatched ==
  \A c \in Children :
    ref[c] # 0 /\ rstate[ref[c]] = "Started" =>
      ctxDone \/ Watching(c) \/ \E p \in Procs : pc[p] = "stop" /\ held[p] = ref[c]

\* Under OneForOne the watchers hear of the end of a ref once, after it, with a
\* state in which it does not run.
ToldOfTheDead ==
  strategy = "OneForOne" =>
    /\ \A r \in Refs : told[r] <= 1 /\ (told[r] = 1 => rdone[r])
    /\ \A m \in Refs : seen[m] # "Started"

\* What the version is for: only the monitor of the present version restarts.
\* Under OneForOne, where a child has one monitor at a time, it does.
RestartIsFresh ==
  [][strategy = "OneForOne" =>
       \A m \in Refs :
         pc[m] = "notified" /\ pc'[m] \in {"bump", "spawn"} =>
           ver[m] = version[child[m]]]_vars

-----------------------------------------------------------------------------
\* What the documentation says of versions: they prevent stale cascades, that is,
\* no monitor restarts all of the children once its child has been restarted.
NoStaleCascade ==
  [][\A m \in Refs :
       pc[m] = "notified" /\ pc'[m] = "bump" => ver[m] = version[child[m]]]_vars

\* A ref that was started after another of the same child.
Replaces(q, r) == r < q /\ q <= born /\ child[q] = child[r]

\* What the documentation says of clean stops: a child that its owner has
\* stopped, with Done for a result, is not restarted.
CleanStopStays ==
  \A r \in 1..born :
    owner[r] = "returned" /\ rstate[r] = "Done" => ~\E q \in Refs : Replaces(q, r)

\* What the documentation says of StopAll: it stops all children, so that after
\* it none that had been restarted is running.
StopAllStops ==
  pc[StopAll] = "returned" =>
    \A q \in 1..born : (\E r \in Refs : Replaces(q, r)) => rstate[q] # "Started"

-----------------------------------------------------------------------------
(* Fairness: the library's goroutines run, ChildSpec.Start returns, and    *)
(* the timer of a Stop fires. No actor need exit, nor any caller call.     *)

Library(p) ==
  \/ StartChild(p) \/ StopChild(p)
  \/ p = StopAll /\ StopAllPick
  \/ p \in Refs /\ Monitor(p)

FairSpec == Spec /\ \A p \in Procs : WF_vars(Library(p))

\* A child that has exited under OneForOne is not forgotten: it is replaced,
\* unless the supervisor is stopped, the context ends, it stopped cleanly, the
\* restarts are used up, or the start itself fails.
DeathIsAnswered ==
  \A r \in Refs :
    (strategy = "OneForOne" /\ rdone[r] /\ Current(r)) ~>
      \/ ~Current(r) \/ stopped \/ ctxDone
      \/ \E m \in Refs : child[m] = child[r] /\ pc[m] \in {"clean", "gaveUp", "startErr"}

\* StopAll comes to its end, whatever the children and the monitors do.
StopAllReturns == pc[StopAll] = "pick" ~> pc[StopAll] = "returned"
=============================================================================
