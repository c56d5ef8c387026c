----------------------------- MODULE ActorSystem ------------------------------
(***************************************************************************)
(* The ActorSystem of pkg/system (system.go, dispatch.go, spawn.go,        *)
(* event.go) with its callers: those of Spawn, of StopAll (directly or     *)
(* from signal.AwaitShutdown), and users who register, unregister, look up *)
(* and stop an actor, or send it a command and await the answer.           *)
(*                                                                         *)
(* A step is one critical section of the system's lock, one access to an   *)
(* actor, or one call of an event handler. Nothing else runs under the     *)
(* lock, so it needs no variable. An actor is what its Ref shows of it;    *)
(* the actor that Spawn call p makes is named p. Errors are told apart as  *)
(* far as the system's promises depend on them.                            *)
(***************************************************************************)
EXTENDS Ranks, Sequences

CONSTANTS
  Spawners,  \* calls of Spawn, and the actors they make
  Loose,     \* actors that were started without the system
  Users,     \* goroutines that make one other call each, and event handlers
  Stoppers,  \* calls of StopAll
  Waiters,   \* calls of AwaitShutdown
  Names,     \* the names in use
  NoName,    \* the empty string: no name, and the tombstone in order
  NoActor,   \* a nil ref
  Kind,      \* the entity type of each actor and of each user's command
  MaxFaults, \* bound of the model: actors that fail
  Casts      \* bound of the model: who may take part in one history

Actors   == Spawners \cup Loose
Closers  == Stoppers \cup Waiters
Procs    == Spawners \cup Users \cup Closers
AllNames == Names \cup {NoName}

ASSUME DistinctProcs ==
  /\ Spawners \cap Users = {} /\ Spawners \cap Closers = {}
  /\ Users \cap Closers = {} /\ Stoppers \cap Waiters = {}
  /\ Spawners \cap Loose = {}
  /\ NoName \notin Names /\ NoActor \notin Actors
  /\ MaxFaults \in Nat
  /\ \A c \in Casts : c \subseteq Procs \cup Loose

VARIABLES
  cast,      \* the calls that may be made, and the loose actors
  actors,    \* s.actors: the actor of each name, NoActor for none
  order,     \* s.order
  stopped,   \* s.stopped
  handlers,  \* s.eventHandlers
  state,     \* State() of each actor; "Launched" is still Initialized to it,
             \* "Stopped" is Done or StoppedWithError, "Failed" any other end
  alive,     \* the actor's goroutine runs
  told,      \* the actor's stop channel is closed
  faults,    \* how many of MaxFaults have happened
  served,    \* the command of each user has been executed
  entries,   \* StopAll's list of what is left to stop, last registered first
  errs,      \* the names whose Stop returned an error
  signal,    \* a signal has been caught, or AwaitShutdown's context has ended
  pc, result,
  arg,       \* the name a call is about
  target,    \* the actor it holds
  copy,      \* the handlers an emitEvent has yet to call
  heard,     \* history: the names in StopAll's events, for each handler
  closing,   \* history: entries as it was when the system was stopped
  freed      \* history: actors that are not, or no longer, the system's

registry == <<actors, order, stopped, freed>>
acts     == <<state, alive, told, faults, served>>
stopAll  == <<entries, errs, closing>>
locals   == <<arg, target, copy>>
calls    == <<pc, result, locals>>
rest     == <<handlers, heard, signal, cast>>
world    == <<registry, acts, stopAll, rest>>
vars     == <<world, calls>>

Init ==
  /\ cast \in Casts
  /\ actors = [n \in AllNames |-> NoActor]
  /\ order = <<>> /\ stopped = FALSE /\ handlers = <<>>
  /\ state = [a \in Actors |-> IF a \in Loose THEN "Started" ELSE "Initialized"]
  /\ alive = [a \in Actors |-> a \in Loose]
  /\ told = [a \in Actors |-> FALSE]
  /\ faults = 0
  /\ served = [u \in Users |-> FALSE]
  /\ entries = <<>> /\ errs = {} /\ closing = <<>>
  /\ signal = FALSE
  /\ pc = [p \in Procs |-> "idle"]
  /\ result = [p \in Procs |-> "none"]
  /\ arg = [p \in Procs |-> NoName]
  /\ target = [p \in Procs |-> NoActor]
  /\ copy = [p \in Procs |-> <<>>]
  /\ heard = [u \in Users |-> <<>>]
  /\ freed = Actors

SetState(a, s) == state' = [state EXCEPT ![a] = s]

Fault == faults < MaxFaults /\ faults' = faults + 1

Idle(p) == p \in cast /\ pc[p] = "idle"

Goto(p, to) == pc' = [pc EXCEPT ![p] = to] /\ UNCHANGED <<result, locals>>

\* A call that returns drops its locals.
Return(p, r) ==
  /\ pc' = [pc EXCEPT ![p] = "returned"]
  /\ result' = [result EXCEPT ![p] = r]
  /\ arg' = [arg EXCEPT ![p] = NoName]
  /\ target' = [target EXCEPT ![p] = NoActor]
  /\ UNCHANGED copy

-----------------------------------------------------------------------------
(* register, Unregister, the look-up of send and Get                       *)

\* Mutant: a system that is stopped goes on to register.
FreeName(n) == n # NoName /\ actors[n] = NoActor

\* register's checks: the system is not stopped, the name not empty, not taken.
Registrable(n) == ~stopped /\ n # NoName /\ actors[n] = NoActor

Bind(n, a) ==
  /\ actors' = [actors EXCEPT ![n] = a]
  /\ order' = Append(order, n)
  /\ freed' = freed \ {a}
  /\ UNCHANGED stopped

\* The refs a user can have: of loose actors, and of those Spawn returned.
Refs == (Loose \cap cast) \cup {p \in Spawners : pc[p] = "returned" /\ result[p] = "ok"}

\* Register, which refuses a nil ref before anything else.
UserRegisters(u, n, a) ==
  /\ Idle(u)
  /\ IF a # NoActor /\ Registrable(n) THEN Bind(n, a) /\ Return(u, "ok")
                                      ELSE UNCHANGED registry /\ Return(u, "err")
  /\ UNCHANGED <<acts, stopAll, rest>>

\* Mutant: the slot of the name is left as it is.
NoTombstone(n) == order

\* The first slot with the name becomes a tombstone.
Tombstone(n) ==
  LET slots == {i \in DOMAIN order : order[i] = n}
  IN  [i \in DOMAIN order |->
         IF i \in slots /\ \A j \in slots : i <= j THEN NoName ELSE order[i]]

Unregister(u, n) ==
  /\ Idle(u)
  /\ IF ~stopped /\ actors[n] # NoActor
     THEN /\ actors' = [actors EXCEPT ![n] = NoActor]
          /\ order' = Tombstone(n)
          /\ freed' = IF \E k \in Names : actors'[k] = actors[n] THEN freed
                      ELSE freed \cup {actors[n]}
          /\ UNCHANGED stopped
          /\ Return(u, "ok")
     ELSE UNCHANGED registry /\ Return(u, "err")
  /\ UNCHANGED <<acts, stopAll, rest>>

\* Send, Ask ("dispatch") and Get with a Stop of what it returns ("stop"): the
\* look-up is under the lock, what is done with the actor is not.
Lookup(u, n, to) ==
  /\ Idle(u)
  /\ IF ~stopped /\ actors[n] # NoActor
     THEN /\ pc' = [pc EXCEPT ![u] = to]
          /\ target' = [target EXCEPT ![u] = actors[n]]
          /\ UNCHANGED <<result, arg, copy>>
     ELSE Return(u, "err")
  /\ UNCHANGED world

-----------------------------------------------------------------------------
(* The dispatch closure, the actor's Receive, and Await                    *)

\* The type assertion, then the load of the state.
Dispatch(u) ==
  /\ pc[u] = "dispatch"
  /\ IF Kind[u] = Kind[target[u]] /\ state[target[u]] = "Started"
     THEN Goto(u, "enqueue") ELSE Return(u, "err")
  /\ UNCHANGED world

\* The buffer has room and takes the command, whatever has become of the actor
\* since: Send returns, Ask goes on to Await.
Enqueue(u) ==
  /\ pc[u] = "enqueue"
  /\ Return(u, "ok") \/ Goto(u, "await")
  /\ UNCHANGED world

EnqueueStopped(u) ==
  /\ pc[u] = "enqueue"
  /\ told[target[u]]
  /\ Return(u, "err")
  /\ UNCHANGED world

\* The receive timeout, of an actor that has one, or the end of the context.
EnqueueGivesUp(u) ==
  /\ pc[u] = "enqueue"
  /\ Return(u, "err")
  /\ UNCHANGED world

Answered(u) ==
  /\ pc[u] = "await"
  /\ served[u]
  /\ Return(u, "ok")
  /\ UNCHANGED world

\* Mutant: Await gives up only on an actor that is no longer running.
AwaitTimerIfStopped(u) ==
  /\ pc[u] = "await"
  /\ state[target[u]] # "Started"
  /\ Return(u, "err")
  /\ UNCHANGED world

AwaitTimer(u) ==
  /\ pc[u] = "await"
  /\ Return(u, "err")
  /\ UNCHANGED world

-----------------------------------------------------------------------------
(* Stop of an actor: by a user, by Spawn's clean-ups and by StopAll        *)

\* Mutant: only the error of the last Stop is kept.
LastError(failed) == IF failed THEN {Head(entries).name} ELSE {}

Errors(failed) == IF failed THEN errs \cup {Head(entries).name} ELSE errs

\* StopAll notes the error and emits; Spawn returns the error that led to its
\* clean-up.
AfterStop(p, failed) ==
  IF p \in Closers
  THEN /\ errs' = Errors(failed)
       /\ entries' = Tail(entries)
       /\ Goto(p, "emit")
       /\ UNCHANGED closing
  ELSE /\ Return(p, IF p \in Spawners THEN result[p] ELSE IF failed THEN "err" ELSE "ok")
       /\ UNCHANGED stopAll

StopCAS(p) ==
  /\ pc[p] = "stop"
  /\ IF state[target[p]] = "Started"
     THEN /\ SetState(target[p], "Stopping")
          /\ told' = [told EXCEPT ![target[p]] = TRUE]
          /\ Goto(p, "awaitStop")
          /\ UNCHANGED stopAll
     ELSE AfterStop(p, TRUE) /\ UNCHANGED <<state, told>>
  /\ UNCHANGED <<registry, alive, faults, served, rest>>

\* The goroutine has exited, or the timer fires.
StopWaits(p) ==
  /\ pc[p] = "awaitStop"
  /\ SetState(target[p], "Stopped")
  /\ Goto(p, "afterStop")
  /\ UNCHANGED <<registry, alive, told, faults, served, stopAll, rest>>

\* The hooks return, or AfterStop panics, and Stop returns nil.
StopReturns(p) ==
  /\ pc[p] = "afterStop"
  /\ \/ UNCHANGED <<state, faults>>
     \/ Fault /\ SetState(target[p], "Failed")
  /\ AfterStop(p, FALSE)
  /\ UNCHANGED <<registry, alive, told, served, rest>>

-----------------------------------------------------------------------------
(* Spawn                                                                   *)

\* StartNew: New and Start, which may fail, and the goroutine.
SpawnStarts(p, n) ==
  /\ Idle(p)
  /\ \/ Return(p, "err") /\ UNCHANGED <<state, alive>>
     \/ /\ pc' = [pc EXCEPT ![p] = "waitReady"]
        /\ arg' = [arg EXCEPT ![p] = n]
        /\ target' = [target EXCEPT ![p] = p]
        /\ SetState(p, "Launched")
        /\ alive' = [alive EXCEPT ![p] = TRUE]
        /\ UNCHANGED <<result, copy>>
  /\ UNCHANGED <<registry, told, faults, served, stopAll, rest>>

\* WaitReady returns; or its timer or context is first, and the actor is
\* stopped, best-effort.
SpawnWaits(p) ==
  /\ pc[p] = "waitReady"
  /\ \/ /\ state[p] # "Launched"
        /\ Goto(p, "register")
     \/ /\ pc' = [pc EXCEPT ![p] = "stop"]
        /\ result' = [result EXCEPT ![p] = "notReady"]
        /\ UNCHANGED locals
  /\ UNCHANGED world

\* Register; when it fails the actor is stopped before Spawn returns.
SpawnRegisters(p) ==
  /\ pc[p] = "register"
  /\ IF Registrable(arg[p])
     THEN /\ Bind(arg[p], p)
          /\ pc' = [pc EXCEPT ![p] = "emit"]
          /\ result' = [result EXCEPT ![p] = "ok"]
     ELSE /\ UNCHANGED registry
          /\ pc' = [pc EXCEPT ![p] = "stop"]
          /\ result' = [result EXCEPT ![p] = "err"]
  /\ UNCHANGED <<acts, stopAll, rest, locals>>

-----------------------------------------------------------------------------
(* Events: ActorStarted from Spawn; SystemStopping, which has no name, and *)
(* ActorStopped from StopAll                                               *)

\* Mutant: the new handler is put in front.
AddedFirst(u) == <<u>> \o handlers

Added(u) == Append(handlers, u)

\* The handler is named after the user that registers it.
OnEvent(u) ==
  /\ Idle(u)
  /\ handlers' = Added(u)
  /\ Return(u, "ok")
  /\ UNCHANGED <<registry, acts, stopAll, heard, signal, cast>>

EmitEvent(p) ==
  /\ pc[p] = "emit"
  /\ copy' = [copy EXCEPT ![p] = handlers]
  /\ pc' = [pc EXCEPT ![p] = "notify"]
  /\ UNCHANGED <<world, result, arg, target>>

CallHandler(p) ==
  /\ pc[p] = "notify" /\ copy[p] # <<>>
  /\ heard' = IF p \in Closers THEN [heard EXCEPT ![Head(copy[p])] = Append(@, arg[p])]
                               ELSE heard
  /\ copy' = [copy EXCEPT ![p] = Tail(@)]
  /\ UNCHANGED <<registry, acts, stopAll, handlers, signal, cast,
                 pc, result, arg, target>>

\* Every handler has been called: Spawn returns the ref, StopAll goes on.
Emitted(p) ==
  /\ pc[p] = "notify" /\ copy[p] = <<>>
  /\ IF p \in Spawners THEN Return(p, "ok") ELSE Goto(p, "next")
  /\ UNCHANGED world

-----------------------------------------------------------------------------
(* StopAll and AwaitShutdown                                               *)

\* Mutant: neither tombstones nor the map are looked at.
AnySlots == DOMAIN order

\* What is in order and not passed over: tombstones are, and so are names that
\* are not in the map.
Slots == {i \in DOMAIN order : order[i] # NoName /\ actors[order[i]] # NoActor}

Entry(i) == [name |-> order[i], managed |-> actors[order[i]]]

\* Mutant: the actors are listed in the order of their registration.
SnapshotInOrder == [k \in 1..Cardinality(Slots) |-> Entry(Nth(Slots, k))]

\* In reverse.
Snapshot ==
  [k \in 1..Cardinality(Slots) |-> Entry(Nth(Slots, Cardinality(Slots) - k + 1))]

Close(s) ==
  /\ IF s \in Waiters THEN pc[s] = "signalled" ELSE Idle(s)
  /\ IF stopped
     THEN Return(s, "stopped") /\ UNCHANGED <<registry, stopAll>>
     ELSE /\ stopped' = TRUE
          /\ entries' = Snapshot
          /\ closing' = Snapshot
          /\ actors' = [n \in AllNames |-> NoActor]
          /\ order' = <<>>
          /\ Goto(s, "emit")
          /\ UNCHANGED <<errs, freed>>
  /\ UNCHANGED <<acts, rest>>

StopNext(s) ==
  /\ pc[s] = "next"
  /\ entries # <<>>
  /\ arg' = [arg EXCEPT ![s] = Head(entries).name]
  /\ target' = [target EXCEPT ![s] = Head(entries).managed]
  /\ pc' = [pc EXCEPT ![s] = "stop"]
  /\ UNCHANGED <<world, result, copy>>

StopAllReturns(s) ==
  /\ pc[s] = "next"
  /\ entries = <<>>
  /\ Return(s, IF errs = {} THEN "ok" ELSE "err")
  /\ UNCHANGED world

\* The signal ends the wait; StopAll follows.
AwaitShutdown(s) ==
  /\ Idle(s)
  /\ signal
  /\ Goto(s, "signalled")
  /\ UNCHANGED world

-----------------------------------------------------------------------------
(* The actors and the outside world                                        *)

ActorStarts(a) ==
  /\ state[a] = "Launched"
  /\ SetState(a, "Started")
  /\ UNCHANGED <<registry, alive, told, faults, served, stopAll, rest, calls>>

\* A handler or hook panics, and the goroutine goes on; or the actor's context
\* ends, and it exits.
ActorFails(a) ==
  /\ Fault
  /\ a \in cast /\ alive[a] /\ state[a] \in {"Started", "Stopping", "Stopped"}
  /\ SetState(a, "Failed")
  /\ alive' = alive \/ alive' = [alive EXCEPT ![a] = FALSE]
  /\ UNCHANGED <<registry, told, served, stopAll, rest, calls>>

\* The goroutine, between two commands, finds itself told to stop.
ActorExits(a) ==
  /\ alive[a] /\ told[a]
  /\ alive' = [alive EXCEPT ![a] = FALSE]
  /\ UNCHANGED <<registry, state, told, faults, served, stopAll, rest, calls>>

\* The goroutine executes a command that was accepted.
ActorServes(u) ==
  /\ pc[u] = "await" /\ alive[target[u]]
  /\ served' = [served EXCEPT ![u] = TRUE]
  /\ UNCHANGED <<registry, state, alive, told, faults, stopAll, rest, calls>>

Signal ==
  /\ ~signal /\ Waiters \cap cast # {}
  /\ signal' = TRUE
  /\ UNCHANGED <<registry, acts, stopAll, handlers, heard, cast, calls>>

-----------------------------------------------------------------------------
Spawn(p)   == SpawnWaits(p) \/ SpawnRegisters(p)
Stop(p)    == StopCAS(p) \/ StopWaits(p)
Emit(p)    == EmitEvent(p) \/ Emitted(p)
Ask(u)     == Dispatch(u) \/ EnqueueStopped(u) \/ Answered(u) \/ AwaitTimer(u)
StopAll(s) == StopNext(s) \/ StopAllReturns(s)

UserCalls(u) ==
  \/ OnEvent(u)
  \/ \E n \in AllNames :
    \/ \E a \in Refs \cup {NoActor} : UserRegisters(u, n, a)
    \/ Unregister(u, n)
    \/ \E to \in {"dispatch", "stop"} : Lookup(u, n, to)

UserGoesOn(u) == Enqueue(u) \/ EnqueueGivesUp(u) \/ Ask(u) \/ ActorServes(u)

Next ==
  \/ \E p \in Spawners : Spawn(p) \/ \E n \in AllNames : SpawnStarts(p, n)
  \/ \E u \in Users : UserCalls(u) \/ UserGoesOn(u)
  \/ \E s \in Closers : Close(s) \/ StopAll(s)
  \/ \E s \in Waiters : AwaitShutdown(s)
  \/ \E p \in Procs : Stop(p) \/ StopReturns(p) \/ Emit(p) \/ CallHandler(p)
  \/ \E a \in Actors : ActorStarts(a) \/ ActorFails(a) \/ ActorExits(a)
  \/ Signal

Spec == Init /\ [][Next]_vars

\* The scheduler runs the library's goroutines, and the timers of WaitReady, Stop
\* and Await fire. Nothing is assumed of the users, the actors' commands, the
\* room in their buffers, the hooks and the event handlers; nor that a sender has
\* a receive timeout, for without one it may wait for ever.
Library(p) ==
  \/ p \in Spawners /\ Spawn(p)
  \/ p \in Users /\ Ask(p)
  \/ p \in Closers /\ StopAll(p)
  \/ p \in Waiters /\ (AwaitShutdown(p) \/ Close(p))
  \/ Stop(p) \/ Emit(p)

FairSpec == Spec /\ \A p \in Procs : WF_vars(Library(p))
=============================================================================
