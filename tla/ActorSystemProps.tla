-------------------------- MODULE ActorSystemProps ----------------------------
(***************************************************************************)
(* What is to hold of the actor system of ActorSystem.tla.                 *)
(***************************************************************************)
EXTENDS ActorSystem

ActorStates == {"Initialized", "Launched", "Started", "Stopping", "Stopped", "Failed"}

Steps == {"idle", "returned", "dispatch", "enqueue", "await", "stop", "awaitStop",
          "afterStop", "waitReady", "register", "emit", "notify", "next", "signalled"}

Entries == Seq([name : Names, managed : Actors])

\* Every variable has its type; what is dispatched to or stopped is an actor.
TypeOK ==
  /\ cast \in Casts
  /\ actors \in [AllNames -> Actors \cup {NoActor}]
  /\ order \in Seq(AllNames)
  /\ {stopped, signal} \subseteq BOOLEAN
  /\ handlers \in Seq(Users)
  /\ state \in [Actors -> ActorStates]
  /\ alive \in [Actors -> BOOLEAN] /\ told \in [Actors -> BOOLEAN]
  /\ faults \in 0..MaxFaults
  /\ served \in [Users -> BOOLEAN]
  /\ entries \in Entries /\ closing \in Entries
  /\ errs \subseteq Names
  /\ pc \in [Procs -> Steps]
  /\ result \in [Procs -> {"none", "ok", "err", "notReady", "stopped"}]
  /\ arg \in [Procs -> AllNames]
  /\ target \in [Procs -> Actors \cup {NoActor}]
  /\ \A p \in Procs :
       pc[p] \in {"dispatch", "enqueue", "await", "stop", "awaitStop", "afterStop"} =>
         target[p] \in Actors
  /\ copy \in [Procs -> Seq(Users)]
  /\ heard \in [Users -> Seq(AllNames)]
  /\ freed \subseteq Actors

\* The map and the order of the registry agree: a name that is not a tombstone
\* is in the order once, exactly while an actor is registered under it.
RegistryConsistent ==
  /\ \A i, j \in DOMAIN order : order[i] = order[j] /\ order[i] # NoName => i = j
  /\ \A n \in AllNames :
       actors[n] # NoActor <=> n # NoName /\ \E i \in DOMAIN order : order[i] = n

\* The registry is an ordered table of actors that closes once and then stops
\* them in reverse: the system implements RegistryContract.
Table == [k \in 1..Cardinality(Slots) |-> Entry(Nth(Slots, k))]

Contract == INSTANCE RegistryContract
  WITH open <- ~stopped, table <- Table, toStop <- entries

ImplementsRegistry == Contract!Spec

-----------------------------------------------------------------------------
ShutDown(s) == pc[s] = "returned" /\ result[s] # "stopped"

\* Once the StopAll that closed the system has returned, an actor that was the
\* system's runs on only if it has been told to stop, or if StopAll has reported
\* it; one whose Spawn has failed, only if it has been told to stop, or if it had
\* panicked before that, or if it was not ready in time, and Spawn's Stop came too
\* early to have an effect. All others that run were never registered, were
\* unregistered, or have a Spawn that is not over.
NothingSurvives ==
  (\E s \in Closers : ShutDown(s)) =>
    \A a \in Actors : alive[a] /\ ~told[a] =>
      /\ a \in freed \/ \E i \in DOMAIN closing :
                          closing[i].managed = a /\ closing[i].name \in errs
      /\ a \in Spawners /\ pc[a] = "returned" /\ result[a] = "err" => state[a] = "Failed"

\* What the documents say of a Spawn that fails at the registration: the actor is
\* stopped, nothing is left running unregistered.
SpawnFailureStops ==
  \A p \in Spawners :
    pc[p] = "returned" /\ result[p] = "err" /\ alive[p] => told[p]

\* A StopAll that returns nil has told each of the system's actors to stop; a
\* panicked or otherwise lost one, which cannot be told, shows in the error.
NilMeansTold ==
  \A s \in Closers :
    pc[s] = "returned" /\ result[s] = "ok" =>
      \A i \in DOMAIN closing : told[closing[i].managed]

\* The names in the events of the shutdown: SystemStopping has none, then comes
\* one ActorStopped for each registered actor in the order of the stops.
Shutdown == <<NoName>> \o [i \in DOMAIN closing |-> closing[i].name]

HeardShutdown(h, from, to) == heard[h] = SubSeq(Shutdown, from, to)

\* A handler hears all events of the shutdown from the first it hears, once each
\* and in order, and a handler that was registered earlier is never behind it.
EventsInOrder ==
  \A j \in DOMAIN handlers : \E from \in 1..(Len(Shutdown) + 1), to \in 0..Len(Shutdown) :
    /\ HeardShutdown(handlers[j], from, to)
    /\ \A i \in 1..(j - 1) : from <= to =>
         \E f \in 1..from, t \in to..Len(Shutdown) : HeardShutdown(handlers[i], f, t)

-----------------------------------------------------------------------------
HandlersReturn  == \A p \in Procs : WF_vars(CallHandler(p))
HooksReturn     == \A p \in Procs : WF_vars(StopReturns(p))
ReceiveTimeouts == \A u \in Users : WF_vars(EnqueueGivesUp(u))

Called(p) == pc[p] # "idle" \/ (p \in Waiters \cap cast /\ signal)

\* In the end every call has returned, of Spawn, Send, Ask, Stop and StopAll,
\* whatever the actors do and whoever else calls, and of AwaitShutdown after a
\* signal, as long as the event handlers and the hooks return and the actors have
\* receive timeouts: each wait has a timer. Without receive timeouts a sender may
\* be held by a full buffer for ever, also in an Ask, but not one of an actor that
\* is told to stop.
CallsReturn ==
  /\ HandlersReturn /\ HooksReturn /\ ReceiveTimeouts =>
       <>[](\A p \in Procs : Called(p) => pc[p] = "returned")
  /\ <>[](\A u \in Users : pc[u] = "enqueue" => ~told[target[u]])
=============================================================================
