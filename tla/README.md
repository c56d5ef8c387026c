# A verification of go-actorlib in TLA+

These modules model go-actorlib (`src/pkg/`): the actor with its message loop,
the command it runs and the caller that awaits it, the supervisor that restarts
actors, the actor system that names and stops them, and the parts users combine
around an actor: mailbox, middleware, behaviours, dead letters. TLC checks them on
small instances; TLAPS proves the main theorems for every value of the constants.

1. [The system](#the-system) 2. [Modules](#modules) 3. [Runs](#runs)
4. [Findings](#findings) 5. [Proofs](#proofs) 6. [Not modelled](#not-modelled)
7. [Plan](#plan)

## The system

| Component | State | Operations | What makes it correct |
|---|---|---|---|
| `actor.GoActor` | atomic `state`, channels `input`, `ready`, `stop`, `done`, the loop goroutine | `New`, `Start`, `StartNew`, `WaitReady`, `Receive`, `Stop`, four hooks | commands run one at a time in the order they were accepted, none lost on the way; channels closed once; Done only after the goroutine has exited; Stop returns |
| `actor.BehaviorStack`, actor context | stack of handlers, used by the loop only | `Become`, `BecomeReplace`, `Unbecome`, `Current` | the base handler, with its middleware, is never popped |
| middleware (`Chain`, logging, metrics, recovery) | two atomic counters | wrap a handler | order of the chain; recovery hides panics from the loop; the counters agree |
| `command.GoCommand` | `state` and `err` under a mutex, `done` of capacity 1 | `Execute`, `Done`, `Error`, `State` | the closed channel announces a final state; value and error are of one outcome |
| `ask` | none | `New`, `Await` | returns in time with a whole answer |
| `actorref.Ref` | none | a proxy to the actor | |
| `supervision.Supervisor` | children with `ref` and `version`, `restarts`, `stopped`, all under a mutex; one monitor goroutine per start | `Add`, `StartAll`, `StopAll`, `Watch`, restarts | no actor orphaned, each end answered once, versions retire monitors |
| `system.ActorSystem` | `actors`, `order`, `stopped`, `eventHandlers` under an RWMutex | `Register`, `Spawn`, `Send`, `Ask`, `Get`, `Unregister`, `StopAll`, `OnEvent` | map and order agree; `StopAll` stops what is registered, in reverse order, or reports it; every call returns |
| `mailbox.PriorityMailbox` | heap, `closed`, notify channel | `Push`, `Pop`, `Close`, `Notify` | priority, then order of arrival; bound; no consumer sleeps while messages wait |
| `deadletter.Queue` | slice of letters, handlers | `Publish`, `OnDeadLetter`, `Letters`, `Clear` | keeps the latest `capacity` letters; each handler hears each letter once |
| `signal` | none | `AwaitShutdown`, `NotifyShutdown` | a signal leads to one `StopAll` |

Interaction: `ask.New` makes a command, `Ref.Send` hands it to `Receive`, which
puts it into `input`; the loop takes it and calls its `Execute` through the
behaviour and middleware; the result comes back on the command's own channel. A
supervisor holds its children as `ChildRef`s (usually a `Ref`): it waits on
`Done()`, reads `State()`, and calls `Stop`. The system keeps refs by name, and
`signal` calls `StopAll` on either. Mailbox and dead letter queue stand alone: the
library's README leaves it to the user to put them in front of an actor and
behind it.

What is hard here: the actor's state is written by three parties (the loop,
the callers of `Stop`, and whoever recovers a panic) without a lock between
them; the checks made on it (`CheckState`, the switch in `Receive`) are loads
followed, later, by acts; the supervisor checks `version` and `stopped` under its
mutex but acts on the answer after releasing it; the system looks an actor up
under its lock and uses it outside; handlers of events and letters are copied
and then called without a lock; a mailbox coalesces its signals; selects choose
freely between ready cases; timers race what they time. `PROJECT.json` lists these hazards
with their lines, and the properties aimed at each.

## Modules

| Module | Content |
|---|---|
| `GoActor` | the actor: state, actions, fairness |
| `ActorContract` | what an actor promises: a bounded server that opens once, serves in order and closes |
| `GoActorProps` | the actor's properties and the refinement mapping to `ActorContract` |
| `GoActorProofs`, `GoActorRefinement` | proofs about the actor |
| `GoCommand` | one command, its executions and its awaiters, with the properties |
| `GoCommandProofs` | proofs about the command |
| `Supervisor`, `SupervisorProps` | the supervisor and its properties |
| `SupervisorProofs` | proofs about the supervisor |
| `ActorSystem`, `ActorSystemProps` | the actor system with `signal` and the callers, and its properties |
| `RegistryContract` | what the system promises of its registry: an ordered table that closes once and gives up its actors in reverse |
| `ActorSystemProofs`, `ActorSystemRefinement` | proofs about the actor system; its contract and the events of the shutdown |
| `PriorityMailbox`, `MailboxContract` | the mailbox, and what it promises: a queue for each priority, bounded together |
| `DeadLetter` | the dead letter queue |
| `Pipeline` | behaviour stack, middleware chain and the recovery of a panic: how the loop runs one command |
| `Delivery`, `DeliveryProps` | the composition of the last three into a worker, and its properties |
| `DeliveryProofs` | proofs about that worker and its parts |
| `Ranks`, `RankProofs` | the elements of a finite set of numbers in order, which describe subsequences, and their lemmas |
| `MCActor`, `MCCommand`, `MCSupervisor`, `MCSystem`, `MCDelivery` | constants for TLC |

Definitions marked "Mutant" are plausible slips in the code that the properties
must catch; no specification uses them.

### GoActor

One step is what a goroutine does between two accesses to shared memory: an
atomic load, store or CAS, a channel operation, or a call of the user's code.

| Model | Code |
|---|---|
| `state`, `input`, `ready`, `stop`, `done` | the fields of the same name (`input` is the buffer's content; the others are whether the channel is closed) |
| `ctx` | the context of `Start`: live, canceled, or past its deadline |
| `crashed` | a closed channel was closed again: the panic is outside every recover and ends the process |
| `pc[c]` | where a caller of `Start`, `Receive` or `Stop` is |
| `loop[s]`, `hand[s]` | where the goroutine spawned by starter `s` is, and the local `e` it received |
| `CheckStart` ... `GoLoop`, `WaitReady` | `Start` and `StartNew`: load of the state, provider, `BeforeStart`, `go`; `WaitReady` and its failure, after which `StopCAS` is the clean-up |
| `LoopStarted` ... `LoopReturn` | the goroutine: store Started, close ready, `AfterStart`, the outer and the inner select, the handler, `handleCtxErr`, `BeforeStop`, the deferred close |
| `ReceiveCheck`, `ReceiveEnqueue`, `ReceiveHandOff`, `ReceiveSeesStop`, `ReceiveGivesUp` | `Receive`: the switch on the state, then the select; `ReceiveHandOff` gives the command to a loop that waits on an empty buffer, or on none; `ReceiveGivesUp` is the end of the caller's context or the receive timeout |
| `StopCAS`, `StopClose`, `StopSeesDone`, `StopTimer`, `AfterStopHook` | `Stop` |

`RunHook` is `catchPanic`: a hook may panic, which stores Panicked and changes
nothing else. `accepted` and `executed` are history variables. A starter calls
Start until it succeeds or finds the wrong state; a sender calls `Receive` once
and stands for the command it sends. A sender may give up and never needs to: an
actor without a receive timeout is among the behaviours, and the liveness
properties hold for it.

`ActorContract` says of acceptance what the code keeps: callers are admitted while
the actor is open and not refusing (it has left Started); those admitted before
may still get a command in, at any later time and also after Done(), which is what
the run `actor_straggler` holds against the documentation.

### GoCommand

`state` and `err` are written together (`syncState`); `result` is the buffer of
`done`. An execution is one run of `Execute`, so several executions are the same
command sent several times. A send on a closed channel panics into the recover
of the inner function; a close of a closed channel does so too on the success and
failure paths, and escapes `Execute` elsewhere (`"escaped"`), into the actor's
`catchPanic`. `AwaitValue` and `AwaitError` are two steps, as in the code. Most
properties are conditional on `Once`: the library itself executes a command once;
the README of the library promises nothing for one that is sent again, although
the comment of `State` (gocommand.go:170) says that the state never moves back.
`ExecuteReturns` and `AwaitReturns` hold also for a command sent twice.

### Supervisor

The children are numbered in the order of `Add`; refs, in the order of their
start; monitor `m` is the goroutine spawned for ref `m`, and after its check it
runs `handleTermination` and the restart in the same goroutine. A ref has what
`ChildRef` shows: `rstate`, `rdone`, and `leaving` (told to exit). Its actor may
fail (its context ends), panic (state only, as GoActor shows), exit when told,
and be stopped by an owner other than the supervisor. The window of
`MaxRestarts` is a count of which any number of the oldest may have expired.
`Publish` is `startChild`'s critical section together with the `go` statement
behind it, for nothing is shared between the two. A panic in `AfterStop`, after
the goroutine has exited, is left to GoActor.

### ActorSystem

A step is one critical section of `s.mu`, one access to an actor, or one call of
an event handler; nothing else happens under the lock, so the lock itself is no
variable. An actor is what its `Ref` shows, `state` and `told` (its stop channel is
closed), and `alive`: its goroutine runs. The two are apart on purpose: an actor that
has panicked is Failed and alive, and so is one whose Stop timed out. The actor that
call `p` of `Spawn` makes is named `p`.

| Model | Code |
|---|---|
| `actors`, `order`, `stopped`, `handlers` | the fields `actors`, `order`, `stopped`, `eventHandlers` |
| `entries`, `errs` | the locals of the `StopAll` that closed the system; only one can |
| `arg`, `target`, `copy` | the name, the looked-up actor and the copied handlers a call holds |
| `Registrable`, `Bind`, `UserRegisters` | `register`, `Register` |
| `Unregister`, `Tombstone` | `Unregister`, which empties the name's slot in `order` |
| `Lookup` | the locked part of `send`, and `Get` (followed by a `Stop` of what it returns) |
| `Dispatch`; `Enqueue`, `EnqueueStopped`, `EnqueueGivesUp`; `Answered`, `AwaitTimer`, `ActorServes` | the dispatch closure with the type assertion and the check of `Receive`; its select, by the room in the buffer, the stop channel, and the timeout or context; and the `Await` of `Ask` |
| `SpawnStarts`, `SpawnWaits`, `SpawnRegisters` | `Spawn`: `StartNew`, `WaitReady` and its clean-up, `Register` and its clean-up |
| `StopCAS`, `StopWaits`, `StopReturns`, `AfterStop` | `Stop`: the CAS and the close, the select, the hooks; and what its caller does with the error |
| `ActorStarts`, `ActorFails`, `ActorExits` | the goroutine: the store of Started, a panic or the end of its context, its exit when told |
| `EmitEvent`, `CallHandler`, `Emitted` | `emitEvent`: copy under the lock, the calls without it |
| `Slots`, `Snapshot`, `Close`, `StopNext`, `StopAllReturns` | `StopAll`: what it takes of `order` and the map, and its loop |
| `AwaitShutdown`, `Signal` | `signal.AwaitShutdown` and what it waits for |

An actor is "Launched" between `go` and the store of Started. Errors are told apart
as far as the properties need: "stopped" is `ErrSystemStopped`, "notReady" a failed
`WaitReady`. The list that `StopAll` takes under the lock has an entry for each slot
of `order` that is neither a tombstone nor a name the map does not have (`Slots`),
from the last to the first. The slice of `order` and the map are checked against
each other, not assumed to agree.

### PriorityMailbox, DeadLetter, Pipeline and Delivery

A mailbox operation is one critical section. `Pop` takes the element of the heap
that `Before` puts before all others (the heap is another library's); `notify` is
the channel of capacity 1. `Publish` is two parts, as in the code: the critical
section, with the eviction and the panic on capacity 0 (which leaves the mutex
locked, `stuck`), and one step for each handler of the copied list.

In `Pipeline` a handler is the sequence of its layers; the loop goes down
through them (`GoDown`), the body may change the behaviour and returns or panics,
and the way up passes through `CountMessage` and `AddDuration` (two atomic adds)
and `Recovery` in `GoUp`. A panic that reaches the loop is `catchPanic` (`Finished`).
A handler given to `Become` is a body alone: the chain is built once, at Start, and
what is pushed on the stack is called as it is. docs/behavior-change.puml:114 reads
"Middleware wraps the current behavior — chain is applied once at startup"; the
second half is what the code does, and `OnlyBypassKills` is what is left of the
first.

`Delivery` adds the glue a user writes: producers push and publish what the mailbox
refuses; a feeder waits on `Notify()`, drains the mailbox, sends each message
to an actor and publishes what the actor refuses. The glue is marked external in
the map; everything it calls is the library's. The feeder's actor has no buffer, so
that the order in which it takes commands is the mailbox's.

## Runs

| Run | Instance | States | Question |
|---|---|---|---|
| `actor` | 1 starter, 1 stopper, 3 senders, buffer 1, every hook and one handler panicking | 300 thousand | the actor's safety, contract and liveness |
| `actor_terminal` | 1 starter, 1 stopper, 1 sender | violation | are the terminal states terminal? |
| `actor_straggler` | the same | violation | does a stopped actor accept nothing? |
| `actor_double_start` | 2 starters | violation | does CheckState guard Start? |
| `command` | 2 executions, 2 awaiters | 11 thousand | safety and liveness of the command |
| `supervisor` | 2 children, 3 refs, MaxRestarts 1, 2 faults under OneForOne and 1 under AllForOne | 300 thousand | the supervisor's safety and liveness |
| `supervisor_clean_stop` | 1 child | violation | are clean stops left alone? |
| `supervisor_cascade` | 2 children, AllForOne | violation | do versions prevent stale cascades? |
| `supervisor_stop_all` | 1 child | violation | does anything survive StopAll? |
| `system` | 2 spawners, 1 loose actor, 2 users, 1 stopper, 1 waiter on 2 names, 1 failure, in three casts | 700 thousand | registry, shutdown, events and calls of the actor system |
| `system_spawn` | the same | violation | does a failed Spawn leave nothing running? |
| `delivery` | 3 producers, 2 handlers, mailbox of 2, capacities 0 and 2, two chains, 1 change of behaviour, in three casts | 540 thousand | the worker: order, no loss, dead letters, panics, metrics |

What the properties say of the actor: `Conservation` relates what senders were
told to what ran (the accepted commands are those run, in hand and buffered, in
that order); `DoneIsQuiescent` relates the state a caller reads to the
goroutine it cannot see; `OneStopper` that concurrent stops do not collide;
`StopIsFinal` that no later store, of the three parties that store the state,
brings a stopped actor back to a running one; `ImplementsContract` that all of it is
`ActorContract`. There is no list of the edges the state may take: those of
docs/actor-lifecycle.puml end in four terminal states, and `TerminalIsFinal` shows
that the code's do not.

Of the supervisor: `NoOrphan` (under OneForOne no running actor is out of the
supervisor's sight), `RunningIsWatched` (under either strategy, what runs has a
live monitor of the present version, or somebody is about to stop it),
`ToldOfTheDead` (watchers hear of an end once, after it), `RestartIsFresh` (under
OneForOne a monitor acts on a version that is still current). Where OneForOne is
named, the corresponding statement fails under AllForOne, as the cascade run shows.

Of the system: `RegistryConsistent` relates the map to the slice; `NothingSurvives`
says of the goroutines, not of the states, what is left once the StopAll that closed
the system has returned: one that runs and was the system's has been told to stop,
or its name is in the error; one whose `Spawn` has failed has been told to stop, or
had panicked before. The second half is all that can be said of a failed Spawn:
README.md:169 says that nothing is left running, and `system_spawn` shows the
panicked actor that is. The actor that was not ready in time is left out by the
result of its Spawn, since the code calls its clean-up best-effort (startnew.go:14).
`NilMeansTold` relates the result of `StopAll` to the actors that
could not be told, a failed one among them. `EventsInOrder` is about the handlers'
view: whoever registers, and when, hears a contiguous stretch of the shutdown. A
handler that is registered earlier is never behind. It expects an ActorStopped also
for an actor whose Stop failed, as the code does it. `ImplementsRegistry` is the
refinement. `CallsReturn` has two parts: calls return when hooks and event handlers
do and actors have receive timeouts; and without receive timeouts a sender is still
not held by an actor that is told to stop.

Of the worker: `ImplementsMailbox` (heap and sequence numbers are queues by
priority), `Delivered` (each message is run or published: no signal is lost in the
gap between an empty `Pop` and the wait), `LettersAreLatest` and `HeardOnce` (the
dead letters under concurrent publishers, `Clear` and registrations),
`OnlyBypassKills` (with Recovery only a behaviour that bypasses the chain makes the
actor Panicked) and `MetricsAgree` (the counters between messages, and what a
reader of the average can miss).

**Bounds.** `BufSize` 1 is the library's default and makes a full buffer and a
blocked sender common with three senders. The hand-off of an unbuffered channel is
an action of the model (`ReceiveHandOff`) that is fired by a loop that waits on an
empty buffer; a buffer of 0 is covered by the proofs, which are for every `BufSize`.
One stopper races the CAS against the starter's clean-up. `MaxRefs` bounds the
starts of children: with two children and three refs one restart under OneForOne and
an incomplete one under AllForOne occur, with four (in `supervisor_cascade`) a whole
cascade. `MaxFaults` bounds failures, panics and external stops together: two are
what a race between monitors needs; under AllForOne the passing run has one, and
what two do there is shown by `supervisor_cascade` and, for `RunningIsWatched`, by
the theorem. `MaxRestarts` 1 makes the limit reachable. When `born` has reached
`MaxRefs` a start can only fail, which the code must cope with anyway. In `system`
and `delivery` the constant `Casts` says who may take part in one history: all calls
at once would be too many states, and each cast brings together those that race each
other (a spawner, users and an awaited signal; a spawner, a user and a direct
StopAll beside the awaited one; two spawners and a StopAll). Two names are enough
for a tombstone beside a name and for a name that is taken again, one failure (a
panic, the end of a context, or a panic of AfterStop) for a StopAll that must report
one error and go on. In `delivery` `MaxSize` 2 with three producers makes the
mailbox full; with capacity 2 the third refused message evicts the first and leaves
the order of the other two to see, and capacity 0 reaches the panic of `Publish`;
`MaxBecome` 1 already takes the chain off the stack's top; the two chains put
Recovery outside and inside Metrics. Deadlock is not checked: calls end, and an
actor that nobody stops waits for ever, as it should.

**Fairness.** Goroutines that can run library code are run (weak fairness per
goroutine), a ready channel operation is taken, and a timer that is set fires: that
is the Go scheduler and `time.Timer`. One conjunct covers the whole of a goroutine's
select, so that no particular case of it is favoured: which one is taken is left
open. Hooks, handlers and delegates have no fairness of their own; properties that
need them to return say so in a premise (`UserCodeReturns`, `DelegateEnds`). Callers
of Start, Stop and Receive need never call, contexts need never end, and an actor
under a supervisor need never exit. A blocked sender is served fairly only through
its weak fairness, and `AcceptedIsServed` is about accepted commands alone. In
`ActorSystem` the library's part of each call has weak fairness: the locked
sections, the timers of `WaitReady`, `Stop` and `Await`, and the case of a select
that is ready since the actor was told to stop. Room in a buffer has none, since a
handler may never return, and neither has a receive timeout, since 0 sets none
(README.md:122, "waits indefinitely"); event handlers and the hooks within `Stop`
are the user's. What needs them names them: `HandlersReturn`, `HooksReturn`,
`ReceiveTimeouts` in `CallsReturn`. In `Delivery` the feeder, the actor's loop and
those who publish are run; producers and the others need never act.

## Findings

Each of these runs violates a statement of the documentation.

- `actor_terminal`: Stop, the loop and `catchPanic` store the state over each other.
  A timed-out Stop reports StoppedWithError while its goroutine runs on and may store
  Canceled or Panicked; Stop overwrites Canceled with Done; a panic in `AfterStop`
  turns Done into Panicked. The comments at goactor.go:63, 67, 71 and 75 and
  docs/actor-lifecycle.puml:29-32 call the four states terminal. A recovered panic is
  the sharpest case: the actor is Panicked and its loop goes on, so `Receive` refuses,
  `Stop` fails, and a supervisor is not told, although docs/supervision.puml:48-49 has
  Done() fire.
- `actor_straggler`: a sender that passed the switch of `Receive` before the stop may
  find room in the buffer after it, and is told that its command was accepted when
  the goroutine has exited and the state is Done. goactor.go:59 and 435 say that the
  actor stops accepting, docs/README.md:126 that the stop channel avoids the race.
- `actor_double_start`: `Start` checks the state with a load; concurrent calls
  both pass, and the second goroutine's `close(ga.ready)` ends the process.
- `supervisor_clean_stop`: the monitor reads `Stopping` between the close of
  `done` and the store of `Done`, and restarts a child its owner has stopped.
- `supervisor_cascade`: the version is checked once, before the lock is released.
- `supervisor_stop_all`: so is `stopped`; a restart in flight outlives `StopAll`.
- `system_spawn`: when the registration fails, `Spawn` stops its actor and drops the
  error; one that has panicked since it was ready refuses the Stop and runs on,
  against README.md:169 and spawn.go:17.

Three more disagreements are in the models and have no run of their own. `Ask` sends
before its timer starts (dispatch.go:70-74): without a receive timeout a full buffer
may hold it for longer than its timeout, although dispatch.go:53-56 list the timeout
among what ends it; this is why `CallsReturn` has the premise `ReceiveTimeouts`. A
handler given to `Become` has no middleware around it (see `Pipeline`), although
docs/behavior-change.puml:114 begins with "Middleware wraps the current behavior".
And the state of a command that is sent twice moves back, although gocommand.go:170
says "never"; this is why `StateAdvances` has the premise `Once`.

## Proofs

All proofs are about the specifications TLC runs, for every set of callers, every
buffer size and every choice of what may panic. The assumptions on the constants
are that the sets of callers are disjoint, that sizes and bounds are naturals, that
each producer has one of the priorities (`PrioritiesKnown`) and that a chain is
made of the three middlewares of the library (`ChainsKnown`).

**Type correctness of the actor** (`TypeCorrect`) holds for concurrent Starts too.
`TypeOK` is not inductive by itself, since the command the loop executes is the
one in its hand: `HandFull` says that the hand is full at the inner select.

**The actor's safety** is proved under `OneStarter`, the hypothesis that one
goroutine calls Start, which is how the library starts an actor; the run
`actor_double_start` shows that it is needed. The inductive invariant `IInv`
adds to the types what ties the program counters to the channels: `SpawnedInv`
(the goroutine exists when its starter has got that far), `ChannelInv` (ready,
stop and done are closed exactly by those who have passed their close),
`WinnerInv` (one client at most is past the CAS), and `StateInv` (which states are
possible at which step of loop and winner: with a winner, never Initialized or
Started again). From it follow `ConcurrentStops`,
`DoneMeansExited` and `StoppedForGood`. The order
of Stop's two acts matters here: with the state stored before done is seen, as in
the mutant `TimerStoresDone`, `StateInv` is not preserved.

**No loss** (`NothingLost`): `Conservation` is inductive together with the types and
the fact that the loop's hand is empty between two commands (a goroutine that leaves
at its inner select keeps the command it drops); the steps are identities of
concatenation, proved as lemmas first.

**Refinement** (`ActorImplementsContract`): initial states map to the contract's
initial states, and every step to a step of the contract or a stutter. The
contract's queue is the command in hand followed by the buffer, hence its
capacity of `BufSize + 1`; closing is the first of stop and the context's end;
refusing, that the state has left Started; and the admitted are the senders that have
passed the switch of `Receive`. That no caller is admitted again once the actor
refuses rests on `StateInv`: Started is stored once, before anything refuses.

**The command** (`GoCommandProofs`): for any number of executions and awaiters.
Given `Once`, `ExecInv` says for each step of the one execution what state, error
and channel hold, and that until the result is sent no one can have received
one (`Without`); `AwaitInv` says what an awaiter between its two reads can rely
on. `NothingEscapes`, `SendNeverBlocks`, `AnswersAreWhole`, `ClosedAfterState` and
`StateOnlyAdvances` follow.

**The supervisor** (`SupervisorProofs`), for any number of children, refs, faults
and restarts. `IInv` says what the processes hold (`Held`), what a ref that has not
started or has exited looks like (`Started`), that a ref which is not yet published
belongs to one process (`Unpublished`), and that a monitor whose version is the
child's watches the child's present ref (`Versions`): this is what the version buys
under either strategy. `OneMonitor` adds what OneForOne makes of it, that a child
has at most one monitor and it is that of its ref; then nobody else can change the
version under its feet, and `NoActorIsOrphaned`, `EndIsToldOnce` and
`RestartsAreFresh` follow. `WhatRunsIsWatched` holds under both: a monitor loses its
version only to a process that publishes a new ref, with a monitor, or holds the old
ref and stops it next.

**The actor system** (`ActorSystemProofs`), for any callers, actors and names.
`OneCloser`: one call at most has closed the system, and what it stops is the first
of its list. `Worked`: what is left of the list is a suffix of the list that was
taken, and what is gone from it was told or is among the errors (`Handled`). `Owned`:
an actor that is the system's is registered, or on that list. `Spawning`: an actor
that is registered or on the list has got past the store of Started, so that it
cannot come to life behind StopAll's back; this is why `Spawn` waits for the actor
before it registers it. `Stoppable`: what a Stop may refuse is either told already
or Failed, so that an untold survivor can only be Failed. `RegistryAgrees`,
`ShutdownLeavesNothing` and `NilToldAll` follow. TLC checked the invariants of both
modules before they were proved.

**The registry implements its contract** (`SystemImplementsRegistry`). The table of
`RegistryContract` has an entry for each element of `Slots`, by rank: the k-th entry is
the one of the k-th slot in use. The lemmas of `RankProofs` say what happens to the
ranks when a set of numbers grows at its end (a registration takes the slot behind
all others) or loses an element (a tombstone); `RegistryConsistent` is what makes the
slot of a name unique. `StopAll` maps to the contract's `Close`, and each Stop that
returns to it to `StopOne`; all other steps stutter.

**The events of the shutdown** (`EventsAreHeardInOrder`). `Begun` counts the events that
have begun, which can be told from what is left of StopAll's list; a handler is `Due`
while the copy that is being called still holds it, and `Missed` is what had begun
when it was registered. `Hearing` is inductive with two facts about the code, that
handlers are only appended (`Handlers`) and that the call holds the name of the next
event and a suffix of the handlers (`Announces`): each handler has heard the events
from the first it did not miss, but perhaps the one it is due, and of two handlers
the earlier has missed no more. The delicate case is an event that the earlier
handler has yet to hear while the later is not in the copy: then the later was
registered after the event began, and has heard nothing.

**The dead letter queue** (`DeliveryProofs`), for any publishers, handlers,
capacities and priorities. `Fresh`: a message is with its producer, in the mailbox,
with the feeder or published, so that none is published twice. `Called`: a publisher
that calls handlers has one letter, its own, and those it has yet to call have not
got it. With these, `Latest` and `Heard` are inductive: the letters kept are those at
the end of the history, and a handler is owed just what it got and what some
publisher is about to call it with. They say letter by letter what
`TheLatestAreKept` and `EachHearsOnce` conclude. TLC checked the invariant first.

**The chain** (`ChainKeepsOrder`): `Wrap`, the fold of `Chain` from the right, yields the
middlewares in the order in which they are given, with the body last, for a chain of
any length. The induction theorems of the library cannot be used here; the proof
takes the least length of a suffix for which the claim would fail.

**The actor of the worker** (`PInv`). As long as nobody called Become the handler that
runs is the chain with the body, so that the layer the loop is in tells which
middlewares a panic has passed (`Guarded`: with Recovery in the chain, a panic on its
way has not passed it yet) and whether the message that runs has been counted
(`Metering`). `DeliveryTypes`, `OnlyBecomeBypassesRecovery` and `MetricsAddUp` follow.
`MetricsAgree` is about any chain with one Metrics: without a Recovery inside it a
message that panics is not counted, and the property says so by its premise.

**The mailbox implements its contract** (`MailboxImplementsContract`). `InOrder` maps the
messages of a priority to a queue, by the ranks of their sequence numbers. `Heap`
says that the numbers tell the messages apart and are all below the next one, so
that a push appends to its queue; a pop takes the least of `Before`, which is the
first of the first queue that is not empty. The contract's `size` is the cardinality
of the heap, which is what the bound of the code is about.

Only model-checked: the liveness properties, which need fairness and ENABLED
(`StopReturns`, `SignalEndsLoop`, `AcceptedIsServed`, `StopReleasesSenders`,
`ExecuteReturns`, `AwaitReturns`, `DeathIsAnswered`, `StopAllReturns`, `CallsReturn`,
`Delivered`). Every safety invariant, action property and refinement of a passing run
is a theorem, under the hypotheses named above (`OneStarter`, `Once`, OneForOne).

## Not modelled

- Effects of callbacks: `OnError`, watchers and `OnRestartError` are taken to
  return and not to panic. The code does not guard them.
- Provider and entity: that the provider may fail is modelled, the entity not.
- The race detector's view: the writes of `handler`, `behavior` and `actorCtx` by
  two concurrent Starts are a data race whose outcomes add nothing to the crash
  the double start leads to.
- `Ref` is a proxy without state, `NotifyShutdown` hands out a channel of the
  operating system, and what `Logging` writes changes nothing.
- Read-only queries: `Count`, `Size`, `IsEmpty`, `Letters`, `Children`, `ChildState`.
- In the supervisor: `Add` after `StartAll` and a second `StartAll` or `StopAll`. A
  second `StartAll` starts every child again and would need a second list of refs and
  monitors for each child.
- In the system: event handlers that call the system themselves (they are called
  without the lock, so they may), and the order of ActorStarted, which `Spawn` emits
  after it has registered, against the events of a shutdown: the interleaving is in
  the model, the library orders nothing.
- In the mailbox: a `Close` does not wake a consumer that waits on `Notify()`, and
  `maxSize` below 0, which the code takes for unlimited, as 0.
- In the dead letter queue: a negative capacity, with which `New` panics, and the
  content of a letter.
- What a handler given to `Become` does: handlers are told apart only by the
  middleware around them.
- Overflow of the 64-bit counters `seq`, `messageCount` and `totalDurationNs`.

## Plan

Done: `GoActor` with its contract and proofs, `GoCommand` with proofs, `Supervisor`
with proofs, and `ActorSystem` and `Delivery` with their contracts and proofs. What
would add most next:

1. A second `StartAll`, and `Add` while the supervisor runs.
2. `Ask` over `ActorContract`: the composition of a command with an actor that may
   drop it, where `ActorSystem` now has one abstract step of service.
3. Event handlers that call the system again.
