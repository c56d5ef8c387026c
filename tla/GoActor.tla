------------------------------- MODULE GoActor -------------------------------
(***************************************************************************)
(* One actor of pkg/actor (goactor.go, startnew.go): its atomic lifecycle  *)
(* state, its four channels, the goroutine that runs its message loop, and *)
(* the goroutines that call Start (as StartNew does), Receive and Stop.    *)
(*                                                                         *)
(* A process step is what one goroutine does between two accesses to what  *)
(* it shares with the others: an atomic load, store or CAS of the state, a *)
(* close, send or receive on a channel, a hook, the handler of a command.  *)
(* A select takes any ready case; a timer may fire as soon as it is set.   *)
(***************************************************************************)
EXTENDS Naturals, Sequences

CONSTANTS
  Starters,      \* goroutines that call Start, then WaitReady, as StartNew does
  Stoppers,      \* goroutines that call Stop
  Senders,       \* goroutines that call Receive once; a sender names its command
  NoMsg,         \* "no command in hand"
  BufSize,       \* WithInputBufferSize: capacity of the input channel
  PanickyHooks,  \* the hooks of this actor that may panic
  PanickyCmds    \* the commands whose handler may panic

ASSUME DistinctClients ==
  /\ Starters \cap Stoppers = {}
  /\ Starters \cap Senders = {}
  /\ Stoppers \cap Senders = {}
  /\ NoMsg \notin Senders

ASSUME BufSizeNat == BufSize \in Nat

VARIABLES
  state,     \* ga.state
  ctx,       \* the context given to Start: "live", or how it ended
  input,     \* ga.input, the channel's buffer
  ready,     \* ga.ready is closed
  stop,      \* ga.stop is closed
  done,      \* ga.done is closed
  crashed,   \* a goroutine closed a closed channel: the process is gone
  pc,        \* where each client is in the method it calls
  loop,      \* where the goroutine each starter spawned is in its body
  hand,      \* the command that goroutine has received and not started
  accepted,  \* history: commands whose Receive returned nil, in channel order
  executed   \* history: commands whose handler was entered, in order

shared  == <<state, ctx, input, ready, stop, done, crashed>>
history == <<accepted, executed>>
vars    == <<shared, pc, loop, hand, history>>

Clients == Starters \cup Stoppers \cup Senders

ActorStates == {"Initialized", "Started", "Stopping", "Done",
                "StoppedWithError", "Canceled", "Panicked"}

HookNames == {"BeforeStart", "AfterStart", "BeforeStop", "AfterStop"}

\* New: the actor with its channels made, nothing running yet.
Init ==
  /\ state = "Initialized"
  /\ ctx = "live"
  /\ input = <<>>
  /\ ready = FALSE
  /\ stop = FALSE
  /\ done = FALSE
  /\ crashed = FALSE
  /\ pc = [c \in Clients |-> "idle"]
  /\ loop = [s \in Starters |-> "off"]
  /\ hand = [s \in Starters |-> NoMsg]
  /\ accepted = <<>>
  /\ executed = <<>>

Goto(c, to) == pc' = [pc EXCEPT ![c] = to]
Step(s, to) == loop' = [loop EXCEPT ![s] = to]

\* A hook runs under catchPanic: it returns, or its panic becomes Panicked.
RunHook(h) ==
  \/ UNCHANGED state
  \/ h \in PanickyHooks /\ state' = "Panicked"

-----------------------------------------------------------------------------
(* Start, WaitReady and StartNew, in the caller's goroutine.               *)

\* CheckState(Initialized): a load, not a compare-and-swap.
CheckStart(s) ==
  /\ pc[s] = "idle"
  /\ Goto(s, IF state = "Initialized" THEN "provide" ELSE "startErr")
  /\ UNCHANGED <<shared, loop, hand, history>>

\* The provider returns a usable entity, or Start fails and may be retried.
ProvideEntity(s) ==
  /\ pc[s] = "provide"
  /\ \/ Goto(s, "beforeStart")
     \/ Goto(s, "idle")
  /\ UNCHANGED <<shared, loop, hand, history>>

BeforeStartHook(s) ==
  /\ pc[s] = "beforeStart"
  /\ RunHook("BeforeStart")
  /\ Goto(s, "go")
  /\ UNCHANGED <<ctx, input, ready, stop, done, crashed, loop, hand, history>>

GoLoop(s) ==
  /\ pc[s] = "go"
  /\ Goto(s, "startOk")
  /\ Step(s, "spawned")
  /\ UNCHANGED <<shared, hand, history>>

\* The timer, or an ended context, may beat the ready channel.
WaitReady(s) ==
  /\ pc[s] = "startOk"
  /\ \/ ready /\ Goto(s, "ready")
     \/ Goto(s, "readyErr")
  /\ UNCHANGED <<shared, loop, hand, history>>

-----------------------------------------------------------------------------
(* The actor's goroutine.                                                  *)

LoopStarted(s) ==
  /\ loop[s] = "spawned"
  /\ state' = "Started"
  /\ Step(s, "closeReady")
  /\ UNCHANGED <<ctx, input, ready, stop, done, crashed, pc, hand, history>>

\* Outside catchPanic: a second close of ready takes the process down.
LoopReady(s) ==
  /\ loop[s] = "closeReady"
  /\ crashed' = ready
  /\ ready' = TRUE
  /\ Step(s, "afterStart")
  /\ UNCHANGED <<state, ctx, input, stop, done, pc, hand, history>>

LoopAfterStart(s) ==
  /\ loop[s] = "afterStart"
  /\ RunHook("AfterStart")
  /\ Step(s, "select")
  /\ UNCHANGED <<ctx, input, ready, stop, done, crashed, pc, hand, history>>

\* Either select, the outer one or the one after a receive, sees ctx.Done().
LoopSeesCtx(s) ==
  /\ loop[s] \in {"select", "recheck"}
  /\ ctx # "live"
  /\ Step(s, "ctxErr")
  /\ UNCHANGED <<shared, pc, hand, history>>

\* Either select sees the closed stop channel.
LoopSeesStop(s) ==
  /\ loop[s] \in {"select", "recheck"}
  /\ stop
  /\ Step(s, "beforeStop")
  /\ UNCHANGED <<shared, pc, hand, history>>

LoopTake(s) ==
  /\ loop[s] = "select"
  /\ input # <<>>
  /\ hand' = [hand EXCEPT ![s] = Head(input)]
  /\ input' = Tail(input)
  /\ Step(s, "recheck")
  /\ UNCHANGED <<state, ctx, ready, stop, done, crashed, pc, history>>

\* Mutant: the handler runs only while the actor is Started.
ExecuteIfStarted(s) ==
  /\ loop[s] = "recheck"
  /\ state = "Started"
  /\ ctx = "live"
  /\ ~stop
  /\ executed' = Append(executed, hand[s])
  /\ hand' = [hand EXCEPT ![s] = NoMsg]
  /\ Step(s, "exec")
  /\ UNCHANGED <<shared, pc, accepted>>

\* The inner select's default case: neither signal is up, the handler runs.
LoopExecute(s) ==
  /\ loop[s] = "recheck"
  /\ ctx = "live"
  /\ ~stop
  /\ executed' = Append(executed, hand[s])
  /\ hand' = [hand EXCEPT ![s] = NoMsg]
  /\ Step(s, "exec")
  /\ UNCHANGED <<shared, pc, accepted>>

\* The handler of the last executed command returns or panics; catchPanic
\* stores Panicked and the loop goes on.
LoopExecuted(s) ==
  /\ loop[s] = "exec"
  /\ \/ UNCHANGED state
     \/ executed[Len(executed)] \in PanickyCmds /\ state' = "Panicked"
  /\ Step(s, "select")
  /\ UNCHANGED <<ctx, input, ready, stop, done, crashed, pc, hand, history>>

\* Mutant: the return after handleCtxErr is missing.
CtxErrLoops(s) ==
  /\ loop[s] = "ctxErr"
  /\ state' = IF ctx = "canceled" THEN "Canceled" ELSE "StoppedWithError"
  /\ Step(s, "select")
  /\ UNCHANGED <<ctx, input, ready, stop, done, crashed, pc, hand, history>>

\* handleCtxErr
LoopCtxErr(s) ==
  /\ loop[s] = "ctxErr"
  /\ state' = IF ctx = "canceled" THEN "Canceled" ELSE "StoppedWithError"
  /\ Step(s, "return")
  /\ UNCHANGED <<ctx, input, ready, stop, done, crashed, pc, hand, history>>

LoopBeforeStop(s) ==
  /\ loop[s] = "beforeStop"
  /\ RunHook("BeforeStop")
  /\ Step(s, "return")
  /\ UNCHANGED <<ctx, input, ready, stop, done, crashed, pc, hand, history>>

\* The deferred close(ga.done).
LoopReturn(s) ==
  /\ loop[s] = "return"
  /\ crashed' = done
  /\ done' = TRUE
  /\ Step(s, "exited")
  /\ UNCHANGED <<state, ctx, input, ready, stop, pc, hand, history>>

-----------------------------------------------------------------------------
(* Receive, in a sender's goroutine.                                       *)

ReceiveNil(c) ==
  /\ pc[c] = "idle"
  /\ Goto(c, "rejected")
  /\ UNCHANGED <<shared, loop, hand, history>>

\* Mutant: the switch rejects only an actor that is not started yet.
AdmitsOnceStarted(c) ==
  /\ pc[c] = "idle"
  /\ Goto(c, IF state # "Initialized" THEN "enqueue" ELSE "rejected")
  /\ UNCHANGED <<shared, loop, hand, history>>

\* The state is loaded once; what follows runs on that reading.
ReceiveCheck(c) ==
  /\ pc[c] = "idle"
  /\ Goto(c, IF state = "Started" THEN "enqueue" ELSE "rejected")
  /\ UNCHANGED <<shared, loop, hand, history>>

\* Mutant: room for one command more than the buffer has.
EnqueueBeyondBuffer(c) ==
  /\ pc[c] = "enqueue"
  /\ Len(input) <= BufSize
  /\ input' = Append(input, c)
  /\ accepted' = Append(accepted, c)
  /\ Goto(c, "accepted")
  /\ UNCHANGED <<state, ctx, ready, stop, done, crashed, loop, hand, executed>>

\* Mutant: Receive reports success when the buffer is full.
EnqueueDropping(c) ==
  /\ pc[c] = "enqueue"
  /\ input' = IF Len(input) < BufSize THEN Append(input, c) ELSE input
  /\ accepted' = Append(accepted, c)
  /\ Goto(c, "accepted")
  /\ UNCHANGED <<state, ctx, ready, stop, done, crashed, loop, hand, executed>>

ReceiveEnqueue(c) ==
  /\ pc[c] = "enqueue"
  /\ Len(input) < BufSize
  /\ input' = Append(input, c)
  /\ accepted' = Append(accepted, c)
  /\ Goto(c, "accepted")
  /\ UNCHANGED <<state, ctx, ready, stop, done, crashed, loop, hand, executed>>

\* The loop waits in its select, on an empty buffer or with none at all: the send
\* and its receive are one step.
ReceiveHandOff(c, s) ==
  /\ pc[c] = "enqueue"
  /\ input = <<>>
  /\ loop[s] = "select"
  /\ hand' = [hand EXCEPT ![s] = c]
  /\ accepted' = Append(accepted, c)
  /\ Step(s, "recheck")
  /\ Goto(c, "accepted")
  /\ UNCHANGED <<shared, executed>>

\* Mutant: a blocked sender watches done, which needs the handler to return.
SeesDoneOnly(c) ==
  /\ pc[c] = "enqueue"
  /\ done
  /\ Goto(c, "rejected")
  /\ UNCHANGED <<shared, loop, hand, history>>

ReceiveSeesStop(c) ==
  /\ pc[c] = "enqueue"
  /\ stop
  /\ Goto(c, "rejected")
  /\ UNCHANGED <<shared, loop, hand, history>>

\* The sender's own context ends, which it may do at any time; or its timer does,
\* if WithReceiveTimeout is not 0. With 0 there is none, so no fairness is assumed.
ReceiveGivesUp(c) ==
  /\ pc[c] = "enqueue"
  /\ Goto(c, "gaveUp")
  /\ UNCHANGED <<shared, loop, hand, history>>

-----------------------------------------------------------------------------
(* Stop, in a stopper's goroutine or in StartNew after a failed WaitReady. *)

CallsStop(t) ==
  \/ t \in Stoppers /\ pc[t] = "idle"
  \/ t \in Starters /\ pc[t] = "readyErr"

\* Mutant: CheckState(Started) in place of the compare-and-swap.
StopChecksState(t) ==
  /\ CallsStop(t)
  /\ Goto(t, IF state = "Started" THEN "closeStop" ELSE "stopErr")
  /\ UNCHANGED <<shared, loop, hand, history>>

\* Mutant: Stop also takes an actor that is not started yet.
StopTakesInitialized(t) ==
  /\ CallsStop(t)
  /\ \/ state \in {"Initialized", "Started"} /\ state' = "Stopping" /\ Goto(t, "closeStop")
     \/ state \notin {"Initialized", "Started"} /\ UNCHANGED state /\ Goto(t, "stopErr")
  /\ UNCHANGED <<ctx, input, ready, stop, done, crashed, loop, hand, history>>

StopCAS(t) ==
  /\ CallsStop(t)
  /\ \/ state = "Started" /\ state' = "Stopping" /\ Goto(t, "closeStop")
     \/ state # "Started" /\ UNCHANGED state /\ Goto(t, "stopErr")
  /\ UNCHANGED <<ctx, input, ready, stop, done, crashed, loop, hand, history>>

\* A second close of stop panics in the caller of Stop.
StopClose(t) ==
  /\ pc[t] = "closeStop"
  /\ crashed' = stop
  /\ stop' = TRUE
  /\ Goto(t, "awaitDone")
  /\ UNCHANGED <<state, ctx, input, ready, done, loop, hand, history>>

StopSeesDone(t) ==
  /\ pc[t] = "awaitDone"
  /\ done
  /\ state' = "Done"
  /\ Goto(t, "afterStop")
  /\ UNCHANGED <<ctx, input, ready, stop, done, crashed, loop, hand, history>>

\* Mutant: a stop that timed out is stored as Done.
TimerStoresDone(t) ==
  /\ pc[t] = "awaitDone"
  /\ state' = "Done"
  /\ Goto(t, "afterStop")
  /\ UNCHANGED <<ctx, input, ready, stop, done, crashed, loop, hand, history>>

\* Mutant: the timeout is not watched while the goroutine runs.
TimerAfterDone(t) ==
  /\ pc[t] = "awaitDone"
  /\ done
  /\ state' = "StoppedWithError"
  /\ Goto(t, "afterStop")
  /\ UNCHANGED <<ctx, input, ready, stop, done, crashed, loop, hand, history>>

StopTimer(t) ==
  /\ pc[t] = "awaitDone"
  /\ state' = "StoppedWithError"
  /\ Goto(t, "afterStop")
  /\ UNCHANGED <<ctx, input, ready, stop, done, crashed, loop, hand, history>>

AfterStopHook(t) ==
  /\ pc[t] = "afterStop"
  /\ RunHook("AfterStop")
  /\ Goto(t, "stopped")
  /\ UNCHANGED <<ctx, input, ready, stop, done, crashed, loop, hand, history>>

-----------------------------------------------------------------------------
\* The owner of the context cancels it, or its deadline passes.
EndCtx ==
  /\ ctx = "live"
  /\ ctx' \in {"canceled", "deadlineExceeded"}
  /\ UNCHANGED <<state, input, ready, stop, done, crashed,
                 pc, loop, hand, history>>

Start(s) ==
  \/ CheckStart(s) \/ ProvideEntity(s) \/ BeforeStartHook(s) \/ GoLoop(s)
  \/ WaitReady(s)

Loop(s) ==
  \/ LoopStarted(s) \/ LoopReady(s) \/ LoopAfterStart(s)
  \/ LoopSeesCtx(s) \/ LoopSeesStop(s) \/ LoopTake(s)
  \/ LoopExecute(s) \/ LoopExecuted(s)
  \/ LoopCtxErr(s) \/ LoopBeforeStop(s) \/ LoopReturn(s)

Receive(c) ==
  \/ ReceiveNil(c) \/ ReceiveCheck(c)
  \/ ReceiveEnqueue(c) \/ (\E s \in Starters : ReceiveHandOff(c, s))
  \/ ReceiveSeesStop(c) \/ ReceiveGivesUp(c)

Stop(t) ==
  \/ StopCAS(t) \/ StopClose(t) \/ StopSeesDone(t) \/ StopTimer(t)
  \/ AfterStopHook(t)

Next ==
  /\ ~crashed
  /\ \/ \E s \in Starters : Start(s) \/ Loop(s)
     \/ \E t \in Starters \cup Stoppers : Stop(t)
     \/ \E c \in Senders : Receive(c)
     \/ EndCtx

Spec == Init /\ [][Next]_vars

\* What the Go scheduler and its timers guarantee: a goroutine that can take a
\* step of the library's own code takes one, and a timer that is set fires.
\* Nothing of the kind is assumed of the hooks and the handlers, which are the
\* user's code, nor of the callers, the contexts or a sender's timer.
LibraryLoop(s) ==
  \/ LoopStarted(s) \/ LoopReady(s)
  \/ LoopSeesCtx(s) \/ LoopSeesStop(s) \/ LoopTake(s) \/ LoopExecute(s)
  \/ LoopCtxErr(s) \/ LoopReturn(s)

BlockedReceive(c) ==
  \/ ReceiveEnqueue(c) \/ (\E s \in Starters : ReceiveHandOff(c, s))
  \/ ReceiveSeesStop(c)

WinningStop(t) == StopClose(t) \/ StopSeesDone(t) \/ StopTimer(t)

SchedulerFairness ==
  /\ \A s \in Starters : WF_vars(LibraryLoop(s))
  /\ \A c \in Senders : WF_vars(BlockedReceive(c))
  /\ \A t \in Starters \cup Stoppers : WF_vars(WinningStop(t))

FairSpec == Spec /\ SchedulerFairness
=============================================================================
