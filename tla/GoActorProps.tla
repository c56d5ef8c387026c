---------------------------- MODULE GoActorProps -----------------------------
(***************************************************************************)
(* What is to hold of the actor of GoActor.tla: its type invariant, safety *)
(* invariants, action properties, the contract it implements, and its      *)
(* liveness under the fairness of the Go scheduler.                        *)
(***************************************************************************)
EXTENDS GoActor, FiniteSets

LoopSteps == {"off", "spawned", "closeReady", "afterStart", "select",
              "recheck", "exec", "ctxErr", "beforeStop", "return", "exited"}

\* A client that has won the CAS in Stop.
StopSteps == {"closeStop", "awaitDone", "afterStop", "stopped"}

ClientSteps ==
  StopSteps \cup
  {"idle", "provide", "beforeStart", "go", "startOk", "startErr",
   "ready", "readyErr", "stopErr", "enqueue", "accepted", "rejected", "gaveUp"}

\* Every variable has its type, the buffer within its capacity.
TypeOK ==
  /\ state \in ActorStates
  /\ ctx \in {"live", "canceled", "deadlineExceeded"}
  /\ input \in Seq(Senders)
  /\ Len(input) <= BufSize
  /\ ready \in BOOLEAN /\ stop \in BOOLEAN /\ done \in BOOLEAN /\ crashed \in BOOLEAN
  /\ pc \in [Clients -> ClientSteps]
  /\ loop \in [Starters -> LoopSteps]
  /\ hand \in [Starters -> Senders \cup {NoMsg}]
  /\ accepted \in Seq(Senders)
  /\ executed \in Seq(Senders)

-----------------------------------------------------------------------------
\* The commands received from the channel and not started: one at most.
InHand ==
  IF \E s \in Starters : hand[s] # NoMsg
  THEN <<hand[CHOOSE s \in Starters : hand[s] # NoMsg]>>
  ELSE <<>>

\* Commands run in the order Receive accepted them, each at most once, and one
\* that is accepted is either run, in the loop's hand or in the buffer: none is
\* lost on the way, also when the inner select drops the one in hand.
Conservation == accepted = executed \o InHand \o input

\* The state Done is reported only by an actor whose goroutine has exited: no
\* handler runs, so the caller of Stop may touch the entity again.
DoneIsQuiescent ==
  state = "Done" => done /\ \A s \in Starters : loop[s] \in {"off", "exited"}

\* Whatever the number of concurrent Stop calls, one wins the CAS, so that the
\* stop channel is closed once; no channel is closed twice.
OneStopper ==
  /\ \A t, u \in Starters \cup Stoppers :
       pc[t] \in StopSteps /\ pc[u] \in StopSteps => t = u
  /\ ~crashed

\* After a Stop that returned nil the actor stays stopped: its goroutine never
\* again makes the state Started, so a later Receive is rejected.
StopIsFinal ==
  (\E t \in Starters \cup Stoppers : pc[t] = "stopped") =>
    /\ stop
    /\ state \in {"Done", "StoppedWithError", "Canceled", "Panicked"}

-----------------------------------------------------------------------------
\* The goroutine has stored Started: commands are accepted from then on.
Opened == \E s \in Starters : loop[s] \notin {"off", "spawned"}

\* Whatever its goroutine, its channels and its callers do, an actor behaves as
\* the bounded server of ActorContract: it opens once; once it has left Started
\* it admits no caller again, so that after Done() only those whose Receive had
\* passed its check before may still get a command in; it serves in order and one
\* at a time, takes up nothing once it is closing, and is closed (Done()) only
\* when it serves nothing more. The command in hand still counts as queued, for
\* the inner select may drop it.
Contract == INSTANCE ActorContract WITH
  Commands <- Senders,
  Capacity <- BufSize + 1,
  opened   <- Opened,
  refusing <- Opened /\ state # "Started",
  closing  <- stop \/ ctx # "live",
  closed   <- done,
  admitted <- {c \in Senders : pc[c] = "enqueue"},
  queue    <- InHand \o input,
  served   <- executed,
  busy     <- \E s \in Starters : loop[s] = "exec"

ImplementsContract == Contract!Spec

-----------------------------------------------------------------------------
\* The user's part: hooks and handlers return (or panic) sooner or later.
UserCode(s) ==
  LoopAfterStart(s) \/ LoopExecuted(s) \/ LoopBeforeStop(s)
UserCodeReturns == \A s \in Starters : WF_vars(UserCode(s))

\* Stop comes to its end, Done or StoppedWithError, even when a handler or a
\* hook never returns: the timer ends the wait.
StopReturns ==
  \A t \in Starters \cup Stoppers :
    pc[t] = "closeStop" ~> pc[t] \in {"afterStop", "stopped"}

\* When handlers and hooks return, a started goroutine exits, and closes done,
\* once it is told to stop or its context ends, whatever the senders do.
SignalEndsLoop ==
  UserCodeReturns =>
    \A s \in Starters :
      (loop[s] # "off" /\ (stop \/ ctx # "live")) ~> done

\* When handlers and hooks return, a command that Receive accepted is run,
\* unless the actor is told to stop or its context ends: a panic, of this or of
\* another command, costs no command its turn.
AcceptedIsServed ==
  UserCodeReturns =>
    \A c \in Senders :
      pc[c] = "accepted" ~>
        \/ \E i \in 1..Len(executed) : executed[i] = c
        \/ stop
        \/ ctx # "live"

\* A sender blocked on a full channel is let go when the actor is told to stop,
\* though it set no timeout and the running handler never returns.
StopReleasesSenders ==
  \A c \in Senders : (pc[c] = "enqueue" /\ stop) ~> pc[c] # "enqueue"

\* What the documentation says of Done, StoppedWithError, Canceled and Panicked:
\* they are terminal, the lifecycle ends in whichever is reported first.
Terminal == state \in {"Done", "StoppedWithError", "Canceled", "Panicked"}
TerminalIsFinal == [][Terminal => state' = state]_state

\* What the documentation says of Stop: the actor stops accepting messages, so
\* that no Receive returns nil once Stop has stored Done.
StoppedAcceptsNothing == [][state = "Done" => accepted' = accepted]_accepted

\* What the documentation says of Start: its CheckState guard lets one goroutine
\* be started.
StartedOnce ==
  \A s, u \in Starters : loop[s] # "off" /\ loop[u] # "off" => s = u
=============================================================================
