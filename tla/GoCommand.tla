------------------------------ MODULE GoCommand -------------------------------
(***************************************************************************)
(* One command of pkg/command (gocommand.go): its state and error, which a *)
(* mutex guards together, its result channel of capacity one, the actors'  *)
(* goroutines that run Execute on it (one per Receive that was accepted),  *)
(* and the callers of Await (pkg/ask/ask.go).                              *)
(*                                                                         *)
(* A context may end at any time, so a select that watches one may always  *)
(* take that case; a timer may fire as soon as it is set.                  *)
(***************************************************************************)
EXTENDS Naturals, Sequences

CONSTANTS
  Executions,  \* the deliveries of the command: each runs Execute once
  Awaiters,    \* the calls of Await
  Zero         \* the zero value of R

ASSUME DistinctNames == Zero \notin Executions

VARIABLES
  state,   \* gc.state
  err,     \* gc.err
  result,  \* gc.done, the channel's buffer; a value is named by its execution
  closed,  \* gc.done is closed
  epc,     \* where each execution is in Execute
  apc,     \* where each call is in Await
  got      \* what each call of Await received, then what it returned

command == <<state, err, result, closed>>
vars    == <<command, epc, apc, got>>

CommandStates == {"Created", "Started", "Finished", "Failed", "Canceled", "Panic"}

\* New
Init ==
  /\ state = "Created"
  /\ err = "nil"
  /\ result = <<>>
  /\ closed = FALSE
  /\ epc = [x \in Executions |-> "idle"]
  /\ apc = [a \in Awaiters |-> "idle"]
  /\ got = [a \in Awaiters |-> <<Zero, "nil">>]

At(x, from, to) == epc[x] = from /\ epc' = [epc EXCEPT ![x] = to]

SyncState(s, e) == state' = s /\ err' = e

-----------------------------------------------------------------------------
(* Execute                                                                 *)

Begin(x) ==
  /\ At(x, "idle", "check")
  /\ SyncState("Started", "nil")
  /\ UNCHANGED <<result, closed, apc, got>>

\* Mutant: the return of the canceled path is missing.
CtxEndedGoesOn(x) ==
  /\ At(x, "check", "delegate")
  /\ SyncState("Canceled", "ctxErr")
  /\ closed' = TRUE
  /\ UNCHANGED <<result, apc, got>>

CtxEnded(x) ==
  /\ At(x, "check", "closeCanceled")
  /\ SyncState("Canceled", "ctxErr")
  /\ UNCHANGED <<result, closed, apc, got>>

CallDelegate(x) ==
  /\ At(x, "check", "delegate")
  /\ UNCHANGED <<command, apc, got>>

\* The delegate returns a value or an error, or panics.
DelegateReturns(x) ==
  /\ At(x, "delegate", "send") \/ At(x, "delegate", "fail")
     \/ At(x, "delegate", "recover")
  /\ UNCHANGED <<command, apc, got>>

\* Mutant: the buffer takes a second value.
SendBeyondBuffer(x) ==
  /\ \/ ~closed /\ result' = Append(result, x) /\ At(x, "send", "finish")
     \/ closed /\ UNCHANGED result /\ At(x, "send", "recover")
  /\ UNCHANGED <<state, err, closed, apc, got>>

\* Mutant: the channel has no buffer, the send waits for a receiver.
SendToReceiver(x) ==
  /\ \/ /\ ~closed /\ result = <<>> /\ \E a \in Awaiters : apc[a] = "select"
        /\ result' = <<x>> /\ At(x, "send", "finish")
     \/ closed /\ UNCHANGED result /\ At(x, "send", "recover")
  /\ UNCHANGED <<state, err, closed, apc, got>>

\* The channel has room for one value; a send on a closed channel panics.
SendResult(x) ==
  /\ \/ ~closed /\ result = <<>> /\ result' = <<x>> /\ At(x, "send", "finish")
     \/ closed /\ UNCHANGED result /\ At(x, "send", "recover")
  /\ UNCHANGED <<state, err, closed, apc, got>>

\* Mutant: the channel is closed before Finished is stored, and read meanwhile.
FinishUnsynced(x) ==
  /\ At(x, "finish", "close")
  /\ closed' = TRUE
  /\ UNCHANGED <<state, err, result, apc, got>>

Finish(x) ==
  /\ At(x, "finish", "close")
  /\ SyncState("Finished", "nil")
  /\ UNCHANGED <<result, closed, apc, got>>

\* Mutant: the delegate's error is dropped.
FailWithoutError(x) ==
  /\ At(x, "fail", "close")
  /\ SyncState("Failed", "nil")
  /\ UNCHANGED <<result, closed, apc, got>>

Fail(x) ==
  /\ At(x, "fail", "close")
  /\ SyncState("Failed", "delegateErr")
  /\ UNCHANGED <<result, closed, apc, got>>

Recover(x) ==
  /\ At(x, "recover", "closeRecovered")
  /\ SyncState("Panic", "ErrCommandPanic")
  /\ UNCHANGED <<result, closed, apc, got>>

\* Mutant: a deferred close beside the explicit one.
CloseTwice(x) ==
  /\ \/ ~closed /\ (\/ At(x, "close", "closeRecovered")
                    \/ At(x, "closeRecovered", "returned")
                    \/ At(x, "closeCanceled", "returned"))
     \/ closed /\ (\/ At(x, "close", "recover")
                   \/ At(x, "closeRecovered", "escaped")
                   \/ At(x, "closeCanceled", "escaped"))
  /\ closed' = TRUE
  /\ UNCHANGED <<state, err, result, apc, got>>

\* Closing a closed channel panics: under the recover of the inner function
\* when that has not recovered yet, else out of Execute, into the actor.
CloseDone(x) ==
  /\ \/ ~closed /\ (\/ At(x, "close", "returned")
                    \/ At(x, "closeRecovered", "returned")
                    \/ At(x, "closeCanceled", "returned"))
     \/ closed /\ (\/ At(x, "close", "recover")
                   \/ At(x, "closeRecovered", "escaped")
                   \/ At(x, "closeCanceled", "escaped"))
  /\ closed' = TRUE
  /\ UNCHANGED <<state, err, result, apc, got>>

-----------------------------------------------------------------------------
(* Await                                                                   *)

AwaitFrom(a, from, to) == apc[a] = from /\ apc' = [apc EXCEPT ![a] = to]

AwaitSelect(a) ==
  /\ AwaitFrom(a, "idle", "select")
  /\ UNCHANGED <<command, epc, got>>

AwaitValue(a) ==
  /\ result # <<>>
  /\ result' = Tail(result)
  /\ got' = [got EXCEPT ![a] = <<Head(result), "nil">>]
  /\ AwaitFrom(a, "select", "readError")
  /\ UNCHANGED <<state, err, closed, epc>>

AwaitClosed(a) ==
  /\ result = <<>> /\ closed
  /\ AwaitFrom(a, "select", "readError")
  /\ UNCHANGED <<command, epc, got>>

\* cmd.Error() is called after the receive.
AwaitError(a) ==
  /\ got' = [got EXCEPT ![a] = <<@[1], err>>]
  /\ AwaitFrom(a, "readError", "returned")
  /\ UNCHANGED <<command, epc>>

AwaitCtxDone(a) ==
  /\ got' = [got EXCEPT ![a] = <<Zero, "ctxErr">>]
  /\ AwaitFrom(a, "select", "returned")
  /\ UNCHANGED <<command, epc>>

\* Mutant: no timer is set for a command that is not executed yet.
AwaitTimerOnceStarted(a) ==
  /\ state # "Created"
  /\ got' = [got EXCEPT ![a] = <<Zero, "ErrAskTimeout">>]
  /\ AwaitFrom(a, "select", "returned")
  /\ UNCHANGED <<command, epc>>

AwaitTimer(a) ==
  /\ got' = [got EXCEPT ![a] = <<Zero, "ErrAskTimeout">>]
  /\ AwaitFrom(a, "select", "returned")
  /\ UNCHANGED <<command, epc>>

-----------------------------------------------------------------------------
Execute(x) ==
  \/ Begin(x) \/ CtxEnded(x) \/ CallDelegate(x) \/ DelegateReturns(x)
  \/ SendResult(x) \/ Finish(x) \/ Fail(x) \/ Recover(x) \/ CloseDone(x)

Await(a) ==
  \/ AwaitSelect(a) \/ AwaitValue(a) \/ AwaitClosed(a) \/ AwaitError(a)
  \/ AwaitCtxDone(a) \/ AwaitTimer(a)

Next == (\E x \in Executions : Execute(x)) \/ (\E a \in Awaiters : Await(a))

Spec == Init /\ [][Next]_vars

\* The scheduler runs the library's code once it is entered, and the timer of
\* Await fires. The delegate is the user's code, and may never return; that a
\* delivery is executed, or Await called, is nobody's promise.
LibraryExecute(x) ==
  \/ CtxEnded(x) \/ CallDelegate(x)
  \/ SendResult(x) \/ Finish(x) \/ Fail(x) \/ Recover(x) \/ CloseDone(x)

LibraryAwait(a) == AwaitValue(a) \/ AwaitClosed(a) \/ AwaitError(a) \/ AwaitTimer(a)

FairSpec ==
  /\ Spec
  /\ \A x \in Executions : WF_vars(LibraryExecute(x))
  /\ \A a \in Awaiters : WF_vars(LibraryAwait(a))

-----------------------------------------------------------------------------
(* Properties                                                              *)

ErrorValues == {"nil", "ctxErr", "delegateErr", "ErrCommandPanic", "ErrAskTimeout"}

TypeOK ==
  /\ state \in CommandStates
  /\ err \in ErrorValues
  /\ result \in Seq(Executions) /\ Len(result) <= 1
  /\ closed \in BOOLEAN
  /\ epc \in [Executions -> {"idle", "check", "delegate", "send", "finish",
                             "fail", "recover", "close", "closeCanceled",
                             "closeRecovered", "returned", "escaped"}]
  /\ apc \in [Awaiters -> {"idle", "select", "readError", "returned"}]
  /\ got \in [Awaiters -> (Executions \cup {Zero}) \X ErrorValues]

\* The command has been executed once so far, as when Ask makes it, sends it to
\* one actor and keeps it to itself.
Once == \A x, y \in Executions : epc[x] # "idle" /\ epc[y] # "idle" => x = y

\* Of a command executed once no panic leaves Execute, where it would make the
\* actor Panicked: the channel is closed on one path only.
NoEscape == Once => \A x \in Executions : epc[x] # "escaped"

\* No execution waits for a reader that has given up: of a command executed once
\* the buffer is free, and open, when the result is sent.
ResultFits ==
  Once => \A x \in Executions : epc[x] = "send" => result = <<>> /\ ~closed

\* Await returns no zero value for a success and no value with an error: what it
\* read from the channel and what it read from the command a moment later are of
\* the same outcome. (Of several calls of Await only one gets the value.)
OutcomeIsWhole ==
  Once => \A a \in Awaiters : apc[a] = "returned" =>
    \/ got[a][1] # Zero /\ got[a][2] = "nil"
    \/ got[a][1] = Zero /\ got[a][2] # "nil"
    \/ \E b \in Awaiters \ {a} : got[b][1] # Zero

\* The closed channel announces the final state: nobody who has seen it close
\* reads Started from State(), or a nil Error() of a command that failed.
ClosedIsFinal ==
  Once /\ closed =>
    /\ state \notin {"Created", "Started"}
    /\ err = "nil" <=> state = "Finished"

Rank(s) == CASE s = "Created" -> 0 [] s = "Started" -> 1 [] OTHER -> 2

\* The state of a command executed once takes the steps Created, Started, and
\* one final state.
StateAdvances == [][Once' => Rank(state) < Rank(state')]_state

DelegateEnds == \A x \in Executions : WF_vars(DelegateReturns(x))

\* When the delegate returns, so does Execute, with the channel closed, though no
\* one waits for the result and though the command is executed twice: the actor
\* that runs it is not held up.
ExecuteReturns ==
  DelegateEnds =>
    \A x \in Executions :
      epc[x] = "check" ~> closed /\ epc[x] \in {"returned", "escaped"}

\* Await returns, though the command is never executed or its delegate never
\* returns.
AwaitReturns == \A a \in Awaiters : apc[a] = "select" ~> apc[a] = "returned"
=============================================================================
