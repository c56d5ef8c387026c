--------------------------- MODULE GoCommandProofs ----------------------------
(***************************************************************************)
(* The safety properties of GoCommand.tla, for any number of executions    *)
(* and of callers of Await. All but the types are about a command executed *)
(* once; the invariant that carries them says, for each step of that one   *)
(* execution, what the channel, the state and the awaiters hold.           *)
(***************************************************************************)
EXTENDS GoCommand, SequenceTheorems, TLAPS

\* An awaiter has received the value.
Taken == \E a \in Awaiters : got[a][1] # Zero

\* The value is in the channel, or was.
Delivered == result # <<>> \/ Taken

\* The command is in state s with error e and no value was ever sent.
Without(s, e) == state = s /\ err = e /\ result = <<>> /\ ~Taken

Succeeded == state = "Finished" /\ err = "nil" /\ Delivered

Settled ==
  \/ Succeeded
  \/ Without("Failed", "delegateErr")
  \/ Without("Canceled", "ctxErr")
  \/ Without("Panic", "ErrCommandPanic")

Running == {"check", "delegate", "send", "fail", "recover"}

ExecInv ==
  /\ (\A x \in Executions : epc[x] = "idle") => Without("Created", "nil") /\ ~closed
  /\ \A x \in Executions :
       /\ epc[x] \in Running => Without("Started", "nil") /\ ~closed
       /\ epc[x] = "finish" => state = "Started" /\ err = "nil" /\ Delivered /\ ~closed
       /\ epc[x] = "close" =>
            (Succeeded \/ Without("Failed", "delegateErr")) /\ ~closed
       /\ epc[x] = "closeCanceled" => Without("Canceled", "ctxErr") /\ ~closed
       /\ epc[x] = "closeRecovered" => Without("Panic", "ErrCommandPanic") /\ ~closed
       /\ epc[x] = "returned" => Settled /\ closed
       /\ epc[x] # "escaped"

AwaitInv ==
  \A a \in Awaiters :
    /\ apc[a] \in {"idle", "select"} => got[a] = <<Zero, "nil">>
    /\ apc[a] = "readError" /\ got[a][1] = Zero => closed /\ result = <<>>
    /\ apc[a] = "returned" =>
         \/ got[a][1] # Zero /\ got[a][2] = "nil"
         \/ got[a][1] = Zero /\ got[a][2] # "nil"
         \/ \E b \in Awaiters \ {a} : got[b][1] # Zero

IInv == TypeOK /\ (Once => ExecInv /\ AwaitInv)
-----------------------------------------------------------------------------
LEMMA TypeInit == Init => TypeOK
<1> SUFFICES ASSUME Init PROVE TypeOK
  OBVIOUS
<1>1. result \in Seq(Executions) /\ Len(result) <= 1
  BY EmptySeq DEF Init
<1>2. got \in [Awaiters -> (Executions \cup {Zero}) \X ErrorValues]
  BY DEF Init, ErrorValues
<1> QED
  BY <1>1, <1>2 DEF Init, TypeOK, CommandStates, ErrorValues

LEMMA ShortSeq ==
  ASSUME NEW S, NEW q \in Seq(S), q # <<>>, Len(q) <= 1
  PROVE  Head(q) \in S /\ Tail(q) = <<>>
<1>1. Len(q) = 1
  <2>1. \A n \in Nat \ {0} : n <= 1 => n = 1
    OBVIOUS
  <2>2. Len(q) \in Nat \ {0}
    BY EmptySeq
  <2> QED
    BY <2>1, <2>2, Zenon
<1>2. /\ Head(q) \in S
      /\ Tail(q) \in Seq(S) /\ Len(Tail(q)) = 0
  BY <1>1, HeadTailProperties
<1> QED
  BY <1>2, EmptySeq

\* The channel, when it is not empty, holds one value, and then none.
LEMMA OneResult ==
  ASSUME TypeOK, result # <<>>
  PROVE  Head(result) \in Executions /\ Tail(result) = <<>>
<1>1. result \in Seq(Executions) /\ Len(result) <= 1
  BY DEF TypeOK
<1> QED
  BY <1>1, ShortSeq

LEMMA Singleton ==
  ASSUME NEW S, NEW e \in S
  PROVE  <<e>> \in Seq(S) /\ Len(<<e>>) = 1
OBVIOUS

LEMMA TypeStep == TypeOK /\ [Next]_vars => TypeOK'
<1> USE DEF TypeOK, At, AwaitFrom, SyncState, CommandStates, ErrorValues, command
<1> SUFFICES ASSUME TypeOK, [Next]_vars PROVE TypeOK'
  OBVIOUS
<1>1. CASE UNCHANGED vars
  BY <1>1 DEF vars
<1>2. ASSUME NEW x \in Executions, Execute(x) PROVE TypeOK'
  <2>1. CASE Begin(x)
    BY <2>1 DEF Begin
  <2>2. CASE CtxEnded(x)
    BY <2>2 DEF CtxEnded
  <2>3. CASE CallDelegate(x)
    BY <2>3 DEF CallDelegate
  <2>4. CASE DelegateReturns(x)
    BY <2>4 DEF DelegateReturns
  <2>5. CASE SendResult(x)
    <3>1. <<x>> \in Seq(Executions) /\ Len(<<x>>) <= 1
      BY Singleton
    <3>2. result' = <<x>> \/ UNCHANGED result
      BY <2>5 DEF SendResult
    <3>3. result' \in Seq(Executions) /\ Len(result') <= 1
      BY <3>1, <3>2
    <3> QED
      BY <2>5, <3>3 DEF SendResult
  <2>6. CASE Finish(x)
    BY <2>6 DEF Finish
  <2>7. CASE Fail(x)
    BY <2>7 DEF Fail
  <2>8. CASE Recover(x)
    BY <2>8 DEF Recover
  <2>9. CASE CloseDone(x)
    BY <2>9 DEF CloseDone
  <2> QED
    BY <1>2, <2>1, <2>2, <2>3, <2>4, <2>5, <2>6, <2>7, <2>8, <2>9 DEF Execute
<1>3. ASSUME NEW a \in Awaiters, Await(a) PROVE TypeOK'
  <2>1. CASE AwaitSelect(a)
    BY <2>1 DEF AwaitSelect
  <2>2. CASE AwaitValue(a)
    BY <2>2 DEF AwaitValue
  <2>3. CASE AwaitClosed(a)
    BY <2>3 DEF AwaitClosed
  <2>4. CASE AwaitError(a)
    BY <2>4 DEF AwaitError
  <2>5. CASE AwaitCtxDone(a)
    BY <2>5 DEF AwaitCtxDone
  <2>6. CASE AwaitTimer(a)
    BY <2>6 DEF AwaitTimer
  <2> QED
    BY <1>3, <2>1, <2>2, <2>3, <2>4, <2>5, <2>6 DEF Await
<1> QED
  BY <1>1, <1>2, <1>3 DEF Next

\* A command keeps its state, its error, its result and its callers well typed,
\* whatever runs it and waits for it: at most one value is in the channel.
THEOREM CommandTypes == Spec => []TypeOK
<1>1. Init => TypeOK
  BY TypeInit
<1>2. TypeOK /\ [Next]_vars => TypeOK'
  BY TypeStep
<1> QED
  BY <1>1, <1>2, PTL DEF Spec

-----------------------------------------------------------------------------
\* An execution, once begun, never counts as not begun again.
LEMMA OnceBefore == TypeOK /\ [Next]_vars /\ Once' => Once
<1> SUFFICES ASSUME TypeOK, [Next]_vars, Once',
                    NEW x \in Executions, NEW y \in Executions,
                    epc[x] # "idle", epc[y] # "idle"
             PROVE  x = y
  BY DEF Once
<1>1. epc'[x] # "idle" /\ epc'[y] # "idle"
  <2>1. CASE UNCHANGED epc
    BY <2>1
  <2>2. CASE \E z \in Executions : Execute(z)
    BY <2>2 DEF TypeOK, Execute, At, Begin, CtxEnded, CallDelegate, DelegateReturns,
                SendResult, Finish, Fail, Recover, CloseDone
  <2>3. CASE \E a \in Awaiters : Await(a)
    BY <2>3 DEF Await, AwaitSelect, AwaitValue, AwaitClosed, AwaitError,
                AwaitCtxDone, AwaitTimer, command
  <2> QED
    BY <2>1, <2>2, <2>3 DEF Next, vars
<1> QED
  BY <1>1 DEF Once

LEMMA IInvInit == Init => IInv
<1> SUFFICES ASSUME Init PROVE IInv
  OBVIOUS
<1>1. ~Taken
  BY DEF Init, Taken
<1> QED
  BY <1>1, TypeInit DEF Init, IInv, ExecInv, AwaitInv, Without, Running

\* A step of the one execution.
LEMMA ExecuteStep ==
  ASSUME TypeOK, Once, Once', ExecInv, AwaitInv, NEW x \in Executions, Execute(x)
  PROVE  ExecInv' /\ AwaitInv'
<1>1. UNCHANGED <<apc, got>>
  BY DEF Execute, Begin, CtxEnded, CallDelegate, DelegateReturns,
         SendResult, Finish, Fail, Recover, CloseDone
<1>2. Taken' <=> Taken
  BY <1>1 DEF Taken
<1>3. /\ epc' = [epc EXCEPT ![x] = epc'[x]] /\ epc'[x] # "idle"
      /\ \A y \in Executions : y # x => epc[y] = "idle" /\ epc'[y] = "idle"
      /\ x \in DOMAIN epc
  <2>1. epc' = [epc EXCEPT ![x] = epc'[x]] /\ epc'[x] # "idle"
    BY DEF TypeOK, Execute, At, Begin, CtxEnded, CallDelegate, DelegateReturns,
           SendResult, Finish, Fail, Recover, CloseDone
  <2>2. \A y \in Executions : y # x => epc'[y] = "idle"
    BY <2>1 DEF Once
  <2> QED
    BY <2>1, <2>2 DEF TypeOK
<1>4. epc[x] = "idle" => Without("Created", "nil") /\ ~closed
  BY <1>3 DEF ExecInv
<1>5. ExecInv'
  <2> USE <1>2, <1>3, <1>4
      DEF ExecInv, At, SyncState, Running, Without, Settled, Succeeded, Delivered
  <2>1. CASE Begin(x)
    BY <2>1 DEF Begin
  <2>2. CASE CtxEnded(x)
    BY <2>2 DEF CtxEnded
  <2>3. CASE CallDelegate(x)
    BY <2>3 DEF CallDelegate, command
  <2>4. CASE DelegateReturns(x)
    BY <2>4 DEF DelegateReturns, command
  <2>5. CASE SendResult(x)
    BY <2>5 DEF SendResult
  <2>6. CASE Finish(x)
    BY <2>6 DEF Finish
  <2>7. CASE Fail(x)
    BY <2>7 DEF Fail
  <2>8. CASE Recover(x)
    BY <2>8 DEF Recover
  <2>9. CASE CloseDone(x)
    BY <2>9 DEF CloseDone
  <2> QED
    BY <2>1, <2>2, <2>3, <2>4, <2>5, <2>6, <2>7, <2>8, <2>9 DEF Execute
<1>6. closed /\ result = <<>> => closed' /\ result' = <<>>
  BY <1>3 DEF Execute, ExecInv, At, Begin, CtxEnded, CallDelegate, DelegateReturns,
         SendResult, Finish, Fail, Recover, CloseDone, command, Running
<1>7. AwaitInv'
  BY <1>1, <1>6 DEF AwaitInv
<1> QED
  BY <1>5, <1>7

\* A step of an awaiter: the value moves from the channel to it, or nothing does.
LEMMA AwaitStep ==
  ASSUME TypeOK, Once, ExecInv, AwaitInv, NEW a \in Awaiters, Await(a)
  PROVE  ExecInv' /\ AwaitInv'
<1> USE DEF AwaitFrom, command
<1>1. UNCHANGED <<epc, state, err, closed>>
  BY DEF Await, AwaitSelect, AwaitValue, AwaitClosed, AwaitError, AwaitCtxDone, AwaitTimer
<1>2. Taken => Taken'
  <2> SUFFICES ASSUME NEW b \in Awaiters, got[b][1] # Zero PROVE got'[b][1] # Zero
    BY DEF Taken
  <2>1. b = a => apc[a] = "readError" \/ apc[a] = "returned"
    BY DEF AwaitInv, TypeOK
  <2> QED
    BY <2>1 DEF TypeOK, Await, AwaitSelect, AwaitValue, AwaitClosed, AwaitError,
                AwaitCtxDone, AwaitTimer
<1>3. ASSUME UNCHANGED result, \A b \in Awaiters : got'[b][1] = got[b][1] PROVE ExecInv'
  <2>1. Taken' <=> Taken
    BY <1>3 DEF Taken
  <2> QED
    BY <1>1, <1>3, <2>1 DEF ExecInv, Without, Settled, Succeeded, Delivered
<1>4. got[a][1] # Zero => err = "nil"
  <2> SUFFICES ASSUME Taken PROVE err = "nil"
    BY DEF Taken
  <2>1. PICK x \in Executions : epc[x] # "idle"
    BY DEF ExecInv, Without
  <2> QED
    BY <2>1 DEF ExecInv, TypeOK, Running, Without, Settled, Succeeded
<1>5. got[a][1] = Zero /\ err = "nil" /\ closed /\ result = <<>> =>
        \E b \in Awaiters \ {a} : got[b][1] # Zero
  <2> SUFFICES ASSUME got[a][1] = Zero, err = "nil", closed, result = <<>>
               PROVE  \E b \in Awaiters \ {a} : got[b][1] # Zero
    OBVIOUS
  <2>1. PICK x \in Executions : epc[x] # "idle"
    BY DEF ExecInv
  <2>2. epc[x] = "returned" /\ Settled
    BY <2>1 DEF ExecInv, TypeOK, Running
  <2>3. Delivered
    BY <2>2 DEF Settled, Without, Succeeded
  <2> QED
    BY <2>3 DEF Delivered, Taken
<1>6. CASE AwaitSelect(a)
  BY <1>1, <1>3, <1>6 DEF AwaitSelect, AwaitInv, TypeOK
<1>7. CASE AwaitValue(a)
  <2>1. result # <<>> /\ Head(result) \in Executions /\ result' = <<>>
    BY <1>7, OneResult DEF AwaitValue
  <2>2. got'[a] = <<Head(result), "nil">> /\ Head(result) # Zero
    BY <1>7, <2>1, DistinctNames DEF AwaitValue, TypeOK
  <2>3. Taken'
    BY <2>2 DEF Taken
  <2>4. ExecInv'
    BY <1>1, <2>1, <2>3 DEF ExecInv, Without, Settled, Succeeded, Delivered, Running
  <2>5. \A b \in Awaiters \ {a} : apc'[b] = apc[b] /\ got'[b] = got[b]
    BY <1>7 DEF AwaitValue, TypeOK
  <2>6. AwaitInv'
    BY <1>1, <1>7, <2>1, <2>2, <2>5 DEF AwaitValue, AwaitInv, TypeOK
  <2> QED
    BY <2>4, <2>6
<1>8. CASE AwaitClosed(a)
  BY <1>1, <1>3, <1>8 DEF AwaitClosed, AwaitInv, TypeOK
<1>9. CASE AwaitError(a)
  <2>1. got' = [got EXCEPT ![a] = <<got[a][1], err>>] /\ UNCHANGED result
    BY <1>9 DEF AwaitError
  <2>2. \A b \in Awaiters : got'[b][1] = got[b][1]
    BY <2>1 DEF TypeOK
  <2>3. ExecInv'
    BY <1>3, <2>1, <2>2
  <2>4. AwaitInv'
    BY <1>1, <1>4, <1>5, <1>9, <2>1, <2>2 DEF AwaitError, AwaitInv, TypeOK
  <2> QED
    BY <2>3, <2>4
<1>10. ASSUME AwaitCtxDone(a) \/ AwaitTimer(a) PROVE ExecInv' /\ AwaitInv'
  <2>1. /\ got[a] = <<Zero, "nil">> /\ UNCHANGED result
        /\ got'[a][1] = Zero /\ got'[a][2] # "nil"
        /\ \A b \in Awaiters \ {a} : got'[b] = got[b] /\ apc'[b] = apc[b]
    BY <1>10 DEF AwaitCtxDone, AwaitTimer, AwaitInv, TypeOK
  <2>2. \A b \in Awaiters : got'[b][1] = got[b][1]
    BY <2>1
  <2>3. ExecInv'
    BY <1>3, <2>1, <2>2
  <2>4. AwaitInv'
    BY <1>1, <1>10, <2>1 DEF AwaitCtxDone, AwaitTimer, AwaitInv, TypeOK
  <2> QED
    BY <2>3, <2>4
<1> QED
  BY <1>6, <1>7, <1>8, <1>9, <1>10 DEF Await

LEMMA IInvStep == IInv /\ [Next]_vars => IInv'
<1> SUFFICES ASSUME IInv, [Next]_vars, Once' PROVE ExecInv' /\ AwaitInv'
  BY TypeStep DEF IInv
<1>1. TypeOK /\ Once /\ ExecInv /\ AwaitInv
  BY OnceBefore DEF IInv
<1>2. CASE UNCHANGED vars
  BY <1>1, <1>2 DEF vars, command, ExecInv, AwaitInv, Without, Settled, Succeeded,
                    Delivered, Taken
<1>3. CASE \E x \in Executions : Execute(x)
  BY <1>1, <1>3, ExecuteStep
<1>4. CASE \E a \in Awaiters : Await(a)
  BY <1>1, <1>4, AwaitStep
<1> QED
  BY <1>2, <1>3, <1>4 DEF Next

LEMMA Invariant == Spec => []IInv
<1>1. Init => IInv
  BY IInvInit
<1>2. IInv /\ [Next]_vars => IInv'
  BY IInvStep
<1> QED
  BY <1>1, <1>2, PTL DEF Spec

-----------------------------------------------------------------------------
\* However many goroutines may execute and await it, no panic leaves Execute of a
\* command that is executed once.
THEOREM NothingEscapes == Spec => []NoEscape
<1>1. IInv => NoEscape
  BY DEF IInv, NoEscape, ExecInv
<1> QED
  BY <1>1, Invariant, PTL

\* Sending the result of a command that is executed once never blocks.
THEOREM SendNeverBlocks == Spec => []ResultFits
<1>1. IInv => ResultFits
  BY DEF IInv, ResultFits, ExecInv, Running, Without
<1> QED
  BY <1>1, Invariant, PTL

\* Every caller of Await gets a value without an error, an error without a value,
\* or nothing because another caller has taken the value.
THEOREM AnswersAreWhole == Spec => []OutcomeIsWhole
<1>1. IInv => OutcomeIsWhole
  BY DEF IInv, OutcomeIsWhole, AwaitInv
<1> QED
  BY <1>1, Invariant, PTL

\* Whoever has seen the channel close reads the final state and its error.
THEOREM ClosedAfterState == Spec => []ClosedIsFinal
<1>1. IInv => ClosedIsFinal
  <2> SUFFICES ASSUME TypeOK, ExecInv, closed
               PROVE  /\ state \notin {"Created", "Started"}
                      /\ err = "nil" <=> state = "Finished"
    BY DEF IInv, ClosedIsFinal
  <2>1. PICK x \in Executions : epc[x] # "idle"
    BY DEF ExecInv
  <2>2. Settled
    BY <2>1 DEF ExecInv, TypeOK, Running
  <2> QED
    BY <2>2 DEF Settled, Succeeded, Without
<1> QED
  BY <1>1, Invariant, PTL

\* The state of a command that is executed once only advances.
THEOREM StateOnlyAdvances == Spec => StateAdvances
<1>1. IInv /\ [Next]_vars => [Once' => Rank(state) < Rank(state')]_state
  <2> SUFFICES ASSUME IInv, [Next]_vars, Once', state' # state
               PROVE  Rank(state) < Rank(state')
    OBVIOUS
  <2>1. TypeOK /\ Once /\ ExecInv
    BY OnceBefore DEF IInv
  <2>2. PICK x \in Executions : Execute(x)
    BY DEF Next, vars, command, Await, AwaitSelect, AwaitValue, AwaitClosed,
           AwaitError, AwaitCtxDone, AwaitTimer
  <2>3. CASE Begin(x)
    <3>1. \A y \in Executions : epc[y] = "idle"
      <4>1. epc[x] = "idle" /\ epc'[x] = "check"
        BY <2>1, <2>3 DEF Begin, At, TypeOK
      <4>2. \A y \in Executions : y # x => epc'[y] = epc[y]
        BY <2>1, <2>3 DEF Begin, At, TypeOK
      <4> QED
        BY <4>1, <4>2 DEF Once
    <3> QED
      BY <2>1, <2>3, <3>1 DEF Begin, SyncState, ExecInv, Without, Rank
  <2>4. CASE CtxEnded(x) \/ Finish(x) \/ Fail(x) \/ Recover(x)
    <3>1. state = "Started"
      BY <2>1, <2>4 DEF ExecInv, Running, Without, At, CtxEnded, Finish, Fail, Recover
    <3>2. state' \in {"Canceled", "Finished", "Failed", "Panic"}
      BY <2>4 DEF SyncState, CtxEnded, Finish, Fail, Recover
    <3> QED
      BY <3>1, <3>2 DEF Rank
  <2> QED
    BY <2>2, <2>3, <2>4 DEF Execute, CallDelegate, DelegateReturns, SendResult,
                            CloseDone, command
<1> QED
  BY <1>1, Invariant, PTL DEF Spec, StateAdvances
=============================================================================
