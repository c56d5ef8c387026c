-------------------------- MODULE GoActorRefinement ---------------------------
(***************************************************************************)
(* An actor started once implements the bounded server of ActorContract,   *)
(* under the refinement mapping of GoActorProps.                           *)
(***************************************************************************)
EXTENDS GoActorProofs

\* The loop leaves its select only on a signal, and the state it leaves behind
\* lets no caller in.
SignalInv ==
  /\ \A s \in Starters :
       loop[s] \in {"ctxErr", "beforeStop", "return"} => stop \/ ctx # "live"
  /\ \A s \in Starters :
       loop[s] \in {"beforeStop", "return", "exited"} => state # "Started"

RefInv == TypeInv /\ IInv /\ ConsInv /\ SignalInv

LEMMA SignalInit == Init => SignalInv
  BY DEF Init, SignalInv

\* An actor that has been told to stop has left Started.
LEMMA ToldIsNotStarted ==
  ASSUME IInv, stop
  PROVE  state # "Started"
  BY DEF IInv, ChannelInv, StateInv, StopSteps, Callers

LEMMA SignalStep ==
  ASSUME OneStarter
  PROVE  TypeInv /\ IInv /\ SignalInv /\ [Next]_vars => SignalInv'
<1> SUFFICES ASSUME TypeInv, IInv, SignalInv, [Next]_vars PROVE SignalInv'
  OBVIOUS
<1> USE DistinctClients
    DEF OneStarter, SignalInv, TypeInv, TypeOK, Clients, Goto, Step, RunHook,
        shared, history
<1>1. CASE UNCHANGED vars
  BY <1>1 DEF vars
<1>2. ASSUME NEW s \in Starters, Start(s) PROVE SignalInv'
  BY <1>2
  DEF Start, CheckStart, ProvideEntity, BeforeStartHook, GoLoop, WaitReady,
      IInv, SpawnedInv
<1>3. ASSUME NEW s \in Starters, Loop(s) PROVE SignalInv'
  <2>1. CASE LoopStarted(s) \/ LoopReady(s) \/ LoopAfterStart(s) \/ LoopTake(s)
    BY <2>1 DEF LoopStarted, LoopReady, LoopAfterStart, LoopTake
  <2>2. CASE LoopSeesCtx(s) \/ LoopSeesStop(s)
    BY <2>2, ToldIsNotStarted DEF LoopSeesCtx, LoopSeesStop
  <2>3. CASE LoopExecute(s) \/ LoopExecuted(s)
    BY <2>3 DEF LoopExecute, LoopExecuted
  <2>4. CASE LoopCtxErr(s) \/ LoopBeforeStop(s) \/ LoopReturn(s)
    BY <2>4 DEF LoopCtxErr, LoopBeforeStop, LoopReturn
  <2> QED
    BY <1>3, <2>1, <2>2, <2>3, <2>4 DEF Loop
<1>4. ASSUME NEW t \in Starters \cup Stoppers, Stop(t) PROVE SignalInv'
  BY <1>4
  DEF Stop, StopCAS, CallsStop, StopClose, StopSeesDone, StopTimer, AfterStopHook
<1>5. ASSUME NEW c \in Senders, Receive(c) PROVE SignalInv'
  <2>1. ASSUME NEW s \in Starters, ReceiveHandOff(c, s) PROVE SignalInv'
    BY <2>1 DEF ReceiveHandOff
  <2>2. CASE \/ ReceiveNil(c) \/ ReceiveCheck(c) \/ ReceiveEnqueue(c)
             \/ ReceiveSeesStop(c) \/ ReceiveGivesUp(c)
    BY <2>2
    DEF ReceiveNil, ReceiveCheck, ReceiveEnqueue, ReceiveSeesStop, ReceiveGivesUp
  <2> QED
    BY <1>5, <2>1, <2>2 DEF Receive
<1>6. CASE EndCtx
  BY <1>6 DEF EndCtx
<1> QED
  BY <1>1, <1>2, <1>3, <1>4, <1>5, <1>6 DEF Next

LEMMA RefInvHolds ==
  ASSUME OneStarter
  PROVE  Spec => []RefInv
<1>1. TypeInv /\ IInv /\ ConsInv /\ [Next]_vars => ConsInv'
  BY ConsStep
<1>2. TypeInv /\ IInv /\ SignalInv /\ [Next]_vars => SignalInv'
  BY SignalStep
<1>3. TypeInv /\ IInv /\ ConsInv /\ SignalInv => RefInv
  BY DEF RefInv
<1> QED
  BY InvHolds, ConsInit, SignalInit, <1>1, <1>2, <1>3, PTL DEF Spec

-----------------------------------------------------------------------------
(* Every step of the actor is a step of the contract, or a stutter.        *)

Refusing == Opened /\ state # "Started"
Closing  == stop \/ ctx # "live"
Admitted == {c \in Senders : pc[c] = "enqueue"}
Queue    == InHand \o input
Busy     == \E s \in Starters : loop[s] = "exec"

\* A step that changes nothing the contract sees is a stutter of the contract.
LEMMA StutterMaps ==
  ASSUME UNCHANGED <<Opened, Refusing, Closing, done, Admitted, Queue, executed, Busy>>
  PROVE  UNCHANGED Contract!vars
  BY DEF Refusing, Closing, Admitted, Queue, Busy, Contract!vars

\* InHand and the queue depend on hand and input alone.
LEMMA SameQueue ==
  ASSUME UNCHANGED <<hand, input>>
  PROVE  UNCHANGED Queue
  BY DEF Queue, InHand

LEMMA StartMaps ==
  ASSUME RefInv, OneStarter, NEW s \in Starters, Start(s)
  PROVE  UNCHANGED Contract!vars
<1> USE DEF OneStarter, RefInv, TypeInv, TypeOK, IInv, SpawnedInv, shared, history
<1>1. UNCHANGED <<ctx, input, stop, done, hand, executed>>
  BY DEF Start, CheckStart, ProvideEntity, BeforeStartHook, GoLoop, WaitReady
<1>2. UNCHANGED Opened /\ UNCHANGED Busy
  BY DEF Start, CheckStart, ProvideEntity, BeforeStartHook, GoLoop, WaitReady, Step,
         Opened, Busy
<1>3. UNCHANGED Refusing
  <2>1. CASE BeforeStartHook(s)
    BY <2>1, <1>2 DEF BeforeStartHook, Opened, Refusing
  <2> QED
    BY <2>1, <1>2 DEF Start, CheckStart, ProvideEntity, GoLoop, WaitReady, Refusing
<1>4. UNCHANGED Admitted
  BY DistinctClients
  DEF Start, CheckStart, ProvideEntity, BeforeStartHook, GoLoop, WaitReady, Goto,
      Clients, Admitted
<1> QED
  BY <1>1, <1>2, <1>3, <1>4, SameQueue, StutterMaps DEF Closing

LEMMA ExecuteMaps ==
  ASSUME OneStarter, RefInv, NEW s \in Starters, LoopExecute(s)
  PROVE  Contract!Serve
<1> USE DEF RefInv, TypeInv, TypeOK, shared, history
<1>1. InHand = <<hand[s]>> /\ InHand' = <<>> /\ hand[s] \in Senders
  BY ExecuteHand
<1>3. Queue # <<>> /\ Head(Queue) = hand[s] /\ Tail(Queue) = input
  BY <1>1 DEF Queue
<1>4. Queue' = input
  <2>1. <<>> \o input = input
    BY ConcatEmptySeq
  <2> QED
    BY <1>1, <2>1 DEF LoopExecute, Queue
<1>5. Opened /\ ~Closing /\ ~Busy
  BY DEF OneStarter, LoopExecute, Opened, Closing, Busy
<1>6. Busy' /\ UNCHANGED <<Opened, Refusing, Closing, done, Admitted>>
  BY DEF OneStarter, LoopExecute, Step, Opened, Refusing, Closing, Admitted, Busy
<1>7. executed' = Append(executed, hand[s])
  BY DEF LoopExecute
<1> QED
  BY <1>3, <1>4, <1>5, <1>6, <1>7
  DEF Contract!Serve, Refusing, Closing, Admitted, Queue, Busy

\* A step at which the state may leave Started, and nothing else is seen.
LEMMA RefuseMaps ==
  ASSUME Opened, state' = "Started" => state = "Started",
         UNCHANGED <<Opened, Closing, done, Admitted, Queue, executed, Busy>>
  PROVE  [Contract!Next]_(Contract!vars)
<1>1. CASE UNCHANGED Refusing
  BY <1>1, StutterMaps
<1>2. CASE ~UNCHANGED Refusing
  <2>1. ~Refusing /\ Refusing'
    BY <1>2 DEF Refusing
  <2>2. Contract!Refuse
    BY <2>1 DEF Contract!Refuse, Refusing, Closing, Admitted, Queue, Busy
  <2> QED
    BY <2>2 DEF Contract!Next
<1> QED
  BY <1>1, <1>2

LEMMA LoopMaps ==
  ASSUME OneStarter, RefInv, NEW s \in Starters, Loop(s)
  PROVE  [Contract!Next]_(Contract!vars)
<1> USE DEF OneStarter, RefInv, TypeInv, TypeOK, shared, history, Step
<1>0. UNCHANGED Admitted
  BY DEF Loop, LoopStarted, LoopReady, LoopAfterStart, LoopSeesCtx, LoopSeesStop,
         LoopTake, LoopExecute, LoopExecuted, LoopCtxErr, LoopBeforeStop, LoopReturn,
         Admitted
<1>1. CASE LoopStarted(s)
  <2>1. UNCHANGED <<ctx, stop, done, hand, input, executed>>
    BY <1>1 DEF LoopStarted
  <2>2. ~Opened /\ Opened' /\ UNCHANGED Busy
    BY <1>1 DEF LoopStarted, Opened, Busy
  <2>3. ~Refusing /\ ~Refusing'
    BY <1>1, <2>2 DEF LoopStarted, Refusing
  <2>4. Contract!Open
    BY <1>0, <2>1, <2>2, <2>3, SameQueue
    DEF Contract!Open, Refusing, Closing, Admitted, Queue, Busy
  <2> QED
    BY <2>4 DEF Contract!Next
<1>2. CASE \/ LoopReady(s) \/ LoopAfterStart(s) \/ LoopSeesCtx(s) \/ LoopSeesStop(s)
           \/ LoopCtxErr(s) \/ LoopBeforeStop(s)
  <2>1. UNCHANGED <<ctx, stop, done, hand, input, executed>>
    BY <1>2
    DEF LoopReady, LoopAfterStart, LoopSeesCtx, LoopSeesStop, LoopCtxErr, LoopBeforeStop
  <2>2. Opened /\ UNCHANGED Opened /\ UNCHANGED Busy
    BY <1>2
    DEF LoopReady, LoopAfterStart, LoopSeesCtx, LoopSeesStop, LoopCtxErr, LoopBeforeStop,
        Opened, Busy
  <2>3. state' = "Started" => state = "Started"
    BY <1>2
    DEF LoopReady, LoopAfterStart, LoopSeesCtx, LoopSeesStop, LoopCtxErr, LoopBeforeStop,
        RunHook
  <2> QED
    BY <1>0, <2>1, <2>2, <2>3, SameQueue, RefuseMaps DEF Closing
<1>3. CASE LoopTake(s)
  <2>1. UNCHANGED <<state, ctx, stop, done, executed>>
    BY <1>3 DEF LoopTake
  <2>2. UNCHANGED Opened /\ UNCHANGED Busy
    BY <1>3 DEF LoopTake, Opened, Busy
  <2>3. UNCHANGED Queue
    <3>1. InHand = <<>> /\ InHand' = <<Head(input)>>
      BY <1>3, TakeHand DEF ConsInv
    <3>2. <<Head(input)>> \o Tail(input) = input
      BY <1>3, TakeFirst DEF LoopTake
    <3>3. <<>> \o input = input
      BY ConcatEmptySeq
    <3> QED
      BY <1>3, <3>1, <3>2, <3>3 DEF LoopTake, Queue
  <2> QED
    BY <1>0, <2>1, <2>2, <2>3, StutterMaps DEF Refusing, Closing
<1>4. CASE LoopExecute(s)
  BY <1>4, ExecuteMaps DEF Contract!Next
<1>5. CASE LoopExecuted(s)
  <2>1. UNCHANGED <<ctx, stop, done, hand, input, executed>>
    BY <1>5 DEF LoopExecuted
  <2>2. Busy /\ ~Busy' /\ Opened /\ UNCHANGED Opened
    BY <1>5 DEF LoopExecuted, Opened, Busy
  <2>3. Refusing' \in {Refusing, TRUE}
    BY <1>5, <2>2 DEF LoopExecuted, Refusing
  <2>4. Contract!Finish
    BY <1>0, <2>1, <2>2, <2>3, SameQueue
    DEF Contract!Finish, Refusing, Closing, Admitted, Queue, Busy
  <2> QED
    BY <2>4 DEF Contract!Next
<1>6. CASE LoopReturn(s)
  <2>1. UNCHANGED <<state, ctx, stop, hand, input, executed>> /\ ~done /\ done'
    BY <1>6 DEF LoopReturn, IInv, ChannelInv
  <2>2. Opened /\ ~Busy /\ UNCHANGED Opened /\ UNCHANGED Busy
    BY <1>6 DEF LoopReturn, Opened, Busy
  <2>3. Closing /\ Refusing /\ Refusing'
    BY <1>6, <2>1, <2>2 DEF LoopReturn, SignalInv, Closing, Refusing
  <2>4. Contract!Closed
    BY <1>0, <1>6, <2>1, <2>2, <2>3, SameQueue
    DEF LoopReturn, Contract!Closed, Refusing, Closing, Admitted, Queue, Busy
  <2> QED
    BY <2>4 DEF Contract!Next
<1> QED
  BY <1>1, <1>2, <1>3, <1>4, <1>5, <1>6 DEF Loop

LEMMA StopMaps ==
  ASSUME OneStarter, RefInv, NEW t \in Starters \cup Stoppers, Stop(t)
  PROVE  [Contract!Next]_(Contract!vars)
<1> USE DEF RefInv, TypeInv, TypeOK, shared, history
<1>1. UNCHANGED <<ctx, done, loop, hand, input, executed>>
  BY DEF Stop, StopCAS, StopClose, StopSeesDone, StopTimer, AfterStopHook
<1>2. UNCHANGED <<Opened, Busy, Queue>>
  BY <1>1, SameQueue DEF Opened, Busy
<1>3. UNCHANGED Admitted
  BY DistinctClients
  DEF Stop, StopCAS, CallsStop, StopClose, StopSeesDone, StopTimer, AfterStopHook, Goto,
      Clients, Admitted
<1>4. CASE StopClose(t)
  <2>1. UNCHANGED Refusing /\ Closing'
    BY <1>2, <1>4 DEF StopClose, Refusing, Closing
  <2>2. CASE Closing
    BY <1>1, <1>2, <1>3, <2>1, <2>2, StutterMaps
  <2>3. CASE ~Closing
    <3>1. Contract!Closing
      BY <1>1, <1>2, <1>3, <2>1, <2>3
      DEF Contract!Closing, Refusing, Closing, Admitted, Queue, Busy
    <3> QED
      BY <3>1 DEF Contract!Next
  <2> QED
    BY <2>1, <2>2, <2>3
<1>5. CASE ~StopClose(t)
  <2>1. UNCHANGED Closing
    BY <1>1, <1>5 DEF Stop, StopCAS, StopSeesDone, StopTimer, AfterStopHook, Closing
  <2>2. CASE Opened
    <3>1. state' = "Started" => state = "Started"
      BY <1>5 DEF Stop, StopCAS, StopSeesDone, StopTimer, AfterStopHook, RunHook
    <3> QED
      BY <1>1, <1>2, <1>3, <2>1, <2>2, <3>1, RefuseMaps
  <2>3. CASE ~Opened
    <3>1. UNCHANGED Refusing
      BY <1>2, <2>3 DEF Refusing
    <3> QED
      BY <1>1, <1>2, <1>3, <2>1, <3>1, StutterMaps
  <2> QED
    BY <2>2, <2>3
<1> QED
  BY <1>4, <1>5

LEMMA ReceiveMaps ==
  ASSUME OneStarter, RefInv, NEW c \in Senders, Receive(c)
  PROVE  [Contract!Next]_(Contract!vars)
<1> USE DEF RefInv, TypeInv, TypeOK, shared, history
<1> c \in Clients
  BY DEF Clients
<1>1. CASE ReceiveEnqueue(c)
  <2>1. UNCHANGED <<state, ctx, stop, done, loop, executed, InHand>>
    BY <1>1 DEF ReceiveEnqueue, InHand
  <2>2. UNCHANGED <<Opened, Refusing, Busy, Closing>>
    BY <2>1 DEF Opened, Refusing, Busy, Closing
  <2>3. InHand \in Seq(Senders) /\ Len(InHand) <= 1
    BY HandSeq
  <2>4. Len(Queue) < BufSize + 1
    BY <1>1, <2>3, BufSizeNat DEF ReceiveEnqueue, Queue
  <2>5. Queue' = Append(Queue, c)
    <3>1. Append(InHand \o input, c) = InHand \o Append(input, c)
      BY <2>3, AppendConcat
    <3> QED
      BY <1>1, <2>1, <3>1 DEF ReceiveEnqueue, Queue
  <2>6. c \in Admitted /\ Admitted' = Admitted \ {c}
    BY <1>1 DEF ReceiveEnqueue, Goto, Admitted
  <2>7. Contract!Accept(c)
    BY <2>1, <2>2, <2>4, <2>5, <2>6
    DEF Contract!Accept, Refusing, Closing, Admitted, Queue, Busy
  <2> QED
    BY <2>7 DEF Contract!Next
<1>2. ASSUME NEW s \in Starters, ReceiveHandOff(c, s)
      PROVE  [Contract!Next]_(Contract!vars)
  <2>1. UNCHANGED <<state, ctx, stop, done, executed>>
    BY <1>2 DEF ReceiveHandOff
  <2>2. UNCHANGED <<Opened, Busy>>
    BY <1>2 DEF ReceiveHandOff, Step, Opened, Busy
  <2>3. input = <<>> /\ input' = <<>>
    BY <1>2 DEF ReceiveHandOff
  <2>4. InHand = <<>> /\ InHand' = <<c>>
    BY <1>2, HandOffHand DEF ConsInv
  <2>5. Queue = <<>> /\ Queue' = <<c>>
    BY <2>3, <2>4 DEF Queue
  <2>6. Queue' = Append(Queue, c) /\ Len(Queue) < BufSize + 1
    BY <2>5, BufSizeNat
  <2>7. c \in Admitted /\ Admitted' = Admitted \ {c}
    BY <1>2 DEF ReceiveHandOff, Goto, Admitted
  <2>8. Contract!Accept(c)
    BY <2>1, <2>2, <2>6, <2>7
    DEF Contract!Accept, Refusing, Closing, Admitted, Queue, Busy
  <2> QED
    BY <2>8 DEF Contract!Next
<1>3. CASE ~ReceiveEnqueue(c) /\ ~\E s \in Starters : ReceiveHandOff(c, s)
  <2>1. UNCHANGED <<state, ctx, stop, done, loop, hand, input, executed>>
    BY <1>3 DEF Receive, ReceiveNil, ReceiveCheck, ReceiveSeesStop, ReceiveGivesUp
  <2>2. UNCHANGED <<Opened, Refusing, Closing, done, Queue, executed, Busy>>
    BY <2>1, SameQueue DEF Opened, Refusing, Closing, Busy
  <2>3. CASE ReceiveNil(c) \/ (ReceiveCheck(c) /\ state # "Started")
    <3>1. pc[c] = "idle" /\ pc' = [pc EXCEPT ![c] = "rejected"]
      BY <2>3 DEF ReceiveNil, ReceiveCheck, Goto
    <3>2. UNCHANGED Admitted
      BY <3>1 DEF Admitted
    <3> QED
      BY <2>2, <3>2, StutterMaps
  <2>4. CASE ReceiveCheck(c) /\ state = "Started"
    <3>1. Opened /\ ~Refusing
      BY <2>4 DEF IInv, StateInv, Opened, Refusing
    <3>2. Admitted' = Admitted \cup {c}
      BY <2>4 DEF ReceiveCheck, Goto, Admitted
    <3>3. Contract!Admit(c)
      BY <2>2, <3>1, <3>2 DEF Contract!Admit, Refusing, Closing, Admitted, Queue, Busy
    <3> QED
      BY <3>3 DEF Contract!Next
  <2>5. CASE ReceiveSeesStop(c) \/ ReceiveGivesUp(c)
    <3>1. pc[c] = "enqueue" /\ pc'[c] # "enqueue" /\ \A d \in Senders \ {c} : pc'[d] = pc[d]
      BY <2>5 DEF ReceiveSeesStop, ReceiveGivesUp, Goto, Clients
    <3>2. c \in Admitted /\ Admitted' = Admitted \ {c}
      BY <3>1 DEF Admitted
    <3>3. Contract!Withdraw(c)
      BY <2>2, <3>2 DEF Contract!Withdraw, Refusing, Closing, Admitted, Queue, Busy
    <3> QED
      BY <3>3 DEF Contract!Next
  <2> QED
    BY <1>3, <2>3, <2>4, <2>5 DEF Receive
<1> QED
  BY <1>1, <1>2, <1>3

LEMMA EndCtxMaps ==
  ASSUME EndCtx
  PROVE  [Contract!Next]_(Contract!vars)
<1>1. UNCHANGED <<state, stop, done, pc, loop, hand, input, executed>>
  BY DEF EndCtx, history
<1>2. UNCHANGED <<Opened, Refusing, Admitted, Busy, Queue>>
  BY <1>1, SameQueue DEF Opened, Refusing, Admitted, Busy
<1>3. CASE stop
  BY <1>1, <1>2, <1>3, StutterMaps DEF Closing
<1>4. CASE ~stop
  <2>1. Contract!Closing
    BY <1>1, <1>2, <1>4
    DEF EndCtx, Contract!Closing, Refusing, Closing, Admitted, Queue, Busy
  <2> QED
    BY <2>1 DEF Contract!Next
<1> QED
  BY <1>3, <1>4

\* An actor started once is a bounded, ordered, one-at-a-time server that admits
\* no caller once it has left Started, for every buffer size and whoever sends,
\* stops or cancels: what its users are promised can be read off ActorContract.
THEOREM ActorImplementsContract ==
  ASSUME OneStarter
  PROVE  Spec => ImplementsContract
<1>1. Init => Contract!Init
  <2> SUFFICES ASSUME Init PROVE Contract!Init
    OBVIOUS
  <2>1. InHand \o input = <<>>
    BY DEF Init, InHand
  <2>2. ~Opened /\ {c \in Senders : pc[c] = "enqueue"} = {}
    BY DEF Init, Opened, Clients
  <2> QED
    BY <2>1, <2>2 DEF Init, Contract!Init
<1>2. RefInv /\ [Next]_vars => [Contract!Next]_(Contract!vars)
  <2> SUFFICES ASSUME RefInv, [Next]_vars PROVE [Contract!Next]_(Contract!vars)
    OBVIOUS
  <2>1. CASE UNCHANGED vars
    BY <2>1 DEF vars, shared, history, Contract!vars, Opened, InHand
  <2>2. ASSUME NEW s \in Starters, Start(s) PROVE [Contract!Next]_(Contract!vars)
    BY <2>2, StartMaps
  <2>3. ASSUME NEW s \in Starters, Loop(s) PROVE [Contract!Next]_(Contract!vars)
    BY <2>3, LoopMaps
  <2>4. ASSUME NEW t \in Starters \cup Stoppers, Stop(t)
        PROVE  [Contract!Next]_(Contract!vars)
    BY <2>4, StopMaps
  <2>5. ASSUME NEW c \in Senders, Receive(c) PROVE [Contract!Next]_(Contract!vars)
    BY <2>5, ReceiveMaps
  <2> QED
    BY <2>1, <2>2, <2>3, <2>4, <2>5, EndCtxMaps DEF Next
<1> QED
  BY RefInvHolds, <1>1, <1>2, PTL DEF Spec, ImplementsContract, Contract!Spec
=============================================================================
