---------------------------- MODULE GoActorProofs ----------------------------
(***************************************************************************)
(* Theorems about GoActor, for every set of callers, every buffer size and *)
(* every choice of hooks and handlers that may panic.                      *)
(*                                                                         *)
(* Type correctness holds for any number of goroutines that call Start.    *)
(* The rest is about an actor started by one goroutine, which is how the   *)
(* library itself starts one (StartNew, Spawn, a supervisor's Factory);    *)
(* the run actor_double_start shows that it fails for two.                 *)
(***************************************************************************)
EXTENDS GoActorProps, SequenceTheorems, TLAPS

\* At most one goroutine calls Start.
OneStarter == \A s, u \in Starters : s = u

-----------------------------------------------------------------------------
\* The loop holds a command while it looks at the signals a second time; this
\* is what makes the command it then executes one that was sent.
HandFull == \A s \in Starters : loop[s] = "recheck" => hand[s] # NoMsg

TypeInv == TypeOK /\ HandFull

LEMMA TypeInit == Init => TypeInv
<1> SUFFICES ASSUME Init PROVE TypeInv
  OBVIOUS
<1>1. input \in Seq(Senders) /\ Len(input) <= BufSize
  BY BufSizeNat DEF Init
<1>2. pc \in [Clients -> ClientSteps]
  BY DEF Init, ClientSteps
<1>3. loop \in [Starters -> LoopSteps]
  BY DEF Init, LoopSteps
<1> QED
  BY <1>1, <1>2, <1>3 DEF Init, TypeInv, TypeOK, HandFull, ActorStates

LEMMA TypeStep == TypeInv /\ [Next]_vars => TypeInv'
<1> USE DEF TypeInv, TypeOK, HandFull, shared, history
<1> SUFFICES ASSUME TypeInv, [Next]_vars PROVE TypeInv'
  OBVIOUS
<1>1. CASE UNCHANGED vars
  BY <1>1 DEF vars
<1>2. ASSUME NEW s \in Starters, Start(s) PROVE TypeInv'
  <2> s \in Clients
    BY DEF Clients
  <2>1. CASE CheckStart(s)
    BY <2>1 DEF CheckStart, Goto, ClientSteps
  <2>2. CASE ProvideEntity(s)
    BY <2>2 DEF ProvideEntity, Goto, ClientSteps
  <2>3. CASE BeforeStartHook(s)
    BY <2>3 DEF BeforeStartHook, RunHook, Goto, ClientSteps, ActorStates
  <2>4. CASE GoLoop(s)
    BY <2>4 DEF GoLoop, Goto, Step, ClientSteps, LoopSteps
  <2>5. CASE WaitReady(s)
    BY <2>5 DEF WaitReady, Goto, ClientSteps
  <2> QED
    BY <1>2, <2>1, <2>2, <2>3, <2>4, <2>5 DEF Start
<1>3. ASSUME NEW s \in Starters, Loop(s) PROVE TypeInv'
  <2>1. CASE LoopStarted(s)
    BY <2>1 DEF LoopStarted, Step, LoopSteps, ActorStates
  <2>2. CASE LoopReady(s)
    BY <2>2 DEF LoopReady, Step, LoopSteps
  <2>3. CASE LoopAfterStart(s)
    BY <2>3 DEF LoopAfterStart, RunHook, Step, LoopSteps, ActorStates
  <2>4. CASE LoopSeesCtx(s)
    BY <2>4 DEF LoopSeesCtx, Step, LoopSteps
  <2>5. CASE LoopSeesStop(s)
    BY <2>5 DEF LoopSeesStop, Step, LoopSteps
  <2>6. CASE LoopTake(s)
    <3>1. Head(input) \in Senders /\ Tail(input) \in Seq(Senders)
          /\ Len(Tail(input)) <= BufSize
      BY <2>6, BufSizeNat DEF LoopTake
    <3>2. Head(input) # NoMsg
      BY <3>1, DistinctClients
    <3> QED
      BY <2>6, <3>1, <3>2 DEF LoopTake, Step, LoopSteps
  <2>7. CASE LoopExecute(s)
    <3>1. hand[s] \in Senders
      BY <2>7 DEF LoopExecute
    <3> QED
      BY <2>7, <3>1 DEF LoopExecute, Step, LoopSteps
  <2>8. CASE LoopExecuted(s)
    BY <2>8 DEF LoopExecuted, Step, LoopSteps, ActorStates
  <2>9. CASE LoopCtxErr(s)
    BY <2>9 DEF LoopCtxErr, Step, LoopSteps, ActorStates
  <2>10. CASE LoopBeforeStop(s)
    BY <2>10 DEF LoopBeforeStop, RunHook, Step, LoopSteps, ActorStates
  <2>11. CASE LoopReturn(s)
    BY <2>11 DEF LoopReturn, Step, LoopSteps
  <2> QED
    BY <1>3, <2>1, <2>2, <2>3, <2>4, <2>5, <2>6, <2>7, <2>8, <2>9, <2>10, <2>11
    DEF Loop
<1>4. ASSUME NEW t \in Starters \cup Stoppers, Stop(t) PROVE TypeInv'
  <2> t \in Clients
    BY DEF Clients
  <2>1. CASE StopCAS(t)
    BY <2>1 DEF StopCAS, Goto, ClientSteps, StopSteps, ActorStates
  <2>2. CASE StopClose(t)
    BY <2>2 DEF StopClose, Goto, ClientSteps, StopSteps
  <2>3. CASE StopSeesDone(t)
    BY <2>3 DEF StopSeesDone, Goto, ClientSteps, StopSteps, ActorStates
  <2>4. CASE StopTimer(t)
    BY <2>4 DEF StopTimer, Goto, ClientSteps, StopSteps, ActorStates
  <2>5. CASE AfterStopHook(t)
    BY <2>5 DEF AfterStopHook, RunHook, Goto, ClientSteps, StopSteps, ActorStates
  <2> QED
    BY <1>4, <2>1, <2>2, <2>3, <2>4, <2>5 DEF Stop
<1>5. ASSUME NEW c \in Senders, Receive(c) PROVE TypeInv'
  <2> c \in Clients /\ c # NoMsg
    BY DistinctClients DEF Clients
  <2>1. CASE ReceiveNil(c)
    BY <2>1 DEF ReceiveNil, Goto, ClientSteps
  <2>2. CASE ReceiveCheck(c)
    BY <2>2 DEF ReceiveCheck, Goto, ClientSteps
  <2>3. CASE ReceiveEnqueue(c)
    <3>1. Append(input, c) \in Seq(Senders) /\ Len(Append(input, c)) <= BufSize
      BY <2>3, BufSizeNat DEF ReceiveEnqueue
    <3> QED
      BY <2>3, <3>1 DEF ReceiveEnqueue, Goto, ClientSteps
  <2>4. ASSUME NEW s \in Starters, ReceiveHandOff(c, s) PROVE TypeInv'
    BY <2>4 DEF ReceiveHandOff, Goto, Step, ClientSteps, LoopSteps
  <2>5. CASE ReceiveSeesStop(c)
    BY <2>5 DEF ReceiveSeesStop, Goto, ClientSteps
  <2>6. CASE ReceiveGivesUp(c)
    BY <2>6 DEF ReceiveGivesUp, Goto, ClientSteps
  <2> QED
    BY <1>5, <2>1, <2>2, <2>3, <2>4, <2>5, <2>6 DEF Receive
<1>6. CASE EndCtx
  BY <1>6 DEF EndCtx
<1> QED
  BY <1>1, <1>2, <1>3, <1>4, <1>5, <1>6 DEF Next

\* Every reachable state has its type and the buffer never holds more than its
\* capacity, whoever calls Start, Receive and Stop, and however often.
THEOREM TypeCorrect == Spec => []TypeOK
<1>1. TypeInv => TypeOK
  BY DEF TypeInv
<1> QED
  BY TypeInit, TypeStep, <1>1, PTL DEF Spec

-----------------------------------------------------------------------------
(* The inductive invariant of an actor that one goroutine starts. It ties  *)
(* each channel to the goroutine that closes it, and the state to where    *)
(* the loop and the winner of the CAS are.                                 *)

Callers == Starters \cup Stoppers

\* A starter has a goroutine exactly when it is past the go statement.
SpawnedInv ==
  \A s \in Starters :
    loop[s] = "off" <=>
      pc[s] \in {"idle", "provide", "beforeStart", "go", "startErr"}

\* A channel is closed once the goroutine that closes it is past the close.
ChannelInv ==
  /\ ready = \E s \in Starters : loop[s] \notin {"off", "spawned", "closeReady"}
  /\ done = \E s \in Starters : loop[s] = "exited"
  /\ stop = \E t \in Callers : pc[t] \in {"awaitDone", "afterStop", "stopped"}
  /\ ~crashed

\* One caller at most has won the CAS in Stop.
WinnerInv ==
  \A t, u \in Callers : pc[t] \in StopSteps /\ pc[u] \in StopSteps => t = u

\* Where the loop and the winner are bounds what the state can be.
StateInv ==
  /\ (\A s \in Starters : loop[s] \in {"off", "spawned"}) =>
       /\ state \in {"Initialized", "Panicked"}
       /\ \A t \in Callers : pc[t] \notin StopSteps
  /\ \A s \in Starters :
       loop[s] \notin {"off", "spawned", "return", "exited"} =>
         state \in {"Started", "Stopping", "StoppedWithError", "Panicked"}
  /\ \A t \in Callers :
       pc[t] \in StopSteps => state \notin {"Initialized", "Started"}
  /\ \A t \in Callers :
       pc[t] \in {"afterStop", "stopped"} =>
         state \in {"Done", "StoppedWithError", "Canceled", "Panicked"}
  /\ state = "Done" =>
       /\ done
       /\ \E t \in Callers : pc[t] \in {"afterStop", "stopped"}

IInv == SpawnedInv /\ ChannelInv /\ WinnerInv /\ StateInv

LEMMA IInvInit == Init => IInv
  BY DistinctClients
  DEF Init, IInv, SpawnedInv, ChannelInv, WinnerInv, StateInv, StopSteps,
      Clients, Callers

LEMMA IInvStep == OneStarter /\ TypeInv /\ IInv /\ [Next]_vars => IInv'
<1> SUFFICES ASSUME OneStarter, TypeInv, IInv, [Next]_vars PROVE IInv'
  OBVIOUS
<1> USE DistinctClients
    DEF OneStarter, TypeInv, TypeOK, IInv, SpawnedInv, ChannelInv, WinnerInv,
        StateInv, StopSteps, Clients, Callers, shared, history
<1>1. CASE UNCHANGED vars
  BY <1>1 DEF vars
<1>2. ASSUME NEW s \in Starters, Start(s) PROVE IInv'
  <2>1. CASE CheckStart(s)
    BY <2>1 DEF CheckStart, Goto
  <2>2. CASE ProvideEntity(s)
    BY <2>2 DEF ProvideEntity, Goto
  <2>3. CASE BeforeStartHook(s)
    BY <2>3 DEF BeforeStartHook, RunHook, Goto
  <2>4. CASE GoLoop(s)
    BY <2>4 DEF GoLoop, Goto, Step
  <2>5. CASE WaitReady(s)
    BY <2>5 DEF WaitReady, Goto
  <2> QED
    BY <1>2, <2>1, <2>2, <2>3, <2>4, <2>5 DEF Start
<1>3. ASSUME NEW s \in Starters, Loop(s) PROVE IInv'
  <2>1. CASE LoopStarted(s)
    BY <2>1 DEF LoopStarted, Step
  <2>2. CASE LoopReady(s)
    BY <2>2 DEF LoopReady, Step
  <2>3. CASE LoopAfterStart(s)
    BY <2>3 DEF LoopAfterStart, RunHook, Step
  <2>4. CASE LoopSeesCtx(s)
    BY <2>4 DEF LoopSeesCtx, Step
  <2>5. CASE LoopSeesStop(s)
    BY <2>5 DEF LoopSeesStop, Step
  <2>6. CASE LoopTake(s)
    BY <2>6 DEF LoopTake, Step
  <2>7. CASE LoopExecute(s)
    BY <2>7 DEF LoopExecute, Step
  <2>8. CASE LoopExecuted(s)
    BY <2>8 DEF LoopExecuted, Step
  <2>9. CASE LoopCtxErr(s)
    BY <2>9 DEF LoopCtxErr, Step
  <2>10. CASE LoopBeforeStop(s)
    BY <2>10 DEF LoopBeforeStop, RunHook, Step
  <2>11. CASE LoopReturn(s)
    BY <2>11 DEF LoopReturn, Step
  <2> QED
    BY <1>3, <2>1, <2>2, <2>3, <2>4, <2>5, <2>6, <2>7, <2>8, <2>9, <2>10, <2>11 DEF Loop
<1>4. ASSUME NEW t \in Starters \cup Stoppers, Stop(t) PROVE IInv'
  <2>1. CASE StopCAS(t)
    BY <2>1 DEF StopCAS, CallsStop, Goto
  <2>2. CASE StopClose(t)
    BY <2>2 DEF StopClose, Goto
  <2>3. CASE StopSeesDone(t)
    BY <2>3 DEF StopSeesDone, Goto
  <2>4. CASE StopTimer(t)
    BY <2>4 DEF StopTimer, Goto
  <2>5. CASE AfterStopHook(t)
    BY <2>5 DEF AfterStopHook, RunHook, Goto
  <2> QED
    BY <1>4, <2>1, <2>2, <2>3, <2>4, <2>5 DEF Stop
<1>5. ASSUME NEW c \in Senders, Receive(c) PROVE IInv'
  <2>1. CASE ReceiveNil(c)
    BY <2>1 DEF ReceiveNil, Goto
  <2>2. CASE ReceiveCheck(c)
    BY <2>2 DEF ReceiveCheck, Goto
  <2>3. CASE ReceiveEnqueue(c)
    BY <2>3 DEF ReceiveEnqueue, Goto
  <2>4. CASE ReceiveSeesStop(c)
    BY <2>4 DEF ReceiveSeesStop, Goto
  <2>5. CASE ReceiveGivesUp(c)
    BY <2>5 DEF ReceiveGivesUp, Goto
  <2>6. ASSUME NEW s \in Starters, ReceiveHandOff(c, s) PROVE IInv'
    BY <2>6 DEF ReceiveHandOff, Goto, Step
  <2> QED
    BY <1>5, <2>1, <2>2, <2>3, <2>4, <2>5, <2>6 DEF Receive
<1>6. CASE EndCtx
  BY <1>6 DEF EndCtx
<1> QED
  BY <1>1, <1>2, <1>3, <1>4, <1>5, <1>6 DEF Next

LEMMA InvHolds ==
  ASSUME OneStarter
  PROVE  Spec => [](TypeInv /\ IInv)
<1>1. TypeInv /\ IInv /\ [Next]_vars => (TypeInv /\ IInv)'
  BY TypeStep, IInvStep
<1> QED
  BY TypeInit, IInvInit, <1>1, PTL DEF Spec

-----------------------------------------------------------------------------
\* Among any number of concurrent calls of Stop one wins, and neither ready,
\* stop nor done is ever closed twice, so the process does not go down.
THEOREM ConcurrentStops ==
  ASSUME OneStarter
  PROVE  Spec => []OneStopper
<1>1. IInv => OneStopper
  BY DEF IInv, WinnerInv, ChannelInv, OneStopper, Callers
<1> QED
  BY InvHolds, <1>1, PTL

\* The state Done is a promise: the goroutine has exited, no handler runs.
THEOREM DoneMeansExited ==
  ASSUME OneStarter
  PROVE  Spec => []DoneIsQuiescent
<1>1. IInv => DoneIsQuiescent
  BY DEF OneStarter, IInv, ChannelInv, StateInv, DoneIsQuiescent
<1> QED
  BY InvHolds, <1>1, PTL

\* A Stop that returned nil is final: the actor never reports Started again.
THEOREM StoppedForGood ==
  ASSUME OneStarter
  PROVE  Spec => []StopIsFinal
<1>1. IInv => StopIsFinal
  BY DEF IInv, ChannelInv, StateInv, StopIsFinal, Callers
<1> QED
  BY InvHolds, <1>1, PTL

-----------------------------------------------------------------------------
(* The commands on their way from Receive to the handler of an actor       *)
(* started once: their order, and that none is lost.                       *)

\* Between two commands the loop's hand is empty.
HandInv ==
  \A s \in Starters :
    hand[s] # NoMsg => loop[s] \notin {"off", "spawned", "closeReady",
                                       "afterStart", "select", "exec"}

ConsInv == HandInv /\ Conservation

\* With one starter, its hand is what is in hand.
LEMMA OneHand ==
  ASSUME OneStarter, NEW s \in Starters
  PROVE  InHand = IF hand[s] = NoMsg THEN <<>> ELSE <<hand[s]>>
  BY DEF OneStarter, InHand

\* What is in hand is a sequence of one command at most.
LEMMA HandSeq ==
  ASSUME OneStarter, TypeInv
  PROVE  InHand \in Seq(Senders) /\ Len(InHand) <= 1
<1> USE DEF TypeInv, TypeOK
<1>1. CASE Starters = {}
  BY <1>1 DEF InHand
<1>2. ASSUME NEW s \in Starters PROVE InHand \in Seq(Senders) /\ Len(InHand) <= 1
  <2>1. CASE hand[s] = NoMsg
    <3>1. InHand = <<>>
      BY <2>1, OneHand
    <3> QED
      BY <3>1, EmptySeq
  <2>2. CASE hand[s] \in Senders
    <3>1. InHand = <<hand[s]>>
      BY <2>2, OneHand, DistinctClients
    <3> QED
      BY <2>2, <3>1
  <2> QED
    BY <2>1, <2>2
<1> QED
  BY <1>1, <1>2

\* The loop takes a command with an empty hand.
LEMMA TakeHand ==
  ASSUME OneStarter, TypeInv, HandInv, NEW s \in Starters, LoopTake(s)
  PROVE  InHand = <<>> /\ InHand' = <<Head(input)>>
<1> USE DEF TypeInv, TypeOK
<1>1. hand[s] = NoMsg /\ hand'[s] = Head(input)
  BY DEF HandInv, LoopTake
<1>2. Head(input) # NoMsg
  BY DistinctClients DEF LoopTake
<1>3. InHand' = IF hand'[s] = NoMsg THEN <<>> ELSE <<hand'[s]>>
  BY DEF OneStarter, InHand
<1> QED
  BY <1>1, <1>2, <1>3, OneHand

\* So it does when a sender hands it one over an unbuffered channel.
LEMMA HandOffHand ==
  ASSUME OneStarter, TypeInv, HandInv,
         NEW c \in Senders, NEW s \in Starters, ReceiveHandOff(c, s)
  PROVE  InHand = <<>> /\ InHand' = <<c>>
<1> USE DEF TypeInv, TypeOK
<1>1. hand[s] = NoMsg /\ hand'[s] = c /\ c # NoMsg
  BY DistinctClients DEF HandInv, ReceiveHandOff
<1>2. InHand' = IF hand'[s] = NoMsg THEN <<>> ELSE <<hand'[s]>>
  BY DEF OneStarter, InHand
<1> QED
  BY <1>1, <1>2, OneHand

\* Executing the command in hand empties it.
LEMMA ExecuteHand ==
  ASSUME OneStarter, TypeInv, NEW s \in Starters, LoopExecute(s)
  PROVE  InHand = <<hand[s]>> /\ InHand' = <<>> /\ hand[s] \in Senders
<1> USE DEF TypeInv, TypeOK
<1>1. hand[s] # NoMsg /\ hand'[s] = NoMsg
  BY DEF LoopExecute, HandFull
<1>2. InHand' = IF hand'[s] = NoMsg THEN <<>> ELSE <<hand'[s]>>
  BY DEF OneStarter, InHand
<1> QED
  BY <1>1, <1>2, OneHand

\* Appending to the last of two sequences appends to the whole.
LEMMA AppendConcat ==
  \A y, z \in Seq(Senders), e \in Senders : Append(y \o z, e) = y \o Append(z, e)
<1> TAKE y, z \in Seq(Senders), e \in Senders
<1>1. y \o z \in Seq(Senders) /\ <<e>> \in Seq(Senders)
  BY ConcatProperties
<1>2. Append(y \o z, e) = (y \o z) \o <<e>>
  BY <1>1, AppendIsConcat
<1>3. (y \o z) \o <<e>> = y \o (z \o <<e>>)
  BY <1>1, ConcatAssociative
<1>4. z \o <<e>> = Append(z, e)
  BY AppendIsConcat
<1> QED
  BY <1>2, <1>3, <1>4

\* Taking the first command of the buffer in hand leaves the whole as it was.
LEMMA TakeFirst ==
  ASSUME NEW S, NEW q \in Seq(S), q # <<>>
  PROVE  <<Head(q)>> \o Tail(q) = q
<1>1. Len(q) \in Nat \ {0} /\ Len(q) >= 1
  BY EmptySeq
<1>2. SubSeq(q, 1, Len(q)) = <<q[1]>> \o SubSeq(q, 2, Len(q))
  BY <1>1, SubSeqRecursiveFirst
<1>3. SubSeq(q, 1, Len(q)) = q
  BY SubSeqFull
<1>4. Tail(q) = SubSeq(q, 2, Len(q))
  BY TailIsSubSeq
<1>5. Head(q) = q[1]
  BY <1>1, HeadTailProperties
<1> QED
  BY <1>2, <1>3, <1>4, <1>5

LEMMA ConsInit == Init => ConsInv
<1> SUFFICES ASSUME Init PROVE ConsInv
  OBVIOUS
<1>1. InHand = <<>>
  BY DEF Init, InHand
<1>2. <<>> \o <<>> \o <<>> = <<>>
  OBVIOUS
<1> QED
  BY <1>1, <1>2 DEF Init, ConsInv, HandInv, Conservation

LEMMA ConsStep ==
  ASSUME OneStarter
  PROVE  TypeInv /\ IInv /\ ConsInv /\ [Next]_vars => ConsInv'
<1> SUFFICES ASSUME TypeInv, IInv, ConsInv, [Next]_vars PROVE ConsInv'
  OBVIOUS
<1> USE DEF ConsInv, HandInv, TypeInv, TypeOK, shared, history
<1>1. InHand \in Seq(Senders)
  BY HandSeq
<1>2. ASSUME hand' = hand, input' = input, accepted' = accepted, executed' = executed
      PROVE  Conservation'
  BY <1>2 DEF Conservation, InHand
<1>3. CASE UNCHANGED vars
  BY <1>2, <1>3 DEF vars
<1>4. ASSUME NEW s \in Starters, Start(s) PROVE ConsInv'
  <2>1. UNCHANGED <<hand, input, history>>
    BY <1>4 DEF Start, CheckStart, ProvideEntity, BeforeStartHook, GoLoop, WaitReady
  <2>2. CASE GoLoop(s)
    <3>1. loop[s] = "off"
      BY <2>2 DEF GoLoop, IInv, SpawnedInv
    <3> QED
      BY <1>2, <2>1, <2>2, <3>1 DEF GoLoop, Step
  <2>3. CASE ~GoLoop(s)
    <3>1. UNCHANGED loop
      BY <1>4, <2>3 DEF Start, CheckStart, ProvideEntity, BeforeStartHook, WaitReady
    <3> QED
      BY <1>2, <2>1, <3>1
  <2> QED
    BY <2>2, <2>3
<1>5. ASSUME NEW s \in Starters, Loop(s) PROVE ConsInv'
  <2>1. CASE LoopTake(s)
    <3>1. InHand = <<>> /\ InHand' = <<Head(input)>>
      BY <2>1, TakeHand
    <3>2. Head(input) \in Senders /\ Tail(input) \in Seq(Senders)
      BY <2>1 DEF LoopTake
    <3>3. (executed \o <<Head(input)>>) \o Tail(input)
          = executed \o (<<Head(input)>> \o Tail(input))
      BY <3>2, ConcatAssociative
    <3>4. <<Head(input)>> \o Tail(input) = input
      BY <2>1, TakeFirst DEF LoopTake
    <3>5. executed \o <<>> = executed
      BY ConcatEmptySeq
    <3>6. Conservation'
      BY <2>1, <3>1, <3>3, <3>4, <3>5 DEF LoopTake, Conservation
    <3>7. HandInv'
      BY <2>1 DEF LoopTake, Step
    <3> QED
      BY <3>6, <3>7
  <2>2. CASE LoopExecute(s)
    <3>1. InHand = <<hand[s]>> /\ InHand' = <<>> /\ hand[s] \in Senders
      BY <2>2, ExecuteHand
    <3>3. executed' = executed \o <<hand[s]>> /\ executed' \in Seq(Senders)
      BY <2>2, <3>1, AppendIsConcat, AppendProperties DEF LoopExecute
    <3>4. executed' \o <<>> = executed'
      BY <3>3, ConcatEmptySeq
    <3>5. Conservation'
      BY <2>2, <3>1, <3>3, <3>4 DEF LoopExecute, Conservation
    <3>6. HandInv'
      BY <2>2 DEF LoopExecute, Step
    <3> QED
      BY <3>5, <3>6
  <2>3. CASE \/ LoopStarted(s) \/ LoopReady(s) \/ LoopAfterStart(s)
             \/ LoopSeesCtx(s) \/ LoopSeesStop(s) \/ LoopExecuted(s)
             \/ LoopCtxErr(s) \/ LoopBeforeStop(s) \/ LoopReturn(s)
    <3>1. UNCHANGED <<hand, input, history>>
      BY <2>3
      DEF LoopStarted, LoopReady, LoopAfterStart, LoopSeesCtx, LoopSeesStop,
          LoopExecuted, LoopCtxErr, LoopBeforeStop, LoopReturn
    <3>2. HandInv'
      BY <2>3, <3>1
      DEF LoopStarted, LoopReady, LoopAfterStart, LoopSeesCtx, LoopSeesStop,
          LoopExecuted, LoopCtxErr, LoopBeforeStop, LoopReturn, Step
    <3> QED
      BY <1>2, <3>1, <3>2
  <2> QED
    BY <1>5, <2>1, <2>2, <2>3 DEF Loop
<1>6. ASSUME NEW t \in Starters \cup Stoppers, Stop(t) PROVE ConsInv'
  <2>1. UNCHANGED <<hand, loop, input, history>>
    BY <1>6 DEF Stop, StopCAS, StopClose, StopSeesDone, StopTimer, AfterStopHook
  <2> QED
    BY <1>2, <2>1
<1>7. ASSUME NEW c \in Senders, Receive(c) PROVE ConsInv'
  <2>1. CASE ReceiveEnqueue(c)
    <3>1. InHand' = InHand
      BY <2>1 DEF ReceiveEnqueue, InHand
    <3>2. Append(executed \o InHand \o input, c)
          = executed \o InHand \o Append(input, c)
      <4>1. executed \in Seq(Senders) /\ executed \o InHand \in Seq(Senders)
        BY <1>1, ConcatProperties
      <4> QED
        BY <4>1, AppendConcat
    <3> QED
      BY <2>1, <3>1, <3>2 DEF ReceiveEnqueue, Conservation
  <2>2. ASSUME NEW s \in Starters, ReceiveHandOff(c, s) PROVE ConsInv'
    <3>1. input = <<>>
      BY <2>2 DEF ReceiveHandOff
    <3>2. InHand = <<>> /\ InHand' = <<c>>
      BY <2>2, HandOffHand
    <3>3. accepted = executed
      BY <3>1, <3>2, ConcatEmptySeq DEF Conservation
    <3>4. accepted' = executed \o <<c>>
      BY <2>2, <3>3, AppendIsConcat DEF ReceiveHandOff
    <3>5. (executed \o <<c>>) \o <<>> = executed \o <<c>>
      BY ConcatEmptySeq, ConcatProperties
    <3>6. Conservation'
      BY <2>2, <3>1, <3>2, <3>4, <3>5 DEF ReceiveHandOff, Conservation
    <3>7. HandInv'
      BY <2>2 DEF ReceiveHandOff, Step
    <3> QED
      BY <3>6, <3>7
  <2>3. CASE \/ ReceiveNil(c) \/ ReceiveCheck(c) \/ ReceiveSeesStop(c)
             \/ ReceiveGivesUp(c)
    BY <1>2, <2>3
    DEF ReceiveNil, ReceiveCheck, ReceiveSeesStop, ReceiveGivesUp
  <2> QED
    BY <1>7, <2>1, <2>2, <2>3 DEF Receive
<1>8. CASE EndCtx
  BY <1>2, <1>8 DEF EndCtx
<1> QED
  BY <1>3, <1>4, <1>5, <1>6, <1>7, <1>8 DEF Next

\* Commands are executed in the order Receive accepted them, none twice, and a
\* command that was accepted and not executed is in the loop's hand or in the
\* buffer, whatever the buffer size and whatever panics or stops the actor.
THEOREM NothingLost ==
  ASSUME OneStarter
  PROVE  Spec => []Conservation
<1>1. TypeInv /\ IInv /\ ConsInv /\ [Next]_vars => ConsInv'
  BY ConsStep
<1>2. ConsInv => Conservation
  BY DEF ConsInv
<1> QED
  BY InvHolds, ConsInit, <1>1, <1>2, PTL DEF Spec
=============================================================================
