------------------------------ MODULE Delivery --------------------------------
(***************************************************************************)
(* A worker made of the parts the library leaves to its users to combine:  *)
(* producers push messages into a PriorityMailbox, a feeder that waits on  *)
(* Notify() drains it and sends what it pops to an actor, the actor runs   *)
(* each through its behaviour and middleware, and what the mailbox or the  *)
(* actor refuses is published to a dead letter queue (README.md, "Dead     *)
(* letters": "publish undeliverable messages yourself").                   *)
(*                                                                         *)
(* A message is named after its producer. The feeder's actor has no buffer *)
(* and no receive timeout, and nobody stops it: GoActor has the rest.      *)
(***************************************************************************)
EXTENDS PriorityMailbox, DeadLetter, Pipeline

CONSTANTS
  Producers,   \* goroutines that push one message each
  Casts,       \* who takes part in a behaviour: producers, listeners, Others
  PriorityOf,  \* the priority of each message
  Feeder       \* the goroutine that drains the mailbox

\* Goroutines that call Close, Clear and AverageDuration.
Others == {"closer", "clearer", "reader"}

ASSUME PublishersAre == Feeder \notin Producers /\ Publishers = Producers \cup {Feeder}

ASSUME PrioritiesKnown == PriorityOf \in [Producers -> Priorities]

VARIABLES
  cast,  \* those who take part
  pc,    \* where each producer and the feeder is
  hand,  \* the messages the feeder has popped and not sent, at most one
  ran    \* history: the messages the actor has taken up, in order

vars == <<mailbox, dlq, pipeline, cast, pc, hand, ran>>

Init ==
  /\ MailboxInit /\ QueueInit /\ PipelineInit
  /\ cast \in Casts
  /\ pc = [p \in Publishers |-> IF p = Feeder THEN "wait" ELSE "idle"]
  /\ hand = {}
  /\ ran = <<>>

Goto(p, to) == pc' = [pc EXCEPT ![p] = to]

Produce(p) ==
  /\ pc[p] = "idle" /\ p \in cast
  /\ \/ Push(p, PriorityOf[p], pc[Feeder] = "wait") /\ Goto(p, "done")
     \/ PushRefused /\ Goto(p, "reject")
  /\ UNCHANGED <<dlq, pipeline, hand, ran>>

\* Publish, by a producer about its own message or by the feeder about the one
\* in its hand. A panic of Publish ends the caller.
Reject(p) ==
  /\ pc[p] = "reject"
  /\ \/ \E l \in IF p = Feeder THEN hand ELSE {p} : Publish(p, l) /\ Goto(p, "notify")
     \/ PublishPanics /\ Goto(p, "panicked")
  /\ UNCHANGED <<mailbox, pipeline, hand, ran>>

NotifyListener(p) ==
  /\ pc[p] = "notify"
  /\ CallListener(p)
  /\ UNCHANGED <<mailbox, pipeline, pc, hand, ran>>

Rejected(p) ==
  /\ pc[p] = "notify"
  /\ Published(p)
  /\ IF p = Feeder THEN Goto(p, "drain") /\ hand' = {} ELSE Goto(p, "done") /\ UNCHANGED hand
  /\ UNCHANGED <<mailbox, pipeline, ran>>

-----------------------------------------------------------------------------
FeederWakes ==
  /\ pc[Feeder] = "wait"
  /\ Notified
  /\ Goto(Feeder, "drain")
  /\ UNCHANGED <<dlq, pipeline, hand, ran>>

\* It pops until the mailbox is empty, for signals are not counted.
FeederPops ==
  /\ pc[Feeder] = "drain"
  /\ \/ \E m \in Producers : Pop(m) /\ hand' = {m} /\ Goto(Feeder, "send")
     \/ PopEmpty /\ Goto(Feeder, "listen") /\ UNCHANGED hand
  /\ UNCHANGED <<dlq, pipeline, ran>>

\* Between the empty Pop and the receive from Notify() anyone may push.
FeederListens ==
  /\ pc[Feeder] = "listen"
  /\ Goto(Feeder, "wait")
  /\ UNCHANGED <<mailbox, dlq, pipeline, hand, ran>>

\* Receive loads the state of the actor.
FeederSends ==
  /\ pc[Feeder] = "send"
  /\ Goto(Feeder, IF state = "Started" THEN "enqueue" ELSE "reject")
  /\ UNCHANGED <<mailbox, dlq, pipeline, hand, ran>>

\* The channel has no buffer: the loop takes the message up in the same step,
\* also when it has panicked since the load.
FeederHandsOff ==
  /\ pc[Feeder] = "enqueue"
  /\ Run
  /\ ran' = Append(ran, CHOOSE m \in hand : TRUE)
  /\ hand' = {}
  /\ Goto(Feeder, "drain")
  /\ UNCHANGED <<mailbox, dlq>>

Feed == FeederWakes \/ FeederPops \/ FeederListens \/ FeederSends \/ FeederHandsOff

-----------------------------------------------------------------------------
LoopHandles == Handle /\ UNCHANGED <<mailbox, dlq, pc, hand, ran>>

AverageDuration == LoadCount \/ LoadTotal

Queries ==
  \/ /\ "reader" \in cast /\ AverageDuration
     /\ UNCHANGED <<mailbox, dlq, pc, hand, ran>>
  \/ /\ "closer" \in cast /\ CloseMailbox
     /\ UNCHANGED <<dlq, pipeline, pc, hand, ran>>
  \/ /\ \/ "clearer" \in cast /\ Clear
        \/ \E h \in Listeners \cap cast : OnDeadLetter(h)
     /\ UNCHANGED <<mailbox, pipeline, pc, hand, ran>>

Publishing(p) == Reject(p) \/ NotifyListener(p) \/ Rejected(p)

Next ==
  /\ \/ \E p \in Producers : Produce(p)
     \/ \E p \in Publishers : Publishing(p)
     \/ Feed \/ LoopHandles \/ Queries
  /\ UNCHANGED cast

Spec == Init /\ [][Next]_vars

\* The goroutines run; commands and listeners return.
FairSpec ==
  /\ Spec
  /\ WF_vars(Feed /\ UNCHANGED cast) /\ WF_vars(LoopHandles /\ UNCHANGED cast)
  /\ \A p \in Publishers : WF_vars(Publishing(p) /\ UNCHANGED cast)
=============================================================================
