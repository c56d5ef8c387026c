-------------------------- MODULE MailboxContract -----------------------------
(***************************************************************************)
(* What a priority mailbox promises: a queue for each priority, bounded    *)
(* together, and each message taken is the oldest of the most urgent.      *)
(***************************************************************************)
EXTENDS Naturals, Sequences

CONSTANTS Messages, Priorities, MaxSize

VARIABLES
  queue,  \* for each priority
  size,   \* how many messages the queues hold together
  open

vars == <<queue, size, open>>

Init == queue = [p \in Priorities |-> <<>>] /\ size = 0 /\ open = TRUE

Put(m, p) ==
  /\ open
  /\ MaxSize > 0 => size < MaxSize
  /\ queue' = [queue EXCEPT ![p] = Append(@, m)]
  /\ size' = size + 1
  /\ UNCHANGED open

Take(p) ==
  /\ queue[p] # <<>>
  /\ \A q \in Priorities : q < p => queue[q] = <<>>
  /\ queue' = [queue EXCEPT ![p] = Tail(@)]
  /\ size' = size - 1
  /\ UNCHANGED open

Close == open /\ open' = FALSE /\ UNCHANGED <<queue, size>>

Next == Close \/ \E p \in Priorities : Take(p) \/ \E m \in Messages : Put(m, p)

Spec == Init /\ [][Next]_vars
=============================================================================
