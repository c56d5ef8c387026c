----------------------------- MODULE DeadLetter -------------------------------
(***************************************************************************)
(* The dead letter queue of pkg/deadletter (deadletter.go). A critical     *)
(* section is one step; what Publish does after it, calling the handlers,  *)
(* is a step per handler. A letter is the message it is about.             *)
(***************************************************************************)
EXTENDS Naturals, Sequences

CONSTANTS
  Publishers,  \* goroutines that call Publish
  Listeners,   \* handlers
  Capacities   \* what WithCapacity may be given; New fails for a negative one

ASSUME CapacitiesNat == Capacities \subseteq Nat

VARIABLES
  letters,    \* q.letters
  capacity,   \* q.capacity
  listeners,  \* q.handlers
  stuck,      \* a panic has left q.mu locked
  letter,     \* the letters a publisher is calling the handlers for, at most one
  calling,    \* its copy of the handlers that it has yet to call
  published,  \* history: all letters that were published, in order
  cleared,    \* history: how many of them came before the last Clear
  owed,       \* history: the letters published since a handler was registered
  got         \* history: the letters a handler was called with, in order

dlq == <<letters, capacity, listeners, stuck, letter, calling, published, cleared, owed, got>>

QueueInit ==
  /\ capacity \in Capacities
  /\ letters = <<>> /\ listeners = <<>> /\ stuck = FALSE
  /\ letter = [p \in Publishers |-> {}]
  /\ calling = [p \in Publishers |-> <<>>]
  /\ published = <<>> /\ cleared = 0
  /\ owed = [h \in Listeners |-> {}]
  /\ got = [h \in Listeners |-> <<>>]

Registered == {listeners[i] : i \in DOMAIN listeners}

OnDeadLetter(h) ==
  /\ ~stuck /\ h \notin Registered
  /\ listeners' = Append(listeners, h)
  /\ UNCHANGED <<letters, capacity, stuck, letter, calling, published, cleared, owed, got>>

\* Mutant: the newest letter makes room, not the oldest.
EvictNewest ==
  IF Len(letters) >= capacity THEN SubSeq(letters, 1, Len(letters) - 1) ELSE letters

Evict == IF Len(letters) >= capacity THEN Tail(letters) ELSE letters

Publish(p, l) ==
  /\ ~stuck /\ capacity > 0
  /\ letters' = Append(Evict, l)
  /\ letter' = [letter EXCEPT ![p] = {l}]
  /\ calling' = [calling EXCEPT ![p] = listeners]
  /\ published' = Append(published, l)
  /\ owed' = [h \in Listeners |-> IF h \in Registered THEN owed[h] \cup {l} ELSE owed[h]]
  /\ UNCHANGED <<capacity, listeners, stuck, cleared, got>>

\* letters[1:] of an empty slice panics, and nothing unlocks the mutex.
PublishPanics ==
  /\ ~stuck /\ capacity = 0
  /\ stuck' = TRUE
  /\ UNCHANGED <<letters, capacity, listeners, letter, calling, published, cleared, owed, got>>

\* Mutant: the handlers registered by now are called, not those of the copy.
CallNewest(p) ==
  LET h == listeners[Len(listeners)] IN
  /\ calling[p] # <<>>
  /\ got' = [got EXCEPT ![h] = Append(@, CHOOSE l \in letter[p] : TRUE)]
  /\ calling' = [calling EXCEPT ![p] = Tail(@)]
  /\ UNCHANGED <<letters, capacity, listeners, stuck, letter, published, cleared, owed>>

CallListener(p) ==
  LET h == Head(calling[p]) IN
  /\ calling[p] # <<>>
  /\ got' = [got EXCEPT ![h] = Append(@, CHOOSE l \in letter[p] : TRUE)]
  /\ calling' = [calling EXCEPT ![p] = Tail(@)]
  /\ UNCHANGED <<letters, capacity, listeners, stuck, letter, published, cleared, owed>>

Published(p) ==
  /\ letter[p] # {} /\ calling[p] = <<>>
  /\ letter' = [letter EXCEPT ![p] = {}]
  /\ UNCHANGED <<letters, capacity, listeners, stuck, calling, published, cleared, owed, got>>

Clear ==
  /\ ~stuck /\ letters # <<>>
  /\ letters' = <<>>
  /\ cleared' = Len(published)
  /\ UNCHANGED <<capacity, listeners, stuck, letter, calling, published, owed, got>>
=============================================================================
