-------------------------- MODULE PriorityMailbox -----------------------------
(***************************************************************************)
(* The mailbox of pkg/mailbox (priority.go). Each operation is one         *)
(* critical section of its mutex. The heap, of another library, is the set *)
(* of what it holds, and its Pop takes the least element.                  *)
(***************************************************************************)
EXTENDS Naturals, FiniteSets

CONSTANT MaxSize  \* maxSize; 0 for unlimited

ASSUME MaxSizeNat == MaxSize \in Nat

VARIABLES
  heap,    \* mb.heap, a set of messages
  seq,     \* mb.seq
  notify,  \* a signal is in mb.notify, which has room for one
  closed   \* mb.closed

mailbox == <<heap, seq, notify, closed>>

Priorities == 0..3  \* System, High, Normal, Low

MailboxInit == heap = {} /\ seq = 0 /\ notify = FALSE /\ closed = FALSE

\* Mutant: the last come, first served, within a priority.
LaterFirst(a, b) ==
  a.priority < b.priority \/ (a.priority = b.priority /\ a.seq > b.seq)

\* The order given to NewHeap.
Before(a, b) ==
  a.priority < b.priority \/ (a.priority = b.priority /\ a.seq < b.seq)

Full == MaxSize > 0 /\ Cardinality(heap) >= MaxSize

\* Mutant: the signal finds no room in an unbuffered channel, and is dropped
\* unless the consumer waits for it.
SignalIfWaiting(waiting) == notify \/ waiting

\* The send that does not block: one signal is kept, whoever waits.
Signal(waiting) == TRUE

Push(e, priority, waiting) ==
  /\ ~closed /\ ~Full
  /\ seq' = seq + 1
  /\ heap' = heap \cup {[executable |-> e, priority |-> priority, seq |-> seq']}
  /\ notify' = Signal(waiting)
  /\ UNCHANGED closed

PushRefused == (closed \/ Full) /\ UNCHANGED mailbox

Pop(e) ==
  /\ \E m \in heap :
       /\ \A o \in heap \ {m} : Before(m, o)
       /\ e = m.executable
       /\ heap' = heap \ {m}
  /\ UNCHANGED <<seq, notify, closed>>

PopEmpty == heap = {} /\ UNCHANGED mailbox

\* A receive from Notify().
Notified == notify /\ notify' = FALSE /\ UNCHANGED <<heap, seq, closed>>

\* Nobody who waits for a signal is woken.
CloseMailbox == ~closed /\ closed' = TRUE /\ UNCHANGED <<heap, seq, notify>>
=============================================================================
