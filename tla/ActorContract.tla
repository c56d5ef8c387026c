---------------------------- MODULE ActorContract ----------------------------
(***************************************************************************)
(* What an actor promises to those who hold a reference to it, whatever    *)
(* goroutines and channels it is made of: a server of commands that opens  *)
(* once, admits callers until it refuses them for good, accepts into a     *)
(* bounded queue the commands of the callers it has admitted, serves them  *)
(* one at a time in the order it accepted them, and takes up none once it  *)
(* is closing.                                                             *)
(*                                                                         *)
(* It does not promise to accept nothing once it refuses, is closing or is *)
(* closed: a caller admitted earlier may come through with its command at  *)
(* any later time, and what is left in the queue is never served.          *)
(***************************************************************************)
EXTENDS Naturals, Sequences

CONSTANTS Commands, Capacity

VARIABLES
  opened,    \* callers may be admitted
  refusing,  \* no caller is admitted any more
  closing,   \* the shutdown has been asked for, or the context has ended
  closed,    \* Done() is closed
  admitted,  \* the commands of the callers that wait for room in the queue
  queue,     \* accepted and not yet taken up, oldest first
  served,    \* taken up, in order
  busy       \* a command is being served

vars == <<opened, refusing, closing, closed, admitted, queue, served, busy>>

Init ==
  /\ opened = FALSE /\ refusing = FALSE /\ closing = FALSE /\ closed = FALSE
  /\ admitted = {} /\ queue = <<>> /\ served = <<>> /\ busy = FALSE

Open ==
  /\ ~opened
  /\ opened' = TRUE
  /\ UNCHANGED <<refusing, closing, closed, admitted, queue, served, busy>>

Admit(m) ==
  /\ opened /\ ~refusing
  /\ admitted' = admitted \cup {m}
  /\ UNCHANGED <<opened, refusing, closing, closed, queue, served, busy>>

Withdraw(m) ==
  /\ m \in admitted
  /\ admitted' = admitted \ {m}
  /\ UNCHANGED <<opened, refusing, closing, closed, queue, served, busy>>

Accept(m) ==
  /\ m \in admitted
  /\ Len(queue) < Capacity
  /\ admitted' = admitted \ {m}
  /\ queue' = Append(queue, m)
  /\ UNCHANGED <<opened, refusing, closing, closed, served, busy>>

Serve ==
  /\ opened /\ ~closing /\ ~busy
  /\ queue # <<>>
  /\ served' = Append(served, Head(queue))
  /\ queue' = Tail(queue)
  /\ busy' = TRUE
  /\ UNCHANGED <<opened, refusing, closing, closed, admitted>>

\* The command returns; one that panics makes the actor refuse callers.
Finish ==
  /\ busy
  /\ busy' = FALSE
  /\ refusing' \in {refusing, TRUE}
  /\ UNCHANGED <<opened, closing, closed, admitted, queue, served>>

Refuse ==
  /\ opened /\ ~refusing
  /\ refusing' = TRUE
  /\ UNCHANGED <<opened, closing, closed, admitted, queue, served, busy>>

Closing ==
  /\ ~closing
  /\ closing' = TRUE
  /\ UNCHANGED <<opened, refusing, closed, admitted, queue, served, busy>>

Closed ==
  /\ opened /\ refusing /\ closing /\ ~closed /\ ~busy
  /\ closed' = TRUE
  /\ UNCHANGED <<opened, refusing, closing, admitted, queue, served, busy>>

Next ==
  \/ Open \/ Serve \/ Finish \/ Refuse \/ Closing \/ Closed
  \/ \E m \in Commands : Admit(m) \/ Withdraw(m) \/ Accept(m)

Spec == Init /\ [][Next]_vars
=============================================================================
