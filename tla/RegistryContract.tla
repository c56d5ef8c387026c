-------------------------- MODULE RegistryContract ----------------------------
(***************************************************************************)
(* What the ActorSystem promises of its registry, whatever maps, slices    *)
(* and tombstones it keeps: an ordered table of named actors that closes   *)
(* once, and then gives up its actors, the last one bound first.           *)
(***************************************************************************)
EXTENDS Naturals, Sequences

CONSTANTS Names, Actors

VARIABLES
  open,    \* names may be bound and unbound
  table,   \* the bindings, oldest first
  toStop   \* once closed: the bindings whose actors have yet to be stopped

vars == <<open, table, toStop>>

Init == open = TRUE /\ table = <<>> /\ toStop = <<>>

Bound(n) == \E i \in DOMAIN table : table[i].name = n

Bind(n, a) ==
  /\ open /\ ~Bound(n)
  /\ table' = Append(table, [name |-> n, managed |-> a])
  /\ UNCHANGED <<open, toStop>>

Unbind(n) ==
  /\ open
  /\ \E i \in DOMAIN table :
       /\ table[i].name = n
       /\ table' = [k \in 1..(Len(table) - 1) |-> IF k < i THEN table[k] ELSE table[k + 1]]
  /\ UNCHANGED <<open, toStop>>

Close ==
  /\ open
  /\ open' = FALSE
  /\ table' = <<>>
  /\ toStop' = [i \in 1..Len(table) |-> table[Len(table) - i + 1]]

StopOne ==
  /\ toStop # <<>>
  /\ toStop' = Tail(toStop)
  /\ UNCHANGED <<open, table>>

Next ==
  \/ Close \/ StopOne
  \/ \E n \in Names : Unbind(n) \/ \E a \in Actors : Bind(n, a)

Spec == Init /\ [][Next]_vars
=============================================================================
