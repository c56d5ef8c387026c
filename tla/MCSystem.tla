------------------------------ MODULE MCSystem --------------------------------
EXTENDS ActorSystemProps
CONSTANTS p1, p2, l1, u1, u2, s1, w1, n1, n2

\* The users' commands are for entities of one type, the loose actors' is another.
Kinds == [x \in Actors \cup Users |-> IF x \in Loose THEN "other" ELSE "entity"]

AllCasts == {{p1, l1, u1, u2, w1}, {p1, l1, u1, s1, w1}, {p1, p2, s1}}
=============================================================================
