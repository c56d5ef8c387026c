--------------------------------- MODULE Ranks --------------------------------
(***************************************************************************)
(* The elements of a finite set of numbers in ascending order. Subsequences *)
(* are described by the set of the positions they keep: SelectSeq describes *)
(* the same, but has no definition a proof could use.                      *)
(***************************************************************************)
EXTENDS Integers, FiniteSets

\* How many elements of L there are up to n.
Rank(L, n) == Cardinality({m \in L : m <= n})

\* The k-th element of L.
Nth(L, k) == CHOOSE n \in {m \in L : Rank(L, m) = k} : TRUE
=============================================================================
