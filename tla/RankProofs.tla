------------------------------ MODULE RankProofs ------------------------------
(***************************************************************************)
(* Lemmas about ranks in finite sets of numbers, and about what the proofs  *)
(* build on them: what happens to the order when the set grows at its end   *)
(* or loses an element.                                                    *)
(***************************************************************************)
EXTENDS Ranks, FiniteSetTheorems, SequenceTheorems, WellFoundedInduction, TLAPS

\* A set of positions, or of numbers given out in order.
Numbers(L) == L \subseteq Nat /\ IsFiniteSet(L)

LEMMA RankType ==
  ASSUME NEW L, Numbers(L), NEW n \in L
  PROVE  /\ Rank(L, n) \in 1..Cardinality(L) /\ Rank(L, n) \in Nat
         /\ Cardinality(L) \in Nat
<1> DEFINE U == {m \in L : m <= n}
<1>1. U \in SUBSET L /\ IsFiniteSet(L) /\ n \in U
  BY DEF Numbers
<1> HIDE DEF U
<1>2. /\ IsFiniteSet(U) /\ Cardinality(U) <= Cardinality(L)
      /\ Cardinality(U) \in Nat /\ Cardinality(L) \in Nat
  BY <1>1, FS_Subset, FS_CardinalityType
<1>3. Cardinality(U) # 0
  BY <1>1, <1>2, FS_EmptySet
<1>4. Rank(L, n) = Cardinality(U)
  BY DEF Rank, U
<1> QED
  BY <1>2, <1>3, <1>4

\* Ranks grow with the numbers, so that they tell them apart.
LEMMA RankGrows ==
  ASSUME NEW L, Numbers(L), NEW m \in L, NEW n \in L, m < n
  PROVE  Rank(L, m) < Rank(L, n)
<1> DEFINE U == {o \in L : o <= m}  V == {o \in L : o <= n}
<1>1. m \in Nat /\ n \in Nat /\ IsFiniteSet(L) /\ L \subseteq Nat
  BY DEF Numbers
<1>2. U \in SUBSET V /\ V \in SUBSET L /\ n \in V /\ n \notin U
  <2>1. \A o \in L : o \in Nat /\ (o <= m => o <= n)
    BY <1>1
  <2>2. U \in SUBSET V /\ V \in SUBSET L
    BY <2>1
  <2>3. n <= n /\ ~(n <= m)
    BY <1>1
  <2> QED
    BY <2>2, <2>3
<1> HIDE DEF U, V
<1>3. /\ IsFiniteSet(V) /\ Cardinality(U) <= Cardinality(V) /\ Cardinality(U) # Cardinality(V)
      /\ IsFiniteSet(U)
  BY <1>1, <1>2, FS_Subset
<1>4. Cardinality(U) \in Nat /\ Cardinality(V) \in Nat
  BY <1>3, FS_CardinalityType
<1>5. Rank(L, m) = Cardinality(U) /\ Rank(L, n) = Cardinality(V)
  BY DEF Rank, U, V
<1> QED
  BY <1>3, <1>4, <1>5

LEMMA RankInjective ==
  ASSUME NEW L, Numbers(L), NEW m \in L, NEW n \in L, Rank(L, m) = Rank(L, n)
  PROVE  m = n
<1>1. m \in Nat /\ n \in Nat /\ Rank(L, m) \in Nat
  BY RankType DEF Numbers
<1>2. ~(m < n) /\ ~(n < m)
  BY <1>1, RankGrows
<1> QED
  BY <1>1, <1>2

LEMMA NthRank ==
  ASSUME NEW L, Numbers(L), NEW n \in L
  PROVE  Nth(L, Rank(L, n)) = n
<1>1. {m \in L : Rank(L, m) = Rank(L, n)} = {n}
  BY RankInjective
<1> QED
  BY <1>1 DEF Nth

\* Every number up to the size of the set is the rank of an element.
LEMMA NthIn ==
  ASSUME NEW L, Numbers(L), NEW k \in 1..Cardinality(L)
  PROVE  Nth(L, k) \in L /\ Rank(L, Nth(L, k)) = k
<1> DEFINE c == Cardinality(L)
           f == [n \in L |-> Rank(L, n)]
<1>1. c \in Nat /\ IsFiniteSet(L) /\ IsFiniteSet(1..c) /\ Cardinality(1..c) = c
  BY FS_CardinalityType, FS_Interval DEF Numbers
<1>2. f \in [L -> 1..c]
  BY RankType
<1>3. \A m, n \in L : f[m] = f[n] => m = n
  BY RankInjective
<1> HIDE DEF f
<1>4. f \in Injection(L, 1..c)
  BY <1>2, <1>3 DEF Injection, IsInjective
<1>5. f \in Surjection(L, 1..c)
  BY <1>1, <1>4, FS_Injection
<1>6. \E n \in L : f[n] = k
  BY <1>5 DEF Surjection
<1>7. {m \in L : Rank(L, m) = k} # {}
  BY <1>6 DEF f
<1> QED
  BY <1>7 DEF Nth

\* A number above all others comes last.
LEMMA RankAdd ==
  ASSUME NEW L, Numbers(L), NEW n \in Nat, \A m \in L : m < n
  PROVE  /\ Numbers(L \cup {n}) /\ Cardinality(L \cup {n}) = Cardinality(L) + 1
         /\ Nth(L \cup {n}, Cardinality(L) + 1) = n
         /\ \A k \in 1..Cardinality(L) : Nth(L \cup {n}, k) = Nth(L, k)
<1> DEFINE M == L \cup {n}
<1>1. L \subseteq Nat /\ IsFiniteSet(L) /\ n \notin L /\ Cardinality(L) \in Nat
  BY FS_CardinalityType DEF Numbers
<1>2. Numbers(M) /\ Cardinality(M) = Cardinality(L) + 1
  BY <1>1, FS_AddElement DEF Numbers
<1>3. \A m \in L : Rank(M, m) = Rank(L, m)
  <2> TAKE m \in L
  <2>1. {o \in M : o <= m} = {o \in L : o <= m}
    BY <1>1
  <2> QED
    BY <2>1 DEF Rank
<1>4. Rank(M, n) = Cardinality(L) + 1
  <2>1. \A o \in M : o <= n
    BY <1>1
  <2>2. {o \in M : o <= n} = M
    BY <2>1
  <2> QED
    BY <1>2, <2>2 DEF Rank
<1>5. Nth(M, Cardinality(L) + 1) = n
  BY <1>2, <1>4, NthRank
<1>6. ASSUME NEW k \in 1..Cardinality(L) PROVE Nth(M, k) = Nth(L, k)
  <2>1. Nth(L, k) \in L /\ Rank(L, Nth(L, k)) = k
    BY NthIn
  <2>2. Nth(M, Rank(M, Nth(L, k))) = Nth(L, k)
    BY <1>2, <2>1, NthRank
  <2> QED
    BY <1>3, <2>1, <2>2
<1> QED
  BY <1>2, <1>5, <1>6

\* Those above an element that goes move up by one.
LEMMA RankRemove ==
  ASSUME NEW L, Numbers(L), NEW n \in L
  PROVE  /\ Numbers(L \ {n}) /\ Cardinality(L \ {n}) = Cardinality(L) - 1
         /\ \A k \in 1..(Cardinality(L) - 1) :
              Nth(L \ {n}, k) = Nth(L, IF k < Rank(L, n) THEN k ELSE k + 1)
<1> DEFINE M == L \ {n}
<1>1. L \subseteq Nat /\ IsFiniteSet(L) /\ Cardinality(L) \in Nat /\ Rank(L, n) \in Nat
  BY FS_CardinalityType, RankType DEF Numbers
<1>2. Numbers(M) /\ Cardinality(M) = Cardinality(L) - 1
  BY <1>1, FS_RemoveElement DEF Numbers
<1>3. \A m \in M : m < n => Rank(M, m) = Rank(L, m)
  <2> SUFFICES ASSUME NEW m \in M, m < n PROVE Rank(M, m) = Rank(L, m)
    OBVIOUS
  <2>1. {o \in M : o <= m} = {o \in L : o <= m}
    BY <1>1
  <2> QED
    BY <2>1 DEF Rank
<1>4. \A m \in M : n < m => Rank(M, m) = Rank(L, m) - 1
  <2> SUFFICES ASSUME NEW m \in M, n < m PROVE Rank(M, m) = Rank(L, m) - 1
    OBVIOUS
  <2> DEFINE U == {o \in L : o <= m}
  <2>1. {o \in M : o <= m} = U \ {n}
    BY <1>1
  <2>2. n \in U /\ U \in SUBSET L
    BY <1>1
  <2> HIDE DEF U
  <2>3. IsFiniteSet(U)
    BY <1>1, <2>2, FS_Subset
  <2>4. Cardinality(U \ {n}) = Cardinality(U) - 1
    BY <2>2, <2>3, FS_RemoveElement
  <2> QED
    BY <2>1, <2>4 DEF Rank, U
<1>5. ASSUME NEW k \in 1..(Cardinality(L) - 1)
      PROVE  Nth(M, k) = Nth(L, IF k < Rank(L, n) THEN k ELSE k + 1)
  <2> DEFINE j == IF k < Rank(L, n) THEN k ELSE k + 1
             m == Nth(L, j)
  <2>1. j \in 1..Cardinality(L) /\ j # Rank(L, n) /\ k \in Nat
    BY <1>1
  <2>2. j < Rank(L, n) => k = j
    BY <1>1, <2>1
  <2>3. ~(j < Rank(L, n)) => k = j - 1
    BY <1>1, <2>1
  <2> HIDE DEF j
  <2>4. m \in L /\ Rank(L, m) = j
    BY <2>1, NthIn
  <2> HIDE DEF m
  <2>5. m # n /\ m \in M /\ m \in Nat /\ n \in Nat
    BY <1>1, <2>1, <2>4
  <2>6. m < n <=> j < Rank(L, n)
    <3>1. m < n => j < Rank(L, n)
      BY <2>4, RankGrows
    <3>2. n < m => Rank(L, n) < j
      BY <2>4, RankGrows
    <3>3. m < n \/ n < m
      BY <2>5
    <3>4. Rank(L, n) \in Nat /\ j \in Nat
      BY <1>1, <2>4, RankType
    <3> QED
      BY <3>1, <3>2, <3>3, <3>4
  <2>7. Rank(M, m) = k
    <3>1. CASE j < Rank(L, n)
      BY <1>3, <2>2, <2>4, <2>5, <2>6, <3>1
    <3>2. CASE ~(j < Rank(L, n))
      <4>1. n < m
        BY <2>5, <2>6, <3>2
      <4> QED
        BY <1>4, <2>3, <2>4, <2>5, <3>2, <4>1
    <3> QED
      BY <3>1, <3>2
  <2>8. Nth(M, k) = m
    BY <1>2, <2>5, <2>7, NthRank
  <2> QED
    BY <2>8 DEF m, j
<1> QED
  BY <1>2, <1>5
=============================================================================
