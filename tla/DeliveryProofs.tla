--------------------------- MODULE DeliveryProofs -----------------------------
(***************************************************************************)
(* Theorems about the worker of Delivery and its parts, for any producers, *)
(* listeners, capacities, priorities and chains of middleware.             *)
(*                                                                         *)
(* The dead letters: a message is in one place at a time (Fresh), so that  *)
(* none is published twice; a publisher that calls handlers has one letter *)
(* that those it has yet to call have not got (Called). With these, the    *)
(* letters kept (Latest) and the letters heard (Heard) are inductive.      *)
(*                                                                         *)
(* The actor: as long as nobody called Become, the handler that runs is    *)
(* the chain in its order with the body last, so that where the loop is in *)
(* it tells which middlewares a panic has passed (Guarded) and whether the *)
(* message that runs has been counted (Metering).                          *)
(*                                                                         *)
(* The mailbox: the numbers of the waiting messages tell them apart and    *)
(* grow, so that a push adds the last of its queue and a pop, which takes  *)
(* the least, the first.                                                   *)
(***************************************************************************)
EXTENDS DeliveryProps, RankProofs

Places == {"idle", "done", "reject", "notify", "panicked",
           "wait", "drain", "listen", "send", "enqueue"}

Types ==
  /\ capacity \in Nat /\ cleared \in 0..Len(published)
  /\ letters \in Seq(Producers) /\ published \in Seq(Producers)
  /\ listeners \in Seq(Listeners)
  /\ letter \in [Publishers -> SUBSET Producers]
  /\ calling \in [Publishers -> Seq(Listeners)]
  /\ owed \in [Listeners -> SUBSET Producers]
  /\ got \in [Listeners -> Seq(Producers)]
  /\ pc \in [Publishers -> Places]
  /\ hand \subseteq Producers

\* A message is with its producer, in the mailbox, with the feeder or published.
Fresh ==
  /\ \A p \in Producers : pc[p] \in {"idle", "reject"} =>
       p \notin Rng(published) /\ p \notin hand /\ \A e \in heap : e.executable # p
  /\ \A e \in heap : e.executable \notin Rng(published) /\ e.executable \notin hand
  /\ \A e, f \in heap : e.executable = f.executable => e = f
  /\ pc[Feeder] \in {"send", "enqueue", "reject"} => \A m \in hand : m \notin Rng(published)

Distinct(s) == \A i, j \in DOMAIN s : s[i] = s[j] => i = j

\* A publisher that calls handlers has one letter, its own, and each of the
\* handlers to call is to be called once, with a letter it has not got.
Called ==
  /\ Distinct(listeners)
  /\ \A p \in Publishers :
       /\ Distinct(calling[p])
       /\ pc[p] # "notify" => calling[p] = <<>> /\ letter[p] = {}
       /\ pc[p] = "notify" => \E l \in Producers : letter[p] = {l}
       /\ letter[p] \subseteq Rng(published)
       /\ \A q \in Publishers : p # q => letter[p] \cap letter[q] = {}
       /\ \A h \in Rng(calling[p]) : letter[p] \cap Rng(got[h]) = {}
  /\ \A h \in Listeners : owed[h] \subseteq Rng(published)

\* LettersAreLatest, letter by letter.
Kept == LET all == Len(published) - cleared IN IF all < capacity THEN all ELSE capacity

Latest ==
  /\ Len(letters) = Kept
  /\ \A i \in 1..Kept : letters[i] = published[(Len(published) - Kept) + i]

\* HeardOnce, letter by letter.
Heard ==
  \A h \in Listeners :
    /\ Distinct(got[h])
    /\ \A l \in Producers :
         l \in owed[h] <=> \/ l \in Rng(got[h])
                           \/ \E p \in Publishers : h \in Rng(calling[p]) /\ l \in letter[p]

IInv == Types /\ Fresh /\ Called /\ Latest /\ Heard

-----------------------------------------------------------------------------
(* Sequences                                                               *)

LEMMA RngEmpty == Rng(<<>>) = {} /\ Distinct(<<>>)
BY DEF Rng, Distinct

LEMMA RngAppend ==
  ASSUME NEW S, NEW s \in Seq(S), NEW x \in S
  PROVE  /\ Append(s, x) \in Seq(S) /\ Rng(Append(s, x)) = Rng(s) \cup {x}
         /\ Distinct(s) /\ x \notin Rng(s) => Distinct(Append(s, x))
<1>1. /\ Append(s, x) \in Seq(S) /\ Len(s) \in Nat
      /\ DOMAIN s = 1..Len(s) /\ DOMAIN Append(s, x) = 1..(Len(s) + 1)
      /\ \A i \in 1..Len(s) : Append(s, x)[i] = s[i]
      /\ Append(s, x)[Len(s) + 1] = x
  BY AppendProperties, LenProperties
<1>2. \A i \in DOMAIN Append(s, x) : i \in DOMAIN s \/ i = Len(s) + 1
  BY <1>1
<1>3. Len(s) + 1 \in DOMAIN Append(s, x) /\ \A i \in DOMAIN s : i \in DOMAIN Append(s, x)
  BY <1>1
<1>4. Rng(Append(s, x)) = Rng(s) \cup {x}
  BY <1>1, <1>2, <1>3 DEF Rng
<1>5. ASSUME Distinct(s), x \notin Rng(s) PROVE Distinct(Append(s, x))
  BY <1>1, <1>2, <1>5 DEF Rng, Distinct
<1> QED
  BY <1>1, <1>4, <1>5

LEMMA RngTail ==
  ASSUME NEW S, NEW s \in Seq(S), s # <<>>
  PROVE  /\ Tail(s) \in Seq(S) /\ Head(s) \in S
         /\ Distinct(s) => Distinct(Tail(s)) /\ Rng(s) = Rng(Tail(s)) \cup {Head(s)}
                             /\ Head(s) \notin Rng(Tail(s))
<1>1. /\ Head(s) \in S /\ Tail(s) \in Seq(S) /\ Head(s) = s[1]
      /\ Len(s) \in Nat \ {0} /\ Len(Tail(s)) = Len(s) - 1
      /\ DOMAIN s = 1..Len(s) /\ DOMAIN Tail(s) = 1..(Len(s) - 1)
      /\ \A i \in 1..(Len(s) - 1) : Tail(s)[i] = s[i + 1]
  BY HeadTailProperties, LenProperties, EmptySeq
<1>2. \A i \in DOMAIN Tail(s) : i \in Nat /\ i + 1 \in DOMAIN s /\ i + 1 # 1
  BY <1>1
<1>3. \A i \in DOMAIN s : i = 1 \/ (i - 1 \in DOMAIN Tail(s) /\ Tail(s)[i - 1] = s[i])
  BY <1>1
<1>4. 1 \in DOMAIN s /\ \A i, j \in DOMAIN Tail(s) : i + 1 = j + 1 => i = j
  BY <1>1
<1>5. Rng(s) = Rng(Tail(s)) \cup {Head(s)}
  <2>1. \A i \in DOMAIN s : s[i] = Head(s) \/ s[i] \in Rng(Tail(s))
    BY <1>1, <1>3 DEF Rng
  <2>2. \A i \in DOMAIN Tail(s) : Tail(s)[i] \in Rng(s)
    BY <1>1, <1>2 DEF Rng
  <2>3. Head(s) \in Rng(s)
    BY <1>1, <1>4 DEF Rng
  <2> QED
    BY <2>1, <2>2, <2>3 DEF Rng
<1>6. ASSUME Distinct(s) PROVE Distinct(Tail(s)) /\ Head(s) \notin Rng(Tail(s))
  BY <1>1, <1>2, <1>4, <1>6 DEF Rng, Distinct
<1> QED
  BY <1>1, <1>5, <1>6

-----------------------------------------------------------------------------
(* The steps                                                               *)

LEMMA Who == /\ Feeder \in Publishers /\ Feeder \notin Producers
             /\ \A p \in Producers : p \in Publishers
             /\ \A p \in Publishers : p \in Producers \/ p = Feeder
BY PublishersAre

\* A step that leaves the dead letters alone preserves IInv if it keeps the
\* messages apart and neither begins nor ends a notification.
LEMMA Quiet ==
  ASSUME IInv, UNCHANGED dlq, pc' \in [Publishers -> Places], hand' \subseteq Producers,
         \A p \in Publishers : pc'[p] = "notify" <=> pc[p] = "notify",
         Fresh'
  PROVE  IInv'
<1>1. Types' /\ Latest' /\ Heard'
  BY DEF IInv, dlq, Types, Latest, Kept, Heard
<1>2. Called'
  BY DEF IInv, dlq, Called
<1> QED
  BY <1>1, <1>2 DEF IInv

LEMMA ProduceInv == ASSUME IInv, NEW p \in Producers, Produce(p) PROVE IInv'
<1>1. Types /\ Fresh /\ pc[p] = "idle" /\ p \in Publishers /\ p # Feeder
  BY Who DEF IInv, Produce
<1>2. UNCHANGED dlq /\ hand' = hand /\ \E to \in {"done", "reject"} : pc' = [pc EXCEPT ![p] = to]
  BY DEF Produce, Goto
<1>3. /\ pc' \in [Publishers -> Places] /\ pc'[p] \in {"done", "reject"}
      /\ \A q \in Publishers : q # p => pc'[q] = pc[q]
  BY <1>1, <1>2 DEF Types, Places
<1>4. published' = published
  BY <1>2 DEF dlq
<1>5. p \notin Rng(published) /\ p \notin hand /\ \A e \in heap : e.executable # p
  BY <1>1 DEF Fresh
<1>6. Fresh'
  <2>1. CASE heap' = heap /\ pc' = [pc EXCEPT ![p] = "reject"]
    BY <1>1, <1>2, <1>3, <1>4, <2>1, Who DEF Fresh
  <2>2. CASE Push(p, PriorityOf[p], pc[Feeder] = "wait") /\ Goto(p, "done")
    <3> DEFINE new == [executable |-> p, priority |-> PriorityOf[p], seq |-> seq']
    <3>1. heap' = heap \cup {new} /\ new.executable = p /\ pc'[p] = "done"
      BY <1>1, <2>2 DEF Push, Goto, Types
    <3> HIDE DEF new
    <3> QED
      BY <1>1, <1>2, <1>3, <1>4, <1>5, <3>1, Who DEF Fresh
  <2> QED
    BY <2>1, <2>2 DEF Produce, PushRefused, mailbox, Goto
<1> QED
  BY <1>1, <1>2, <1>3, <1>6, Quiet DEF Types

LEMMA FeedInv == ASSUME IInv, Feed PROVE IInv'
<1>1. Types /\ Fresh /\ Feeder \in Publishers
  BY Who DEF IInv
<1>2. UNCHANGED dlq /\ published' = published
  BY DEF Feed, FeederWakes, FeederPops, FeederListens, FeederSends, FeederHandsOff, dlq
<1>3. /\ pc[Feeder] \in {"wait", "drain", "listen", "send", "enqueue"}
      /\ \E to \in {"drain", "send", "listen", "wait", "enqueue", "reject"} : Goto(Feeder, to)
  BY DEF Feed, FeederWakes, FeederPops, FeederListens, FeederSends, FeederHandsOff
<1>4. /\ pc' \in [Publishers -> Places] /\ pc'[Feeder] # "notify"
      /\ \A p \in Publishers : p # Feeder => pc'[p] = pc[p]
  BY <1>1, <1>3 DEF Goto, Types, Places
<1>5. ASSUME heap' = heap, hand' = hand, pc'[Feeder] \in {"drain", "wait", "listen"}
      PROVE  IInv'
  BY <1>1, <1>2, <1>3, <1>4, <1>5, Who, Quiet DEF Fresh, Types
<1>6. ASSUME NEW m \in Producers, Pop(m), hand' = {m}, Goto(Feeder, "send") PROVE IInv'
  <2>1. PICK e \in heap : m = e.executable /\ heap' = heap \ {e}
    BY <1>6 DEF Pop
  <2>2. m \notin Rng(published) /\ \A o \in heap' : o \in heap /\ o.executable # m
    BY <1>1, <2>1 DEF Fresh
  <2>3. \A p \in Producers : pc[p] \in {"idle", "reject"} => p # m
    BY <1>1, <2>1 DEF Fresh
  <2>4. Fresh'
    BY <1>1, <1>2, <1>4, <1>6, <2>2, <2>3, Who DEF Fresh
  <2> QED
    BY <1>2, <1>3, <1>4, <1>6, <2>4, Quiet
<1>7. CASE FeederSends
  <2>1. heap' = heap /\ hand' = hand /\ pc[Feeder] = "send"
    BY <1>7 DEF FeederSends, mailbox
  <2> QED
    BY <1>1, <1>2, <1>3, <1>4, <2>1, Who, Quiet DEF Fresh, Types
<1>8. CASE FeederHandsOff
  <2>1. heap' = heap /\ hand' = {} /\ pc'[Feeder] = "drain"
    BY <1>1, <1>8 DEF FeederHandsOff, mailbox, Goto, Types
  <2> QED
    BY <1>1, <1>2, <1>3, <1>4, <2>1, Who, Quiet DEF Fresh
<1>9. CASE FeederPops
  <2>1. CASE pc[Feeder] = "drain" /\ PopEmpty /\ Goto(Feeder, "listen") /\ UNCHANGED hand
    <3>1. heap' = heap /\ hand' = hand /\ pc'[Feeder] = "listen"
      BY <1>1, <2>1 DEF PopEmpty, mailbox, Goto, Types
    <3> QED
      BY <1>5, <3>1
  <2> QED
    BY <1>6, <1>9, <2>1 DEF FeederPops
<1>10. CASE FeederWakes \/ FeederListens
  <2>1. heap' = heap /\ hand' = hand /\ pc'[Feeder] \in {"drain", "wait"}
    BY <1>1, <1>10 DEF FeederWakes, FeederListens, Notified, mailbox, Goto, Types
  <2> QED
    BY <1>5, <2>1
<1>11. FeederWakes \/ FeederPops \/ FeederListens \/ FeederSends \/ FeederHandsOff
  BY DEF Feed
<1> QED
  BY <1>7, <1>8, <1>9, <1>10, <1>11

\* Steps of the loop and of those who read or close.
LEMMA OthersInv ==
  ASSUME IInv, UNCHANGED <<dlq, heap, pc, hand>>
  PROVE  IInv'
<1>1. Fresh'
  BY DEF IInv, Fresh, dlq
<1> QED
  BY <1>1, Quiet DEF IInv, Types

LEMMA OnDeadLetterInv ==
  ASSUME IInv, NEW h \in Listeners, OnDeadLetter(h), UNCHANGED <<heap, pc, hand>>
  PROVE  IInv'
<1>1. listeners' = Append(listeners, h) /\ h \notin Rng(listeners)
  BY DEF OnDeadLetter, Registered, Rng
<1>2. listeners' \in Seq(Listeners) /\ Distinct(listeners')
  BY <1>1, RngAppend DEF IInv, Types, Called
<1>3. Types' /\ Fresh' /\ Latest' /\ Heard'
  BY <1>2 DEF IInv, OnDeadLetter, Types, Fresh, Latest, Kept, Heard
<1>4. Called'
  BY <1>2 DEF IInv, OnDeadLetter, Called
<1> QED
  BY <1>3, <1>4 DEF IInv

LEMMA ClearInv == ASSUME IInv, Clear, UNCHANGED <<heap, pc, hand>> PROVE IInv'
<1>1. Len(published) \in Nat /\ capacity \in Nat
  BY LenProperties DEF IInv, Types
<1>2. letters' = <<>> /\ cleared' = Len(published) /\ published' = published /\ capacity' = capacity
  BY DEF Clear
<1>3. Types'
  BY <1>1, <1>2, EmptySeq DEF IInv, Clear, Types
<1>4. Kept' = 0
  BY <1>1, <1>2 DEF Kept
<1>5. Latest'
  BY <1>2, <1>4 DEF Latest
<1>6. Fresh' /\ Heard'
  BY DEF IInv, Clear, Fresh, Heard
<1>7. Called'
  BY DEF IInv, Clear, Called
<1> QED
  BY <1>3, <1>5, <1>6, <1>7 DEF IInv

-----------------------------------------------------------------------------
\* What Publish does to the letters that are kept.
LEMMA PublishLatest ==
  ASSUME Types, Latest, NEW l \in Producers, capacity > 0,
         letters' = Append(Evict, l), published' = Append(published, l),
         UNCHANGED <<capacity, cleared>>
  PROVE  Latest' /\ letters' \in Seq(Producers) /\ published' \in Seq(Producers)
         /\ cleared' \in 0..Len(published')
<1> DEFINE n == Len(published)  k == Kept
<1>1. /\ n \in Nat /\ cleared \in 0..n /\ capacity \in Nat /\ capacity > 0
      /\ published' \in Seq(Producers) /\ Len(published') = n + 1
      /\ \A i \in 1..n : published'[i] = published[i]
      /\ published'[n + 1] = l
  BY AppendProperties, LenProperties DEF Types
<1>2. k \in Nat /\ k <= capacity /\ k <= n /\ (k < capacity => k = n - cleared)
  BY <1>1 DEF Kept
<1>3. Len(letters) = k /\ \A i \in 1..k : letters[i] = published[(n - k) + i]
  BY DEF Latest
<1>4. CASE k < capacity
  <2>1. Evict = letters /\ Kept' = k + 1
    BY <1>1, <1>2, <1>3, <1>4 DEF Evict, Kept
  <2>2. /\ letters' \in Seq(Producers) /\ Len(letters') = k + 1 /\ letters'[k + 1] = l
        /\ \A i \in 1..k : letters'[i] = letters[i]
    BY <1>3, <2>1, AppendProperties DEF Types
  <2>3. ASSUME NEW i \in 1..(k + 1) PROVE letters'[i] = published'[((n + 1) - (k + 1)) + i]
    <3>1. CASE i = k + 1
      <4>1. ((n + 1) - (k + 1)) + i = n + 1
        BY <1>1, <1>2, <3>1
      <4> QED
        BY <1>1, <2>2, <3>1, <4>1
    <3>2. CASE i # k + 1
      <4>1. i \in 1..k /\ ((n + 1) - (k + 1)) + i = (n - k) + i /\ (n - k) + i \in 1..n
        BY <1>1, <1>2, <3>2
      <4> QED
        BY <1>1, <1>3, <2>2, <4>1
    <3> QED
      BY <3>1, <3>2
  <2>4. Len(letters') = Kept' /\ Len(published') - Kept' = (n + 1) - (k + 1)
    BY <1>1, <2>1, <2>2
  <2>5. \A i \in 1..Kept' : letters'[i] = published'[(Len(published') - Kept') + i]
    BY <2>1, <2>3, <2>4
  <2>6. Latest'
    BY <2>4, <2>5 DEF Latest
  <2>7. cleared' = cleared /\ cleared \in 0..(n + 1)
    BY <1>1
  <2> QED
    BY <1>1, <2>2, <2>6, <2>7
<1>5. CASE ~(k < capacity)
  <2>1. k = capacity /\ k \in Nat \ {0} /\ n - cleared >= capacity
    BY <1>1, <1>2, <1>5 DEF Kept
  <2>2. Evict = Tail(letters) /\ Kept' = k /\ letters # <<>>
    BY <1>1, <1>3, <2>1, EmptySeq DEF Evict, Kept
  <2>3. /\ Tail(letters) \in Seq(Producers) /\ Len(Tail(letters)) = k - 1
        /\ \A i \in 1..(k - 1) : Tail(letters)[i] = letters[i + 1]
    BY <1>3, <2>2, HeadTailProperties DEF Types
  <2>4. /\ letters' \in Seq(Producers) /\ Len(letters') = k /\ letters'[k] = l
        /\ \A i \in 1..(k - 1) : letters'[i] = letters[i + 1]
    BY <2>1, <2>2, <2>3, AppendProperties
  <2>5. ASSUME NEW i \in 1..k PROVE letters'[i] = published'[((n + 1) - k) + i]
    <3>1. CASE i = k
      <4>1. ((n + 1) - k) + i = n + 1
        BY <1>1, <2>1, <3>1
      <4> QED
        BY <1>1, <2>4, <3>1, <4>1
    <3>2. CASE i # k
      <4>1. i \in 1..(k - 1) /\ i + 1 \in 1..k /\ ((n + 1) - k) + i = (n - k) + (i + 1)
            /\ (n - k) + (i + 1) \in 1..n
        BY <1>1, <1>2, <2>1, <3>2
      <4> QED
        BY <1>1, <1>3, <2>4, <4>1
    <3> QED
      BY <3>1, <3>2
  <2>6. Len(letters') = Kept' /\ Len(published') - Kept' = (n + 1) - k
    BY <1>1, <2>2, <2>4
  <2>7. \A i \in 1..Kept' : letters'[i] = published'[(Len(published') - Kept') + i]
    BY <2>2, <2>5, <2>6
  <2>8. Latest'
    BY <2>6, <2>7 DEF Latest
  <2>9. cleared' = cleared /\ cleared \in 0..(n + 1)
    BY <1>1
  <2> QED
    BY <1>1, <2>4, <2>8, <2>9
<1> QED
  BY <1>4, <1>5

LEMMA PublishInv ==
  ASSUME IInv, NEW p \in Publishers, NEW l \in Producers, pc[p] = "reject",
         p = Feeder => l \in hand, p # Feeder => l = p,
         Publish(p, l), Goto(p, "notify"), UNCHANGED <<heap, hand>>
  PROVE  IInv'
<1>1. Types /\ Fresh /\ Called /\ Latest /\ Heard
  BY DEF IInv
<1>2. /\ Latest' /\ letters' \in Seq(Producers) /\ published' \in Seq(Producers)
      /\ cleared' \in 0..Len(published')
  BY <1>1, PublishLatest DEF Publish
<1>3. Rng(published') = Rng(published) \cup {l}
  BY <1>1, RngAppend DEF Types, Publish
<1>4. /\ letter[p] = {} /\ l \notin Rng(published)
  BY <1>1, Who DEF Called, Fresh
<1>5. /\ pc' \in [Publishers -> Places] /\ pc'[p] = "notify"
      /\ \A q \in Publishers : q # p => pc'[q] = pc[q]
  BY <1>1 DEF Types, Goto, Places
<1>6. /\ letter' \in [Publishers -> SUBSET Producers] /\ letter'[p] = {l}
      /\ calling' \in [Publishers -> Seq(Listeners)] /\ calling'[p] = listeners
      /\ \A q \in Publishers : q # p => letter'[q] = letter[q] /\ calling'[q] = calling[q]
  BY <1>1 DEF Types, Publish
<1>7. /\ owed' \in [Listeners -> SUBSET Producers]
      /\ \A h \in Listeners :
           owed'[h] = IF h \in Rng(listeners) THEN owed[h] \cup {l} ELSE owed[h]
  BY <1>1 DEF Types, Publish, Registered, Rng
<1>8. UNCHANGED <<capacity, listeners, got>>
  BY DEF Publish
<1>9. \A h \in Listeners : l \notin owed[h] /\ l \notin Rng(got[h])
  BY <1>1, <1>4 DEF Called, Heard
<1>10. \A q \in Publishers : l \notin letter[q]
  BY <1>1, <1>4 DEF Called
<1>11. Types'
  BY <1>1, <1>2, <1>5, <1>6, <1>7, <1>8 DEF Types
<1>12. Fresh'
  <2>1. \A e \in heap : e.executable # l
    BY <1>1, Who DEF Fresh
  <2>2. \A q \in Producers : pc'[q] \in {"idle", "reject"} => pc[q] = pc'[q] /\ q # l
    BY <1>1, <1>5, Who DEF Fresh
  <2>3. pc'[Feeder] \in {"send", "enqueue", "reject"} => l \notin hand /\ pc[Feeder] = pc'[Feeder]
    BY <1>1, <1>5, Who DEF Fresh
  <2> QED
    BY <1>1, <1>3, <2>1, <2>2, <2>3 DEF Fresh
<1>13. Called'
  <2>1. \A h \in Rng(listeners) : h \in Listeners
    BY <1>1, ElementOfSeq, LenProperties DEF Types, Rng
  <2>2. \A q \in Publishers :
          /\ Distinct(calling'[q])
          /\ pc'[q] # "notify" => calling'[q] = <<>> /\ letter'[q] = {}
          /\ pc'[q] = "notify" => \E m \in Producers : letter'[q] = {m}
          /\ letter'[q] \subseteq Rng(published')
          /\ \A o \in Publishers : q # o => letter'[q] \cap letter'[o] = {}
          /\ \A h \in Rng(calling'[q]) : letter'[q] \cap Rng(got[h]) = {}
    <3> SUFFICES ASSUME NEW q \in Publishers
                 PROVE  /\ Distinct(calling'[q])
                        /\ pc'[q] # "notify" => calling'[q] = <<>> /\ letter'[q] = {}
                        /\ pc'[q] = "notify" => \E m \in Producers : letter'[q] = {m}
                        /\ letter'[q] \subseteq Rng(published')
                        /\ \A o \in Publishers : q # o => letter'[q] \cap letter'[o] = {}
                        /\ \A h \in Rng(calling'[q]) : letter'[q] \cap Rng(got[h]) = {}
      OBVIOUS
    <3>1. CASE q = p
      BY <1>1, <1>3, <1>5, <1>6, <1>9, <1>10, <2>1, <3>1 DEF Called
    <3>2. CASE q # p
      <4>1. pc'[q] = pc[q] /\ letter'[q] = letter[q] /\ calling'[q] = calling[q]
        BY <1>5, <1>6, <3>2
      <4>2. ASSUME NEW o \in Publishers, q # o PROVE letter[q] \cap letter'[o] = {}
        <5>1. CASE o = p
          BY <1>6, <1>10, <5>1
        <5>2. CASE o # p
          BY <1>1, <1>6, <4>2, <5>2 DEF Called
        <5> QED
          BY <5>1, <5>2
      <4>3. /\ Distinct(calling[q])
            /\ pc[q] # "notify" => calling[q] = <<>> /\ letter[q] = {}
            /\ pc[q] = "notify" => \E m \in Producers : letter[q] = {m}
            /\ letter[q] \subseteq Rng(published)
            /\ \A h \in Rng(calling[q]) : letter[q] \cap Rng(got[h]) = {}
        BY <1>1 DEF Called
      <4> QED
        BY <1>3, <4>1, <4>2, <4>3
    <3> QED
      BY <3>1, <3>2
  <2>3. \A h \in Listeners : owed'[h] \subseteq Rng(published')
    BY <1>1, <1>3, <1>7 DEF Called
  <2> QED
    BY <1>1, <1>8, <2>2, <2>3 DEF Called
<1>14. Heard'
  <2> SUFFICES ASSUME NEW h \in Listeners, NEW m \in Producers
               PROVE  m \in owed'[h] <=>
                        \/ m \in Rng(got[h])
                        \/ \E q \in Publishers : h \in Rng(calling'[q]) /\ m \in letter'[q]
    BY <1>1, <1>8 DEF Heard
  <2>1. m \in owed'[h] <=> m \in owed[h] \/ (m = l /\ h \in Rng(listeners))
    BY <1>7
  <2>2. (\E q \in Publishers : h \in Rng(calling'[q]) /\ m \in letter'[q]) <=>
          \/ \E q \in Publishers : h \in Rng(calling[q]) /\ m \in letter[q]
          \/ h \in Rng(listeners) /\ m = l
    BY <1>4, <1>6
  <2> QED
    BY <1>1, <2>1, <2>2 DEF Heard
<1> QED
  BY <1>2, <1>11, <1>12, <1>13, <1>14 DEF IInv

LEMMA CallListenerInv ==
  ASSUME IInv, NEW p \in Publishers, pc[p] = "notify", CallListener(p),
         UNCHANGED <<heap, pc, hand>>
  PROVE  IInv'
<1>1. Types /\ Fresh /\ Called /\ Latest /\ Heard
  BY DEF IInv
<1> DEFINE h0 == Head(calling[p])
<1>2. /\ UNCHANGED <<letters, capacity, listeners, letter, published, cleared, owed>>
      /\ calling[p] # <<>> /\ calling' = [calling EXCEPT ![p] = Tail(@)]
      /\ got' = [got EXCEPT ![h0] = Append(@, CHOOSE l \in letter[p] : TRUE)]
  BY DEF CallListener
<1>3. PICK l \in Producers : letter[p] = {l}
  BY <1>1 DEF Called
<1>4. (CHOOSE x \in letter[p] : TRUE) = l
  BY <1>3
<1>5. /\ calling[p] \in Seq(Listeners) /\ Distinct(calling[p])
      /\ h0 \in Listeners /\ Tail(calling[p]) \in Seq(Listeners) /\ Distinct(Tail(calling[p]))
      /\ Rng(calling[p]) = Rng(Tail(calling[p])) \cup {h0} /\ h0 \notin Rng(Tail(calling[p]))
  BY <1>1, <1>2, RngTail DEF Types, Called
<1>6. /\ calling' \in [Publishers -> Seq(Listeners)] /\ calling'[p] = Tail(calling[p])
      /\ \A q \in Publishers : q # p => calling'[q] = calling[q]
  BY <1>1, <1>2, <1>5 DEF Types
<1> HIDE DEF h0
<1>7. l \notin Rng(got[h0]) /\ l \in owed[h0]
  BY <1>1, <1>3, <1>5 DEF Called, Heard
<1>8. /\ Append(got[h0], l) \in Seq(Producers) /\ Distinct(Append(got[h0], l))
      /\ Rng(Append(got[h0], l)) = Rng(got[h0]) \cup {l}
  BY <1>1, <1>5, <1>7, RngAppend DEF Types, Heard
<1>9. /\ got' \in [Listeners -> Seq(Producers)] /\ got'[h0] = Append(got[h0], l)
      /\ \A h \in Listeners : h # h0 => got'[h] = got[h]
  BY <1>1, <1>2, <1>4, <1>5, <1>8 DEF Types
<1>10. Types' /\ Fresh' /\ Latest'
  BY <1>1, <1>2, <1>6, <1>9 DEF Types, Fresh, Latest, Kept
<1>11. Called'
  <2>1. ASSUME NEW q \in Publishers
        PROVE  /\ Distinct(calling'[q])
               /\ pc[q] # "notify" => calling'[q] = <<>>
               /\ \A h \in Rng(calling'[q]) : letter[q] \cap Rng(got'[h]) = {}
    <3>0. \A h \in Rng(calling[q]) : h \in Listeners
      BY <1>1, ElementOfSeq, LenProperties DEF Types, Rng
    <3>1. CASE q = p
      BY <1>1, <1>5, <1>6, <1>9, <3>0, <3>1 DEF Called
    <3>2. CASE q # p
      <4>1. l \notin letter[q]
        BY <1>1, <1>3, <3>2 DEF Called
      <4>2. calling'[q] = calling[q]
        BY <1>6, <3>2
      <4>3. /\ Distinct(calling[q])
            /\ pc[q] # "notify" => calling[q] = <<>>
            /\ \A h \in Rng(calling[q]) : letter[q] \cap Rng(got[h]) = {}
        BY <1>1 DEF Called
      <4>4. ASSUME NEW h \in Rng(calling[q]) PROVE letter[q] \cap Rng(got'[h]) = {}
        <5>1. h \in Listeners /\ letter[q] \cap Rng(got[h]) = {}
          BY <3>0, <4>3
        <5>2. CASE h = h0
          BY <1>8, <1>9, <4>1, <5>1, <5>2
        <5>3. CASE h # h0
          BY <1>9, <5>1, <5>3
        <5> QED
          BY <5>2, <5>3
      <4> QED
        BY <4>2, <4>3, <4>4
    <3> QED
      BY <3>1, <3>2
  <2> QED
    BY <1>1, <1>2, <2>1 DEF Called
<1>12. Heard'
  <2> SUFFICES ASSUME NEW h \in Listeners
               PROVE  /\ Distinct(got'[h])
                      /\ \A m \in Producers :
                           m \in owed[h] <=>
                             \/ m \in Rng(got'[h])
                             \/ \E q \in Publishers : h \in Rng(calling'[q]) /\ m \in letter[q]
    BY <1>2 DEF Heard
  <2>1. CASE h # h0
    <3>1. \A q \in Publishers : h \in Rng(calling'[q]) <=> h \in Rng(calling[q])
      BY <1>5, <1>6, <2>1
    <3> QED
      BY <1>1, <1>9, <2>1, <3>1 DEF Heard
  <2>2. CASE h = h0
    <3>1. \A q \in Publishers : h \in Rng(calling'[q]) <=> h \in Rng(calling[q]) /\ q # p
      BY <1>5, <1>6, <2>2
    <3>2. h \in Rng(calling[p])
      BY <1>5, <2>2
    <3> QED
      BY <1>1, <1>3, <1>8, <1>9, <2>2, <3>1, <3>2 DEF Heard
  <2> QED
    BY <2>1, <2>2
<1> QED
  BY <1>10, <1>11, <1>12 DEF IInv

LEMMA RejectedInv == ASSUME IInv, NEW p \in Publishers, Rejected(p) PROVE IInv'
<1>1. Types /\ Fresh /\ Called /\ Latest /\ Heard
  BY DEF IInv
<1>2. /\ UNCHANGED <<letters, capacity, listeners, calling, published, cleared, owed, got, heap>>
      /\ letter' = [letter EXCEPT ![p] = {}] /\ calling[p] = <<>> /\ pc[p] = "notify"
      /\ hand' \in {{}, hand} /\ \E to \in {"done", "drain"} : pc' = [pc EXCEPT ![p] = to]
      /\ p = Feeder => pc' = [pc EXCEPT ![p] = "drain"]
  BY DEF Rejected, Published, mailbox, Goto
<1>3. /\ pc' \in [Publishers -> Places] /\ pc'[p] \in {"done", "drain"}
      /\ \A q \in Publishers : q # p => pc'[q] = pc[q]
  BY <1>1, <1>2 DEF Types, Places
<1>4. /\ letter' \in [Publishers -> SUBSET Producers] /\ letter'[p] = {}
      /\ \A q \in Publishers : q # p => letter'[q] = letter[q]
  BY <1>1, <1>2 DEF Types
<1>5. Types' /\ Latest'
  BY <1>1, <1>2, <1>3, <1>4 DEF Types, Latest, Kept
<1>6. Fresh'
  BY <1>1, <1>2, <1>3, Who DEF Fresh
<1>7. Called'
  BY <1>1, <1>2, <1>3, <1>4 DEF Called
<1>8. Heard'
  <2>1. \A h \in Listeners, q \in Publishers, m \in Producers :
          h \in Rng(calling[q]) /\ m \in letter'[q] <=> h \in Rng(calling[q]) /\ m \in letter[q]
    BY <1>2, <1>4, RngEmpty
  <2> QED
    BY <1>1, <1>2, <2>1 DEF Heard
<1> QED
  BY <1>5, <1>6, <1>7, <1>8 DEF IInv

LEMMA RejectInv == ASSUME IInv, NEW p \in Publishers, Reject(p) PROVE IInv'
<1>1. ASSUME NEW l \in (IF p = Feeder THEN hand ELSE {p}), Publish(p, l), Goto(p, "notify") PROVE IInv'
  <2>1. l \in Producers /\ (p = Feeder => l \in hand) /\ (p # Feeder => l = p)
    BY <1>1, Who DEF IInv, Types
  <2> QED
    BY <1>1, <2>1, PublishInv DEF Reject, mailbox
<1>2. CASE PublishPanics /\ Goto(p, "panicked")
  <2>1. UNCHANGED <<letters, capacity, listeners, letter, calling, published, cleared,
                    owed, got, heap, hand>>
    BY <1>2 DEF Reject, PublishPanics, mailbox
  <2>2. /\ pc' \in [Publishers -> Places] /\ pc[p] = "reject" /\ pc'[p] = "panicked"
        /\ \A q \in Publishers : q # p => pc'[q] = pc[q]
    BY <1>2 DEF IInv, Types, Places, Goto, Reject
  <2>3. Types' /\ Latest' /\ Heard'
    BY <2>1, <2>2 DEF IInv, Types, Latest, Kept, Heard
  <2>4. Fresh'
    BY <2>1, <2>2, Who DEF IInv, Fresh
  <2>5. Called'
    BY <2>1, <2>2 DEF IInv, Called
  <2> QED
    BY <2>3, <2>4, <2>5 DEF IInv
<1> QED
  BY <1>1, <1>2 DEF Reject

-----------------------------------------------------------------------------
(* Theorems                                                                *)

LEMMA InitInv == Init => IInv
<1> SUFFICES ASSUME Init PROVE IInv
  OBVIOUS
<1>1. \A S : <<>> \in Seq(S)
  BY EmptySeq
<1>2. Rng(<<>>) = {} /\ Distinct(<<>>) /\ Len(<<>>) = 0
  BY RngEmpty
<1>3. /\ pc \in [Publishers -> {"wait", "idle"}] /\ pc[Feeder] = "wait"
      /\ hand = {} /\ heap = {}
  BY Who DEF Init, MailboxInit
<1>4. /\ capacity \in Nat /\ letters = <<>> /\ listeners = <<>> /\ published = <<>> /\ cleared = 0
      /\ letter = [p \in Publishers |-> {}] /\ calling = [p \in Publishers |-> <<>>]
      /\ owed = [h \in Listeners |-> {}] /\ got = [h \in Listeners |-> <<>>]
  BY CapacitiesNat DEF Init, QueueInit
<1>5. Types
  BY <1>1, <1>2, <1>3, <1>4 DEF Types, Places
<1>6. Fresh
  BY <1>2, <1>3, <1>4 DEF Fresh
<1>7. Called
  BY <1>2, <1>3, <1>4 DEF Called
<1>8. Latest
  BY <1>2, <1>4 DEF Latest, Kept
<1>9. Heard
  BY <1>2, <1>4 DEF Heard
<1> QED
  BY <1>5, <1>6, <1>7, <1>8, <1>9 DEF IInv

LEMMA StepInv == IInv /\ [Next]_vars => IInv'
<1> SUFFICES ASSUME IInv, [Next]_vars PROVE IInv'
  OBVIOUS
<1>1. CASE UNCHANGED vars
  BY <1>1, OthersInv DEF vars, mailbox
<1>2. ASSUME NEW p \in Producers, Produce(p) PROVE IInv'
  BY <1>2, ProduceInv
<1>3. ASSUME NEW p \in Publishers, Publishing(p) PROVE IInv'
  <2>1. NotifyListener(p) => IInv'
    BY CallListenerInv DEF NotifyListener, mailbox
  <2> QED
    BY <1>3, <2>1, RejectInv, RejectedInv DEF Publishing
<1>4. CASE LoopHandles
  BY <1>4, OthersInv DEF LoopHandles, mailbox
<1>5. CASE Queries
  <2>1. ASSUME NEW h \in Listeners, OnDeadLetter(h), UNCHANGED <<mailbox, pipeline, pc, hand, ran>>
        PROVE  IInv'
    BY <2>1, OnDeadLetterInv DEF mailbox
  <2>2. CASE Clear /\ UNCHANGED <<mailbox, pipeline, pc, hand, ran>>
    BY <2>2, ClearInv DEF mailbox
  <2>3. CASE UNCHANGED <<dlq, pc, hand, heap>>
    BY <2>3, OthersInv
  <2> QED
    BY <1>5, <2>1, <2>2, <2>3 DEF Queries, CloseMailbox, mailbox
<1> QED
  BY <1>1, <1>2, <1>3, <1>4, <1>5, FeedInv DEF Next

\* Messages stay apart and letters go where they are owed, in every state.
THEOREM Invariant == Spec => []IInv
BY InitInv, StepInv, PTL DEF Spec

\* The dead letter queue holds the latest letters since it was cleared, as many
\* as it has room for, for any number of concurrent publishers and any capacity.
THEOREM TheLatestAreKept == Spec => []LettersAreLatest
<1>1. IInv => LettersAreLatest
  <2> SUFFICES ASSUME IInv PROVE LettersAreLatest
    OBVIOUS
  <2> DEFINE n == Len(published)  k == Kept
  <2>1. /\ n \in Nat /\ cleared \in 0..n /\ capacity \in Nat
        /\ published \in Seq(Producers) /\ letters \in Seq(Producers)
    BY LenProperties DEF IInv, Types
  <2>2. k \in Nat /\ k <= n
    BY <2>1 DEF Kept
  <2>3. \A i \in (n - k + 1)..n : i \in 1..n /\ published[i] \in Producers
    BY <2>1, <2>2, ElementOfSeq
  <2>4. /\ SubSeq(published, n - k + 1, n) \in Seq(Producers)
        /\ Len(SubSeq(published, n - k + 1, n)) = k
        /\ \A i \in 1..k : SubSeq(published, n - k + 1, n)[i] = published[(n - k) + i]
    <3>1. n - k + 1 \in Int /\ n \in Int
      BY <2>1, <2>2
    <3>2. /\ SubSeq(published, n - k + 1, n) \in Seq(Producers)
          /\ Len(SubSeq(published, n - k + 1, n)) =
               IF n - k + 1 <= n THEN n - (n - k + 1) + 1 ELSE 0
          /\ \A i \in 1..(n - (n - k + 1) + 1) :
               SubSeq(published, n - k + 1, n)[i] = published[(n - k + 1) + i - 1]
      BY <2>3, <3>1, SubSeqProperties
    <3>3. n - (n - k + 1) + 1 = k /\ \A i \in 1..k : (n - k + 1) + i - 1 = (n - k) + i
      BY <2>1, <2>2
    <3> QED
      BY <2>1, <2>2, <3>2, <3>3
  <2>5. Len(letters) = k /\ \A i \in 1..k : letters[i] = published[(n - k) + i]
    BY DEF IInv, Latest
  <2>6. letters = SubSeq(published, n - k + 1, n)
    BY <2>1, <2>4, <2>5, SeqEqual
  <2> QED
    BY <2>6 DEF LettersAreLatest, Kept
<1> QED
  BY Invariant, <1>1, PTL

\* A handler is called once for each letter published since it was registered,
\* though publishers call copies of the list of handlers at the same time.
THEOREM EachHearsOnce == Spec => []HeardOnce
<1>1. IInv => HeardOnce
  <2> SUFFICES ASSUME IInv, NEW h \in Listeners
               PROVE  /\ \A i, j \in DOMAIN got[h] : got[h][i] = got[h][j] => i = j
                      /\ Rng(got[h]) \subseteq owed[h]
                      /\ owed[h] = Rng(got[h]) \cup
                           UNION {letter[p] : p \in {q \in Publishers : h \in Rng(calling[q])}}
    BY DEF HeardOnce
  <2>1. /\ \A m \in Rng(got[h]) : m \in Producers
        /\ owed[h] \subseteq Producers /\ \A p \in Publishers : letter[p] \subseteq Producers
    BY ElementOfSeq, LenProperties DEF IInv, Types, Rng
  <2>2. /\ Distinct(got[h])
        /\ \A l \in Producers :
             l \in owed[h] <=> \/ l \in Rng(got[h])
                               \/ \E p \in Publishers : h \in Rng(calling[p]) /\ l \in letter[p]
    BY DEF IInv, Heard
  <2>3. owed[h] = Rng(got[h]) \cup
          UNION {letter[p] : p \in {q \in Publishers : h \in Rng(calling[q])}}
    BY <2>1, <2>2
  <2> QED
    BY <2>2, <2>3 DEF Distinct
<1> QED
  BY Invariant, <1>1, PTL

-----------------------------------------------------------------------------
(* The behaviours and the middleware                                       *)

\* A set of numbers that is not empty has a least element: what is left of
\* induction when it is stated without a predicate.
LEMMA Least ==
  ASSUME NEW S, S \subseteq Nat, S # {}
  PROVE  \E n \in S : \A m \in S : n <= m
<1> DEFINE R == {ss \in Nat \X Nat : ss[1] < ss[2]}
<1>1. IsWellFoundedOn(R, Nat)
  BY NatLessThanWellFounded DEF OpToRel
<1>2. \A m, n \in Nat : ~(<<m, n>> \in R) => n <= m
  OBVIOUS
<1> HIDE DEF R
<1>3. \E n \in S : \A m \in S : ~(<<m, n>> \in R)
  BY <1>1, WFMin
<1> QED
  BY <1>2, <1>3

\* What Chain folds: the middlewares in the order they were given, and the base
\* handler last. So the first one is the outermost.
THEOREM ChainKeepsOrder ==
  ASSUME NEW S, NEW ms \in Seq(S)
  PROVE  Wrap(ms) = ms \o <<"body">>
<1> DEFINE n == Len(ms)
           f[i \in 1..(n + 1)] ==
             IF i > n THEN <<"body">> ELSE <<ms[i]>> \o f[i + 1]
           g == [i \in 1..(n + 1) |-> SubSeq(ms, i, n) \o <<"body">>]
<1>1. Wrap(ms) = f[1]
  BY DEF Wrap
<1>2. n \in Nat /\ SubSeq(ms, n + 1, n) = <<>> /\ SubSeq(ms, 1, n) = ms
  BY LenProperties, SubSeqFull, SubSeqEmpty
<1>3. ASSUME NEW i \in 1..n
      PROVE  /\ ms[i] \in S /\ SubSeq(ms, i + 1, n) \in Seq(S)
             /\ SubSeq(ms, i, n) = <<ms[i]>> \o SubSeq(ms, i + 1, n)
  <2>1. \A j \in (i + 1)..n : ms[j] \in S
    BY <1>2, ElementOfSeq
  <2> QED
    BY <1>2, <2>1, ElementOfSeq, SubSeqRecursiveFirst, SubSeqProperties
<1>4. \A i \in 1..(n + 1) : g[i] = IF i > n THEN <<"body">> ELSE <<ms[i]>> \o g[i + 1]
  <2> SUFFICES ASSUME NEW i \in 1..(n + 1)
               PROVE  g[i] = IF i > n THEN <<"body">> ELSE <<ms[i]>> \o g[i + 1]
    OBVIOUS
  <2>1. CASE i > n
    <3>1. i = n + 1
      BY <1>2, <2>1
    <3>2. <<"body">> \in Seq({"body"})
      OBVIOUS
    <3>3. <<>> \o <<"body">> = <<"body">>
      BY <3>2, ConcatEmptySeq
    <3>4. SubSeq(ms, i, n) \o <<"body">> = <<"body">>
      BY <1>2, <3>1, <3>3
    <3> QED
      BY <2>1, <3>4
  <2>2. CASE ~(i > n)
    <3>1. i \in 1..n /\ i + 1 \in 1..(n + 1)
      BY <1>2, <2>2
    <3>2. (<<ms[i]>> \o SubSeq(ms, i + 1, n)) \o <<"body">>
            = <<ms[i]>> \o (SubSeq(ms, i + 1, n) \o <<"body">>)
      <4> DEFINE X == S \cup {"body"}
      <4>1. ms[i] \in X /\ "body" \in X /\ SubSeq(ms, i + 1, n) \in Seq(X)
        BY <1>3, <3>1, SeqMonotonic
      <4>2. <<ms[i]>> \in Seq(X) /\ <<"body">> \in Seq(X)
        BY <4>1
      <4> HIDE DEF X
      <4>3. \A s, t, u \in Seq(X) : (s \o t) \o u = s \o (t \o u)
        BY ConcatAssociative, SMTT(30)
      <4> QED
        BY <4>1, <4>2, <4>3, Zenon
    <3> QED
      BY <1>3, <2>2, <3>1, <3>2
  <2> QED
    BY <2>1, <2>2
<1>5. f = [i \in 1..(n + 1) |-> IF i > n THEN <<"body">> ELSE <<ms[i]>> \o f[i + 1]]
  BY <1>4, Zenon
<1>6. g[1] = ms \o <<"body">>
  <2>1. 1 \in 1..(n + 1)
    BY <1>2
  <2>2. g[1] = SubSeq(ms, 1, n) \o <<"body">>
    BY <2>1
  <2> QED
    BY <1>2, <2>2
<1> HIDE DEF f, g, n
<1>7. ASSUME NEW i \in 1..(n + 1) PROVE f[i] = g[i]
  <2> DEFINE Wrong == {k \in 0..n : f[(n + 1) - k] # g[(n + 1) - k]}
  <2>1. ASSUME NEW k \in Wrong, \A j \in Wrong : k <= j PROVE FALSE
    <3>1. k \in 0..n /\ f[(n + 1) - k] # g[(n + 1) - k]
      BY <2>1
    <3>2. CASE k = 0
      BY <1>2, <1>4, <1>5, <3>1, <3>2
    <3>3. CASE k # 0
      <4>1. k - 1 \in 0..n /\ k - 1 \notin Wrong
        BY <1>2, <2>1, <3>1, <3>3
      <4>2. f[(n + 1) - (k - 1)] = g[(n + 1) - (k - 1)]
        BY <4>1
      <4>3. /\ (n + 1) - (k - 1) = ((n + 1) - k) + 1 /\ (n + 1) - k \in 1..(n + 1)
            /\ ~((n + 1) - k > n)
        BY <1>2, <3>1, <3>3
      <4> QED
        BY <1>4, <1>5, <3>1, <4>2, <4>3
    <3> QED
      BY <3>2, <3>3
  <2>2. Wrong \subseteq Nat
    BY <1>2
  <2>3. Wrong = {}
    BY <2>1, <2>2, Least
  <2>4. (n + 1) - i \in 0..n /\ (n + 1) - ((n + 1) - i) = i
    BY <1>2
  <2> QED
    BY <2>3, <2>4
<1> QED
  BY <1>1, <1>2, <1>6, <1>7

Ways == {"down", "return", "counted", "panic"}

PipeTypes ==
  /\ chain \in Chains /\ became \in 0..MaxBecome
  /\ stack \in Seq(Seq(Layers)) /\ stack # <<>>
  /\ handler \in Seq(Layers) /\ layer \in 0..Len(handler) /\ way \in Ways
  /\ count \in Nat /\ total \in Nat /\ average \in Nat
  /\ state \in {"Started", "Panicked"} /\ ran \in Seq(Producers)

\* A handler ends in a body, and on the way down the loop is in a layer of one.
HasBody(h) == h # <<>> /\ h[Len(h)] = "body"

Nested ==
  /\ \A k \in DOMAIN stack : HasBody(stack[k])
  /\ handler # <<>> => HasBody(handler)
  /\ handler = <<>> => way = "return"
  /\ way \in {"down", "counted"} => layer > 0

\* As long as nobody has called Become the base handler is the only one, and a
\* panic comes up to the innermost Recovery and no further.
Guarded ==
  /\ became = 0 => /\ stack = <<Wrap(chain)>> /\ handler \in {<<>>, Wrap(chain)}
                   /\ way = "panic" => \A j \in DOMAIN chain : chain[j] = "recovery" => j <= layer
  /\ state = "Panicked" /\ "recovery" \in Rng(chain) => became > 0

Counted ==
  /\ count = total + IF way = "counted" THEN 1 ELSE 0
  /\ average <= total + 1

\* The one Metrics, at i, that a panic does not pass.
MeteredAt(i) ==
  /\ i \in DOMAIN chain /\ \A k \in DOMAIN chain : chain[k] = "metrics" <=> k = i
  /\ \E j \in DOMAIN chain : i < j /\ chain[j] = "recovery"

\* It has counted the message that runs when the loop has come up past it.
CountedAt(i) ==
  IF handler = <<>> \/ way = "counted" \/ (way = "return" /\ layer < i)
  THEN count = Len(ran) ELSE count + 1 = Len(ran)

Metering ==
  became = 0 => \A i \in DOMAIN chain : MeteredAt(i) =>
                  CountedAt(i) /\ (way = "counted" => layer = i)

PInv == PipeTypes /\ Nested /\ Guarded /\ Counted /\ Metering

LEMMA BaseHandler ==
  ASSUME NEW c \in Chains
  PROVE  /\ Wrap(c) \in Seq(Layers) /\ HasBody(Wrap(c))
         /\ Len(c) \in Nat /\ DOMAIN c = 1..Len(c) /\ Len(Wrap(c)) = Len(c) + 1
         /\ Wrap(c)[Len(c) + 1] = "body"
         /\ \A i \in 1..Len(c) : Wrap(c)[i] = c[i] /\ c[i] \in Middlewares
<1>1. /\ c \in Seq(Middlewares) /\ c \in Seq(Layers)
      /\ <<"body">> \in Seq(Layers) /\ Wrap(c) = c \o <<"body">>
  <2>1. c \in Seq(Middlewares)
    BY ChainsKnown
  <2>2. c \in Seq(Layers)
    BY <2>1, SeqMonotonic DEF Layers
  <2>3. <<"body">> \in Seq(Layers)
    BY DEF Layers
  <2> QED
    BY <2>1, <2>2, <2>3, ChainKeepsOrder
<1>2. /\ Len(c) \in Nat /\ DOMAIN c = 1..Len(c)
      /\ \A i \in 1..Len(c) : c[i] \in Middlewares
  BY <1>1, LenProperties, ElementOfSeq
<1>3. /\ Wrap(c) \in Seq(Layers) /\ Len(Wrap(c)) = Len(c) + Len(<<"body">>)
      /\ \A i \in 1..(Len(c) + Len(<<"body">>)) :
           Wrap(c)[i] = IF i <= Len(c) THEN c[i] ELSE <<"body">>[i - Len(c)]
  BY <1>1, ConcatProperties
<1>4. Len(<<"body">>) = 1 /\ <<"body">>[1] = "body"
  OBVIOUS
<1>5. Len(Wrap(c)) = Len(c) + 1 /\ Wrap(c)[Len(c) + 1] = "body"
      /\ \A i \in 1..Len(c) : Wrap(c)[i] = c[i]
  BY <1>2, <1>3, <1>4
<1>6. HasBody(Wrap(c))
  BY <1>2, <1>3, <1>5, EmptySeq DEF HasBody
<1> QED
  BY <1>2, <1>3, <1>5, <1>6

\* Where the loop is in the handler that runs.
LEMMA AtLayer ==
  ASSUME PipeTypes, Nested, layer > 0
  PROVE  /\ layer \in 1..Len(handler) /\ Len(handler) \in Nat /\ handler # <<>>
         /\ handler[layer] \in Layers
         /\ ~In("body") => layer + 1 \in 0..Len(handler)
         /\ \A x : In(x) <=> handler[layer] = x
<1>1. handler \in Seq(Layers) /\ layer \in 0..Len(handler)
  BY DEF PipeTypes
<1>2. Len(handler) \in Nat /\ layer \in 1..Len(handler) /\ handler # <<>>
  BY <1>1, LenProperties, EmptySeq
<1>3. handler[Len(handler)] = "body"
  BY <1>2 DEF Nested, HasBody
<1>4. ~In("body") => layer # Len(handler)
  BY <1>3 DEF In
<1> QED
  BY <1>1, <1>2, <1>4, ElementOfSeq DEF In

\* The base handler runs as long as nobody has called Become.
LEMMA InBase ==
  ASSUME PipeTypes, Nested, Guarded, became = 0, handler # <<>>
  PROVE  /\ handler = Wrap(chain) /\ Len(chain) \in Nat /\ Len(handler) = Len(chain) + 1
         /\ DOMAIN chain = 1..Len(chain) /\ handler[Len(chain) + 1] = "body"
         /\ \A i \in 1..Len(chain) : handler[i] = chain[i] /\ chain[i] \in Middlewares
<1>1. handler = Wrap(chain) /\ chain \in Chains
  BY DEF Guarded, PipeTypes
<1> QED
  BY <1>1, BaseHandler

LEMMA GoDownInv == ASSUME PInv, GoDown, ran' = ran PROVE PInv'
<1>1. PipeTypes /\ Nested /\ Guarded /\ Counted /\ Metering
  BY DEF PInv
<1>2. /\ way = "down" /\ ~In("body") /\ layer > 0 /\ layer' = layer + 1
      /\ UNCHANGED <<chain, stack, became, handler, way, count, total, average, state>>
  BY <1>1 DEF GoDown, Nested, behavior, metrics
<1>3. layer' \in 0..Len(handler) /\ layer' > 0
  BY <1>1, <1>2, AtLayer DEF PipeTypes
<1>4. PipeTypes' /\ Nested' /\ Counted'
  BY <1>1, <1>2, <1>3 DEF PipeTypes, Nested, Counted
<1>5. Guarded'
  BY <1>1, <1>2 DEF Guarded
<1>6. Metering'
  BY <1>1, <1>2 DEF Metering, CountedAt, MeteredAt
<1> QED
  BY <1>4, <1>5, <1>6 DEF PInv

LEMMA BodyInv == ASSUME PInv, Body, ran' = ran PROVE PInv'
<1>1. PipeTypes /\ Nested /\ Guarded /\ Counted /\ Metering
  BY DEF PInv
<1>2. /\ way = "down" /\ In("body") /\ layer > 0 /\ layer' = layer - 1
      /\ way' \in {"return", "panic"}
      /\ UNCHANGED <<chain, handler, count, total, average, state>>
  BY <1>1 DEF Body, Nested, metrics
<1>3. /\ layer \in 1..Len(handler) /\ Len(handler) \in Nat /\ handler # <<>>
      /\ handler[layer] = "body" /\ layer' \in 0..Len(handler)
  BY <1>1, <1>2, AtLayer
<1>4. /\ became' \in 0..MaxBecome /\ stack' \in Seq(Seq(Layers)) /\ stack' # <<>>
      /\ \A k \in DOMAIN stack' : HasBody(stack'[k])
      /\ became' = 0 => became = 0 /\ (stack = <<Wrap(chain)>> => stack' = stack)
  <2>1. Custom \in Seq(Layers) /\ HasBody(Custom) /\ Len(Custom) = 1
    BY DEF Custom, Layers, HasBody
  <2>2. /\ stack \in Seq(Seq(Layers)) /\ stack # <<>> /\ Len(stack) \in Nat \ {0}
        /\ DOMAIN stack = 1..Len(stack) /\ became \in 0..MaxBecome /\ MaxBecome \in Nat
        /\ \A k \in 1..Len(stack) : HasBody(stack[k])
    BY <1>1, LenProperties, EmptySeq, MaxBecomeNat DEF PipeTypes, Nested
  <2>3. CASE became < MaxBecome /\ became' = became + 1 /\ Become
    <3>1. /\ stack' \in Seq(Seq(Layers)) /\ Len(stack') = Len(stack) + 1
          /\ \A k \in 1..Len(stack) : stack'[k] = stack[k]
          /\ stack'[Len(stack) + 1] = Custom /\ DOMAIN stack' = 1..(Len(stack) + 1)
      BY <2>1, <2>2, <2>3, AppendProperties, LenProperties DEF Become
    <3>2. stack' # <<>>
      BY <2>2, <3>1, EmptySeq
    <3>3. \A k \in DOMAIN stack' : k \in 1..Len(stack) \/ k = Len(stack) + 1
      BY <2>2, <3>1
    <3> QED
      BY <2>1, <2>2, <2>3, <3>1, <3>2, <3>3
  <2>4. CASE became < MaxBecome /\ became' = became + 1 /\ BecomeReplace
    <3>1. /\ stack' \in Seq(Seq(Layers)) /\ Len(stack') = Len(stack)
          /\ \A k \in 1..Len(stack) :
               stack'[k] = IF k = Len(stack) THEN Custom ELSE stack[k]
      <4>1. Len(stack) \in 1..Len(stack)
        BY <2>2
      <4> QED
        BY <2>1, <2>2, <2>4, <4>1, ExceptSeq DEF BecomeReplace
    <3>2. stack' # <<>> /\ DOMAIN stack' = 1..Len(stack)
      BY <2>2, <3>1, EmptySeq, LenProperties
    <3>3. \A k \in 1..Len(stack) : HasBody(stack'[k])
      <4> TAKE k \in 1..Len(stack)
      <4>1. stack'[k] = Custom \/ stack'[k] = stack[k]
        BY <3>1
      <4> QED
        BY <2>1, <2>2, <4>1
    <3>4. became' \in 0..MaxBecome /\ became' # 0
      BY <2>2, <2>4
    <3> QED
      BY <3>1, <3>2, <3>3, <3>4
  <2>5. CASE Unbecome /\ UNCHANGED became
    <3>1. CASE Len(stack) <= 1
      BY <2>2, <2>5, <3>1 DEF Unbecome
    <3>2. CASE ~(Len(stack) <= 1)
      <4>1. stack' = SubSeq(stack, 1, Len(stack) - 1)
        BY <2>5, <3>2 DEF Unbecome
      <4>2. \A k \in 1..(Len(stack) - 1) : stack[k] \in Seq(Layers) /\ HasBody(stack[k])
        BY <2>2, ElementOfSeq
      <4>3. /\ stack' \in Seq(Seq(Layers)) /\ Len(stack') = Len(stack) - 1
            /\ \A k \in 1..(Len(stack) - 1) : stack'[k] = stack[k]
        <5>1. Len(stack) - 1 \in Int /\ 1 \in Int /\ (Len(stack) - 1) - 1 + 1 = Len(stack) - 1
              /\ 1 <= Len(stack) - 1 /\ \A k \in 1..(Len(stack) - 1) : 1 + k - 1 = k
          BY <2>2, <3>2
        <5> QED
          BY <4>1, <4>2, <5>1, SubSeqProperties
      <4>4. stack' # <<>> /\ DOMAIN stack' = 1..(Len(stack) - 1)
        BY <2>2, <3>2, <4>3, EmptySeq, LenProperties
      <4>5. stack # <<Wrap(chain)>>
        <5> DEFINE base == <<Wrap(chain)>>
        <5>1. Len(base) = 1
          OBVIOUS
        <5> HIDE DEF base
        <5>2. Len(stack) # 1
          <6>1. \A k \in Nat : ~(k <= 1) => k # 1
            OBVIOUS
          <6>2. Len(stack) \in Nat
            BY <2>2
          <6> QED
            BY <3>2, <6>1, <6>2, Zenon
        <5>3. stack # base
          BY <5>1, <5>2, Zenon
        <5> QED
          BY <5>3 DEF base
      <4> QED
        BY <2>2, <2>5, <4>2, <4>3, <4>4, <4>5
    <3> QED
      BY <3>1, <3>2
  <2>6. CASE UNCHANGED <<stack, became>>
    BY <2>2, <2>6
  <2> QED
    BY <2>3, <2>4, <2>5, <2>6 DEF Body
<1>5. PipeTypes' /\ Nested' /\ Counted'
  BY <1>1, <1>2, <1>3, <1>4 DEF PipeTypes, Nested, Counted, Ways
<1>6. became' = 0 => layer' = Len(chain) /\ Len(chain) \in Nat /\ DOMAIN chain = 1..Len(chain)
  <2> SUFFICES ASSUME became' = 0 PROVE layer' = Len(chain) /\ Len(chain) \in Nat
                                        /\ DOMAIN chain = 1..Len(chain)
    OBVIOUS
  <2>1. /\ Len(chain) \in Nat /\ Len(handler) = Len(chain) + 1 /\ DOMAIN chain = 1..Len(chain)
        /\ \A i \in 1..Len(chain) : handler[i] = chain[i] /\ chain[i] # "body"
    BY <1>1, <1>3, <1>4, InBase DEF Middlewares
  <2>2. layer = Len(chain) + 1
    BY <1>3, <2>1
  <2> QED
    BY <1>2, <2>1, <2>2
<1>7. Guarded'
  <2>1. became' = 0 => stack' = <<Wrap(chain)>> /\ handler \in {<<>>, Wrap(chain)}
    BY <1>1, <1>4 DEF Guarded
  <2>2. became' = 0 => \A j \in DOMAIN chain : j <= layer'
    BY <1>6
  <2>3. became' = 0 \/ became' > 0
    BY <1>4, MaxBecomeNat
  <2>4. became' = 0 => ~(state = "Panicked" /\ "recovery" \in Rng(chain))
    BY <1>1, <1>4 DEF Guarded
  <2> QED
    BY <1>2, <2>1, <2>2, <2>3, <2>4 DEF Guarded, Rng
<1>8. Metering'
  <2> SUFFICES ASSUME became' = 0, NEW i \in DOMAIN chain, MeteredAt(i)'
               PROVE  CountedAt(i)' /\ way' # "counted"
    BY <1>2 DEF Metering
  <2>1. MeteredAt(i) /\ became = 0 /\ layer' = Len(chain) /\ i <= Len(chain) /\ Len(chain) \in Nat
        /\ i \in Nat
    BY <1>2, <1>4, <1>6 DEF MeteredAt
  <2>2. count + 1 = Len(ran) /\ ~(layer' < i)
    BY <1>1, <1>2, <1>3, <2>1 DEF Metering, CountedAt
  <2> QED
    BY <1>2, <1>3, <2>2 DEF CountedAt
<1> QED
  BY <1>5, <1>7, <1>8 DEF PInv

LEMMA CountMessageInv == ASSUME PInv, CountMessage, ran' = ran PROVE PInv'
<1>1. PipeTypes /\ Nested /\ Guarded /\ Counted /\ Metering
  BY DEF PInv
<1>2. /\ way = "return" /\ In("metrics") /\ layer > 0 /\ count' = count + 1 /\ way' = "counted"
      /\ UNCHANGED <<chain, stack, became, handler, layer, total, average, state>>
  BY DEF CountMessage, In, behavior
<1>3. /\ layer \in 1..Len(handler) /\ handler # <<>> /\ handler[layer] = "metrics"
  BY <1>1, <1>2, AtLayer
<1>4. PipeTypes' /\ Nested' /\ Counted'
  BY <1>1, <1>2, <1>3 DEF PipeTypes, Nested, Counted, Ways
<1>5. Guarded'
  BY <1>1, <1>2 DEF Guarded
<1>6. Metering'
  <2> SUFFICES ASSUME became' = 0, NEW i \in DOMAIN chain, MeteredAt(i)'
               PROVE  CountedAt(i)' /\ layer = i
    BY <1>2 DEF Metering
  <2>1. MeteredAt(i) /\ became = 0
    BY <1>2 DEF MeteredAt
  <2>2. /\ Len(chain) \in Nat /\ Len(handler) = Len(chain) + 1 /\ DOMAIN chain = 1..Len(chain)
        /\ handler[Len(chain) + 1] = "body"
        /\ \A k \in 1..Len(chain) : handler[k] = chain[k]
    BY <1>1, <1>3, <2>1, InBase
  <2>3. layer \in 1..Len(chain) /\ chain[layer] = "metrics"
    BY <1>3, <2>2
  <2>4. layer = i
    BY <2>1, <2>2, <2>3 DEF MeteredAt
  <2>5. count + 1 = Len(ran)
    BY <1>1, <1>2, <1>3, <2>1, <2>2, <2>4 DEF Metering, CountedAt
  <2> QED
    BY <1>2, <2>4, <2>5 DEF CountedAt
<1> QED
  BY <1>4, <1>5, <1>6 DEF PInv

LEMMA AddDurationInv == ASSUME PInv, AddDuration, ran' = ran PROVE PInv'
<1>1. PipeTypes /\ Nested /\ Guarded /\ Counted /\ Metering
  BY DEF PInv
<1>2. /\ way = "counted" /\ total' = total + 1 /\ way' = "return" /\ layer' = layer - 1
      /\ UNCHANGED <<chain, stack, became, handler, count, average, state>>
  BY DEF AddDuration, behavior
<1>3. /\ layer \in 1..Len(handler) /\ Len(handler) \in Nat /\ handler # <<>>
      /\ layer' \in 0..Len(handler)
  BY <1>1, <1>2, AtLayer DEF Nested
<1>4. PipeTypes' /\ Nested' /\ Counted'
  BY <1>1, <1>2, <1>3 DEF PipeTypes, Nested, Counted, Ways
<1>5. Guarded'
  BY <1>1, <1>2 DEF Guarded
<1>6. Metering'
  <2> SUFFICES ASSUME became' = 0, NEW i \in DOMAIN chain, MeteredAt(i)'
               PROVE  CountedAt(i)'
    BY <1>2 DEF Metering
  <2>1. MeteredAt(i) /\ became = 0
    BY <1>2 DEF MeteredAt
  <2>2. count = Len(ran) /\ layer = i
    BY <1>1, <1>2, <2>1 DEF Metering, CountedAt
  <2> QED
    BY <1>2, <1>3, <2>2 DEF CountedAt
<1> QED
  BY <1>4, <1>5, <1>6 DEF PInv

LEMMA GoUpInv == ASSUME PInv, GoUp, ran' = ran PROVE PInv'
<1>1. PipeTypes /\ Nested /\ Guarded /\ Counted /\ Metering
  BY DEF PInv
<1>2. /\ layer > 0 /\ layer' = layer - 1
      /\ UNCHANGED <<chain, stack, became, handler, count, total, average, state>>
      /\ \/ way = "return" /\ way' = "return" /\ ~In("metrics")
         \/ way = "panic" /\ way' = IF In("recovery") THEN "return" ELSE "panic"
  BY DEF GoUp, behavior, metrics
<1>3. /\ layer \in 1..Len(handler) /\ Len(handler) \in Nat /\ handler # <<>>
      /\ layer' \in 0..Len(handler)
      /\ \A x : In(x) <=> handler[layer] = x
  BY <1>1, <1>2, AtLayer
<1>4. PipeTypes' /\ Nested' /\ Counted'
  BY <1>1, <1>2, <1>3 DEF PipeTypes, Nested, Counted, Ways
<1>5. became = 0 =>
        /\ Len(chain) \in Nat /\ DOMAIN chain = 1..Len(chain)
        /\ \A k \in DOMAIN chain : k = layer => (In(chain[k]) /\ handler[layer] = chain[k])
  BY <1>1, <1>3, InBase
<1>6. Guarded'
  <2>1. ASSUME became' = 0, way' = "panic", NEW j \in DOMAIN chain, chain[j] = "recovery"
        PROVE  j <= layer'
    <3>1. way = "panic" /\ ~In("recovery") /\ became = 0
      BY <1>2, <2>1
    <3>2. j <= layer /\ j # layer /\ j \in Nat
      BY <1>1, <1>5, <2>1, <3>1 DEF Guarded
    <3> QED
      BY <1>2, <1>3, <3>2
  <2> QED
    BY <1>1, <1>2, <2>1 DEF Guarded
<1>7. Metering'
  <2> SUFFICES ASSUME became' = 0, NEW i \in DOMAIN chain, MeteredAt(i)'
               PROVE  CountedAt(i)'
    BY <1>2 DEF Metering
  <2>1. MeteredAt(i) /\ became = 0 /\ i \in Nat
    BY <1>2, <1>5 DEF MeteredAt
  <2>2. CountedAt(i)
    BY <1>1, <2>1 DEF Metering
  <2>3. CASE way = "return"
    <3>1. ~In("metrics") /\ chain[i] = "metrics" /\ way' = "return"
      BY <1>2, <2>1, <2>3 DEF MeteredAt
    <3>2. layer # i
      BY <1>5, <2>1, <3>1
    <3>3. layer < i <=> layer' < i
      BY <1>2, <1>3, <2>1, <3>2
    <3> QED
      BY <1>2, <2>2, <2>3, <3>1, <3>3 DEF CountedAt
  <2>4. CASE way = "panic"
    <3>1. PICK j \in DOMAIN chain : i < j /\ chain[j] = "recovery"
      BY <2>1 DEF MeteredAt
    <3>2. j <= layer /\ j \in Nat
      BY <1>1, <1>5, <2>1, <2>4, <3>1 DEF Guarded
    <3>3. ~(layer' < i) /\ way' # "counted"
      BY <1>2, <1>3, <2>1, <2>4, <3>1, <3>2
    <3>4. count + 1 = Len(ran)
      BY <1>3, <2>2, <2>4 DEF CountedAt
    <3> QED
      BY <1>2, <1>3, <3>3, <3>4 DEF CountedAt
  <2> QED
    BY <1>2, <2>3, <2>4
<1> QED
  BY <1>4, <1>6, <1>7 DEF PInv

LEMMA FinishedInv == ASSUME PInv, Finished, ran' = ran PROVE PInv'
<1>1. PipeTypes /\ Nested /\ Guarded /\ Counted /\ Metering
  BY DEF PInv
<1>2. /\ handler # <<>> /\ layer = 0 /\ handler' = <<>> /\ way' = "return"
      /\ state' = IF way = "panic" THEN "Panicked" ELSE state
      /\ UNCHANGED <<chain, stack, became, layer, count, total, average>>
  BY DEF Finished, behavior, metrics
<1>3. way \in {"return", "panic"}
  BY <1>1, <1>2 DEF PipeTypes, Ways, Nested
<1>4. <<>> \in Seq(Layers) /\ Len(<<>>) = 0 /\ 0 \in 0..0
  BY EmptySeq
<1>5. PipeTypes' /\ Nested' /\ Counted'
  BY <1>1, <1>2, <1>3, <1>4 DEF PipeTypes, Nested, Counted, Ways
<1>6. became = 0 => /\ Len(chain) \in Nat /\ DOMAIN chain = 1..Len(chain)
  BY <1>1, <1>2, InBase
<1>7. became = 0 /\ way = "panic" => ~("recovery" \in Rng(chain))
  BY <1>1, <1>2, <1>6 DEF Guarded, Rng
<1>8. Guarded'
  BY <1>1, <1>2, <1>7, MaxBecomeNat DEF Guarded, PipeTypes
<1>9. Metering'
  <2> SUFFICES ASSUME became' = 0, NEW i \in DOMAIN chain, MeteredAt(i)'
               PROVE  CountedAt(i)'
    BY <1>2 DEF Metering
  <2>1. MeteredAt(i) /\ became = 0 /\ i \in 1..Len(chain) /\ "recovery" \in Rng(chain)
    BY <1>2, <1>6 DEF MeteredAt, Rng
  <2>2. way = "return" /\ CountedAt(i) /\ layer < i
    BY <1>1, <1>2, <1>3, <1>6, <1>7, <2>1 DEF Metering
  <2> QED
    BY <1>2, <2>2 DEF CountedAt
<1> QED
  BY <1>5, <1>8, <1>9 DEF PInv

\* The loop takes up a message.
LEMMA RunInv ==
  ASSUME PInv, Run, NEW m \in Producers, ran' = Append(ran, m)
  PROVE  PInv'
<1>1. PipeTypes /\ Nested /\ Guarded /\ Counted /\ Metering
  BY DEF PInv
<1>2. /\ handler = <<>> /\ handler' = stack[Len(stack)] /\ layer' = 1 /\ way' = "down"
      /\ UNCHANGED <<chain, stack, became, count, total, average, state>>
  BY DEF Run, Current, behavior, metrics
<1>3. /\ Len(stack) \in 1..Len(stack) /\ stack[Len(stack)] \in Seq(Layers)
      /\ HasBody(stack[Len(stack)])
  <2>1. stack \in Seq(Seq(Layers)) /\ Len(stack) \in Nat \ {0} /\ DOMAIN stack = 1..Len(stack)
    BY <1>1, EmptySeq, LenProperties DEF PipeTypes
  <2>2. Len(stack) \in 1..Len(stack)
    BY <2>1
  <2> QED
    BY <1>1, <2>1, <2>2, ElementOfSeq DEF Nested
<1>4. /\ ran' \in Seq(Producers) /\ Len(ran') = Len(ran) + 1 /\ Len(ran) \in Nat
  BY <1>1, AppendProperties, LenProperties DEF PipeTypes
<1>5. handler' # <<>> /\ 1 \in 0..Len(handler')
  <2>1. handler' \in Seq(Layers) /\ handler' # <<>>
    BY <1>2, <1>3 DEF HasBody
  <2> QED
    BY <2>1, LenProperties, EmptySeq
<1>6. PipeTypes' /\ Nested' /\ Counted'
  BY <1>1, <1>2, <1>3, <1>4, <1>5 DEF PipeTypes, Nested, Counted, Ways
<1>7. became = 0 => handler' = Wrap(chain)
  <2> SUFFICES ASSUME became = 0 PROVE handler' = Wrap(chain)
    OBVIOUS
  <2>1. stack = <<Wrap(chain)>> /\ Len(<<Wrap(chain)>>) = 1
    BY <1>1 DEF Guarded
  <2> QED
    BY <1>2, <2>1
<1>8. Guarded'
  BY <1>1, <1>2, <1>7 DEF Guarded
<1>9. Metering'
  <2> SUFFICES ASSUME became' = 0, NEW i \in DOMAIN chain, MeteredAt(i)'
               PROVE  CountedAt(i)'
    BY <1>2 DEF Metering
  <2>1. MeteredAt(i) /\ became = 0
    BY <1>2 DEF MeteredAt
  <2>2. count = Len(ran)
    BY <1>1, <1>2, <2>1 DEF Metering, CountedAt
  <2> QED
    BY <1>2, <1>4, <1>5, <2>2 DEF CountedAt
<1> QED
  BY <1>6, <1>8, <1>9 DEF PInv

\* A reader of the average, who may see the count before the last duration.
LEMMA AverageInv == ASSUME PInv, AverageDuration, ran' = ran PROVE PInv'
<1>1. PipeTypes /\ Nested /\ Guarded /\ Counted /\ Metering
  BY DEF PInv
<1>2. average' \in {0, count} /\ UNCHANGED <<behavior, running, count, total, state>>
  BY DEF AverageDuration, LoadCount, LoadTotal
<1>3. PipeTypes' /\ Nested' /\ Guarded'
  BY <1>1, <1>2 DEF PipeTypes, Nested, Guarded, behavior, running
<1>4. Counted'
  BY <1>1, <1>2 DEF PipeTypes, Counted, running
<1>5. Metering'
  BY <1>1, <1>2 DEF Metering, CountedAt, MeteredAt, behavior, running
<1> QED
  BY <1>3, <1>4, <1>5 DEF PInv

LEMMA PipeStutters == ASSUME PInv, UNCHANGED <<pipeline, ran>> PROVE PInv'
BY DEF PInv, pipeline, behavior, running, metrics, PipeTypes, Nested, Guarded, Counted,
       Metering, CountedAt, MeteredAt

LEMMA PipeInit == ASSUME Init PROVE PInv
<1>1. /\ chain \in Chains /\ stack = <<Wrap(chain)>> /\ became = 0 /\ handler = <<>>
      /\ layer = 0 /\ way = "return" /\ count = 0 /\ total = 0 /\ average = 0
      /\ state = "Started" /\ ran = <<>>
  BY DEF Init, PipelineInit
<1>2. Wrap(chain) \in Seq(Layers) /\ HasBody(Wrap(chain))
  BY <1>1, BaseHandler
<1>3. /\ stack \in Seq(Seq(Layers)) /\ stack # <<>> /\ \A k \in DOMAIN stack : HasBody(stack[k])
  BY <1>1, <1>2
<1>4. <<>> \in Seq(Layers) /\ <<>> \in Seq(Producers) /\ Len(<<>>) = 0 /\ 0 \in 0..0
  BY EmptySeq
<1>5. PipeTypes
  BY <1>1, <1>3, <1>4, MaxBecomeNat DEF PipeTypes, Ways
<1>6. Nested /\ Guarded /\ Counted
  BY <1>1, <1>3 DEF Nested, Guarded, Counted
<1>7. Metering
  BY <1>1, <1>4 DEF Metering, CountedAt
<1> QED
  BY <1>5, <1>6, <1>7 DEF PInv

-----------------------------------------------------------------------------
(* The mailbox                                                             *)

\* No two messages of a set have the same number.
Numbered(S) ==
  /\ S \subseteq Messages /\ IsFiniteSet(S)
  /\ \A m, o \in S : m.seq = o.seq => m = o

Heap ==
  /\ Numbered(heap) /\ seq \in Nat /\ notify \in BOOLEAN /\ closed \in BOOLEAN
  /\ \A m \in heap : m.seq <= seq

Seqs(S) == {m.seq : m \in S}

\* The numbers of the messages tell them apart, and InOrder lists the messages by
\* their numbers.
LEMMA ByNumber ==
  ASSUME NEW S, Numbered(S)
  PROVE  /\ Numbers(Seqs(S)) /\ Cardinality(Seqs(S)) \in Nat
         /\ Cardinality(Seqs(S)) = 0 <=> S = {}
         /\ InOrder(S) \in Seq(Producers) /\ Len(InOrder(S)) = Cardinality(Seqs(S))
         /\ \A k \in 1..Cardinality(Seqs(S)), m \in S :
              m.seq = Nth(Seqs(S), k) => InOrder(S)[k] = m.executable
<1> DEFINE L == Seqs(S)  c == Cardinality(L)
<1>1. L \subseteq Nat /\ \A n \in L : \E m \in S : m.seq = n
  BY DEF Numbered, Messages, Seqs
<1>2. IsFiniteSet(L)
  <2> DEFINE f == [m \in S |-> m.seq]
  <2>1. f \in Surjection(S, L)
    BY DEF Surjection, Seqs
  <2> QED
    BY <2>1, FS_Surjection DEF Numbered
<1>3. Numbers(L) /\ c \in Nat /\ (c = 0 <=> L = {}) /\ (L = {} <=> S = {})
  BY <1>1, <1>2, FS_CardinalityType, FS_EmptySet DEF Numbers, Seqs
<1>4. ASSUME NEW k \in 1..c
      PROVE  \E m \in S : m.seq = Nth(L, k)
  BY <1>1, <1>3, NthIn
<1>5. InOrder(S) = [k \in 1..c |-> (CHOOSE m \in {o \in S : o.seq = Nth(L, k)} : TRUE).executable]
  BY DEF InOrder, Seqs
<1>6. ASSUME NEW k \in 1..c, NEW m \in S, m.seq = Nth(L, k)
      PROVE  (CHOOSE o \in {o \in S : o.seq = Nth(L, k)} : TRUE).executable = m.executable
  <2>1. {o \in S : o.seq = Nth(L, k)} = {m}
    BY <1>6 DEF Numbered
  <2> QED
    BY <2>1
<1> HIDE DEF L
<1>7. \A k \in 1..c, m \in S : m.seq = Nth(L, k) => InOrder(S)[k] = m.executable
  BY <1>5, <1>6
<1>8. \A m \in S : m.executable \in Producers
  BY DEF Numbered, Messages
<1>9. InOrder(S) \in [1..c -> Producers]
  BY <1>4, <1>5, <1>6, <1>8
<1>10. InOrder(S) \in Seq(Producers) /\ Len(InOrder(S)) = c
  <2>1. InOrder(S) \in Seq(Producers)
    BY <1>3, <1>9, SeqDef
  <2>2. Len(InOrder(S)) \in Nat /\ 1..Len(InOrder(S)) = 1..c
    BY <1>9, <2>1, LenProperties
  <2> QED
    BY <1>3, <2>1, <2>2
<1> QED
  BY <1>3, <1>7, <1>10 DEF L

\* The message with the largest number is the last.
LEMMA PutLast ==
  ASSUME NEW S, NEW m \in Messages, Numbered(S), \A o \in S : o.seq < m.seq
  PROVE  Numbered(S \cup {m}) /\ InOrder(S \cup {m}) = Append(InOrder(S), m.executable)
<1> DEFINE T == S \cup {m}  L == Seqs(S)  c == Cardinality(L)
<1>1. m.seq \in Nat /\ m.executable \in Producers /\ S \subseteq Messages
      /\ \A o \in S : o.seq \in Nat /\ o.seq # m.seq
  BY DEF Messages, Numbered
<1>2. Numbered(T)
  BY <1>1, FS_AddElement DEF Numbered
<1>3. Seqs(T) = L \cup {m.seq}
  BY DEF Seqs
<1>4. Numbers(L) /\ c \in Nat /\ \A n \in L : n < m.seq
  BY ByNumber DEF Seqs
<1>5. /\ Cardinality(Seqs(T)) = c + 1 /\ Nth(Seqs(T), c + 1) = m.seq
      /\ \A k \in 1..c : Nth(Seqs(T), k) = Nth(L, k)
  <2> HIDE DEF L
  <2>1. m.seq \in Nat /\ Numbers(L) /\ \A n \in L : n < m.seq
    BY <1>1, <1>4
  <2>2. /\ Cardinality(L \cup {m.seq}) = Cardinality(L) + 1
        /\ Nth(L \cup {m.seq}, Cardinality(L) + 1) = m.seq
        /\ \A k \in 1..Cardinality(L) : Nth(L \cup {m.seq}, k) = Nth(L, k)
    BY <2>1, RankAdd
  <2> QED
    BY <1>3, <2>2
<1>6. /\ InOrder(T) \in Seq(Producers) /\ Len(InOrder(T)) = c + 1
      /\ \A k \in 1..(c + 1), o \in T : o.seq = Nth(Seqs(T), k) => InOrder(T)[k] = o.executable
  <2> HIDE DEF T, c
  <2>1. /\ InOrder(T) \in Seq(Producers) /\ Len(InOrder(T)) = Cardinality(Seqs(T))
        /\ \A k \in 1..Cardinality(Seqs(T)), o \in T :
             o.seq = Nth(Seqs(T), k) => InOrder(T)[k] = o.executable
    BY <1>2, ByNumber
  <2> QED
    BY <1>5, <2>1
<1>7. /\ InOrder(S) \in Seq(Producers) /\ Len(InOrder(S)) = c
      /\ \A k \in 1..c, o \in S : o.seq = Nth(L, k) => InOrder(S)[k] = o.executable
  BY ByNumber
<1>8. /\ Append(InOrder(S), m.executable) \in Seq(Producers)
      /\ Len(Append(InOrder(S), m.executable)) = c + 1
      /\ \A k \in 1..c : Append(InOrder(S), m.executable)[k] = InOrder(S)[k]
      /\ Append(InOrder(S), m.executable)[c + 1] = m.executable
  BY <1>1, <1>7, AppendProperties
<1>9. ASSUME NEW k \in 1..(c + 1)
      PROVE  InOrder(T)[k] = Append(InOrder(S), m.executable)[k]
  <2>1. CASE k = c + 1
    BY <1>5, <1>6, <1>8, <2>1
  <2>2. CASE k # c + 1
    <3>1. k \in 1..c
      BY <1>4, <2>2
    <3>2. PICK o \in S : o.seq = Nth(L, k)
      BY <1>4, <3>1, NthIn DEF Seqs
    <3>3. o \in T /\ k \in 1..(c + 1) /\ o.seq = Nth(Seqs(T), k)
      BY <1>5, <3>1, <3>2
    <3>4. InOrder(T)[k] = o.executable
      BY <1>6, <3>3
    <3>5. InOrder(S)[k] = o.executable
      BY <1>7, <3>1, <3>2
    <3> QED
      BY <1>8, <3>1, <3>4, <3>5
  <2> QED
    BY <2>1, <2>2
<1> QED
  BY <1>2, <1>4, <1>6, <1>8, <1>9, SeqEqual

\* The message with the least number is the first.
LEMMA TakeFirst ==
  ASSUME NEW S, NEW m \in S, Numbered(S), \A o \in S \ {m} : m.seq < o.seq
  PROVE  /\ Numbered(S \ {m}) /\ InOrder(S) # <<>>
         /\ InOrder(S \ {m}) = Tail(InOrder(S))
<1> DEFINE T == S \ {m}  L == Seqs(S)  c == Cardinality(L)
<1>1. m.seq \in Nat /\ m.seq \in L /\ \A o \in S : o.seq \in Nat /\ o.seq \in L
  BY DEF Messages, Numbered, Seqs
<1>2. Numbered(T)
  BY FS_Subset DEF Numbered
<1>3. Seqs(T) = L \ {m.seq}
  BY DEF Seqs, Numbered
<1>4. Numbers(L) /\ c \in Nat /\ c # 0
  BY ByNumber
<1>5. Rank(L, m.seq) = 1
  <2>1. {n \in L : n <= m.seq} = {m.seq}
    <3>1. \A n \in L : n = m.seq \/ m.seq < n
      BY DEF Seqs
    <3>2. \A n \in L : n \in Nat
      BY <1>4 DEF Numbers
    <3> QED
      BY <1>1, <3>1, <3>2
  <2> QED
    BY <2>1, FS_Singleton DEF Rank
<1>6. /\ Cardinality(Seqs(T)) = c - 1
      /\ \A k \in 1..(c - 1) : Nth(Seqs(T), k) = Nth(L, k + 1)
  <2>1. \A k \in 1..(c - 1) : ~(k < 1)
    OBVIOUS
  <2> QED
    BY <1>1, <1>3, <1>4, <1>5, <2>1, RankRemove
<1>7. /\ InOrder(T) \in Seq(Producers) /\ Len(InOrder(T)) = c - 1
      /\ \A k \in 1..(c - 1), o \in T : o.seq = Nth(Seqs(T), k) => InOrder(T)[k] = o.executable
  <2> HIDE DEF T, c
  <2>1. /\ InOrder(T) \in Seq(Producers) /\ Len(InOrder(T)) = Cardinality(Seqs(T))
        /\ \A k \in 1..Cardinality(Seqs(T)), o \in T :
             o.seq = Nth(Seqs(T), k) => InOrder(T)[k] = o.executable
    BY <1>2, ByNumber
  <2> QED
    BY <1>6, <2>1
<1>8. /\ InOrder(S) \in Seq(Producers) /\ Len(InOrder(S)) = c
      /\ \A k \in 1..c, o \in S : o.seq = Nth(L, k) => InOrder(S)[k] = o.executable
  BY ByNumber
<1>9. InOrder(S) # <<>>
  BY <1>4, <1>8, EmptySeq
<1>10. /\ Tail(InOrder(S)) \in Seq(Producers) /\ Len(Tail(InOrder(S))) = c - 1
       /\ \A k \in 1..(c - 1) : Tail(InOrder(S))[k] = InOrder(S)[k + 1]
  BY <1>8, <1>9, HeadTailProperties
<1>11. ASSUME NEW k \in 1..(c - 1)
       PROVE  InOrder(T)[k] = Tail(InOrder(S))[k]
  <2>1. PICK o \in T : o.seq = Nth(Seqs(T), k)
    <3>1. Numbers(Seqs(T)) /\ k \in 1..Cardinality(Seqs(T))
      BY <1>2, <1>6, ByNumber
    <3>2. Nth(Seqs(T), k) \in Seqs(T)
      BY <3>1, NthIn
    <3> QED
      BY <3>2 DEF Seqs
  <2>2. k + 1 \in 1..c
    BY <1>4
  <2>3. InOrder(T)[k] = o.executable
    BY <1>7, <2>1
  <2>4. InOrder(S)[k + 1] = o.executable
    BY <1>6, <1>8, <2>1, <2>2
  <2> QED
    BY <1>10, <2>3, <2>4
<1> QED
  BY <1>2, <1>4, <1>7, <1>9, <1>10, <1>11, SeqEqual

Queues == [p \in Priorities |-> InOrder(Waiting(p))]

\* A push puts a message at the end of the queue of its priority.
LEMMA PushPuts ==
  ASSUME Heap, NEW p \in Producers, NEW w, Push(p, PriorityOf[p], w)
  PROVE  Heap' /\ Contract!Put(p, PriorityOf[p])
<1> DEFINE m == [executable |-> p, priority |-> PriorityOf[p], seq |-> seq + 1]
<1>1. /\ ~closed /\ ~Full /\ seq' = seq + 1 /\ heap' = heap \cup {m} /\ closed' = closed
      /\ notify' \in BOOLEAN
  BY DEF Push, Signal
<1>2. /\ m \in Messages /\ m.executable = p /\ m.priority = PriorityOf[p] /\ m.seq = seq + 1
      /\ PriorityOf[p] \in Priorities
  BY PrioritiesKnown DEF Heap, Messages
<1> HIDE DEF m
<1>3. /\ \A o \in heap : o.seq \in Nat /\ o.seq < m.seq
      /\ seq \in Nat /\ Numbered(heap) /\ IsFiniteSet(heap) /\ m \notin heap
  BY <1>2 DEF Heap, Numbered, Messages
<1>4. Heap'
  <2>1. Numbered(heap \cup {m})
    BY <1>2, <1>3, PutLast
  <2>2. \A o \in heap \cup {m} : o.seq <= seq + 1
    BY <1>2, <1>3
  <2>3. seq + 1 \in Nat /\ closed \in BOOLEAN
    BY <1>3 DEF Heap
  <2> QED
    BY <1>1, <2>1, <2>2, <2>3 DEF Heap
<1>5. Cardinality(heap') = Cardinality(heap) + 1 /\ Cardinality(heap) \in Nat
  BY <1>1, <1>3, FS_AddElement, FS_CardinalityType
<1>6. \A q \in Priorities : Waiting(q)' =
        IF q = PriorityOf[p] THEN Waiting(q) \cup {m} ELSE Waiting(q)
  BY <1>1, <1>2 DEF Waiting
<1>7. Numbered(Waiting(PriorityOf[p])) /\ \A o \in Waiting(PriorityOf[p]) : o.seq < m.seq
  BY <1>3, FS_Subset DEF Waiting, Numbered
<1>8. InOrder(Waiting(PriorityOf[p]) \cup {m}) = Append(InOrder(Waiting(PriorityOf[p])), p)
  BY <1>2, <1>7, PutLast
<1>9. Queues' = [q \in Priorities |-> InOrder(Waiting(q)')]
  BY DEF Queues, InOrder, Seqs
<1>10. Queues' = [Queues EXCEPT ![PriorityOf[p]] = Append(@, p)]
  BY <1>2, <1>6, <1>8, <1>9 DEF Queues
<1>11. MaxSize > 0 => Cardinality(heap) < MaxSize
  BY <1>1, <1>5, MaxSizeNat DEF Full
<1> QED
  BY <1>1, <1>4, <1>5, <1>10, <1>11 DEF Contract!Put, Queues

\* A pop takes the first message of the first queue that has one.
LEMMA PopTakes ==
  ASSUME Heap, NEW e, Pop(e)
  PROVE  Heap' /\ \E p \in Priorities : Contract!Take(p)
<1>1. PICK m \in heap : (\A o \in heap \ {m} : Before(m, o)) /\ heap' = heap \ {m}
  BY DEF Pop
<1>2. UNCHANGED <<seq, notify, closed>>
  BY DEF Pop
<1>3. /\ Numbered(heap) /\ IsFiniteSet(heap) /\ m \in Messages /\ m.priority \in Priorities
      /\ \A o \in heap : o.priority \in Priorities
  BY DEF Heap, Numbered, Messages
<1> DEFINE p == m.priority
<1>4. Heap'
  BY <1>1, <1>2, <1>3, FS_Subset DEF Heap, Numbered
<1>5. Cardinality(heap') = Cardinality(heap) - 1
  BY <1>1, <1>3, FS_RemoveElement
<1>6. \A q \in Priorities : Waiting(q)' = IF q = p THEN Waiting(q) \ {m} ELSE Waiting(q)
  BY <1>1 DEF Waiting
<1>7. /\ Numbered(Waiting(p)) /\ m \in Waiting(p) /\ \A o \in Waiting(p) \ {m} : m.seq < o.seq
  <2>1. \A o \in Waiting(p) \ {m} : m.seq < o.seq
    BY <1>1, <1>3 DEF Waiting, Before, Priorities
  <2> QED
    BY <1>3, <2>1, FS_Subset DEF Waiting, Numbered
<1>8. InOrder(Waiting(p)) # <<>> /\ InOrder(Waiting(p) \ {m}) = Tail(InOrder(Waiting(p)))
  BY <1>7, TakeFirst
<1>9. Queues' = [q \in Priorities |-> InOrder(Waiting(q)')]
  BY DEF Queues, InOrder, Seqs
<1>10. Queues' = [Queues EXCEPT ![p] = Tail(@)]
  BY <1>3, <1>6, <1>8, <1>9 DEF Queues
<1>11. \A q \in Priorities : q < p => Queues[q] = <<>>
  <2> SUFFICES ASSUME NEW q \in Priorities, q < p PROVE InOrder(Waiting(q)) = <<>>
    BY DEF Queues
  <2>1. Waiting(q) = {}
    BY <1>1, <1>3 DEF Waiting, Before, Priorities
  <2>2. Numbered({})
    BY FS_EmptySet DEF Numbered
  <2>3. InOrder({}) \in Seq(Producers) /\ Len(InOrder({})) = 0
    BY <2>2, ByNumber
  <2> QED
    BY <2>1, <2>3, EmptySeq
<1>12. Contract!Take(p)
  BY <1>2, <1>3, <1>5, <1>8, <1>10, <1>11 DEF Contract!Take, Queues
<1> QED
  BY <1>3, <1>4, <1>12

LEMMA MailboxStutters ==
  ASSUME UNCHANGED <<heap, closed>>
  PROVE  UNCHANGED Contract!vars
<1>1. UNCHANGED Queues
  BY DEF Queues, InOrder, Waiting
<1> QED
  BY <1>1 DEF Contract!vars, Queues

LEMMA MailboxInitial == ASSUME Init PROVE Heap /\ Contract!Init
<1>1. heap = {} /\ seq = 0 /\ notify = FALSE /\ closed = FALSE
  BY DEF Init, MailboxInit
<1>2. Numbered({}) /\ Cardinality({}) = 0
  BY FS_EmptySet DEF Numbered
<1>3. InOrder({}) = <<>>
  BY <1>2, ByNumber, EmptySeq
<1>4. \A p \in Priorities : Waiting(p) = {}
  BY <1>1 DEF Waiting
<1> QED
  BY <1>1, <1>2, <1>3, <1>4 DEF Heap, Contract!Init

\* Every step of the worker is an operation of the contract, or does nothing to it.
LEMMA MailboxStep ==
  ASSUME Heap, [Next]_vars
  PROVE  Heap' /\ [Contract!Next]_(Contract!vars)
<1>1. ASSUME UNCHANGED <<heap, seq, closed>>, notify' \in BOOLEAN
      PROVE  Heap' /\ [Contract!Next]_(Contract!vars)
  BY <1>1, MailboxStutters DEF Heap
<1>2. ASSUME UNCHANGED mailbox
      PROVE  Heap' /\ [Contract!Next]_(Contract!vars)
  BY <1>1, <1>2 DEF mailbox, Heap
<1>3. CASE UNCHANGED vars
  BY <1>2, <1>3 DEF vars
<1>4. ASSUME NEW p \in Producers, Produce(p)
      PROVE  Heap' /\ [Contract!Next]_(Contract!vars)
  <2>1. CASE Push(p, PriorityOf[p], pc[Feeder] = "wait")
    <3>1. Heap' /\ Contract!Put(p, PriorityOf[p]) /\ PriorityOf[p] \in Priorities
      BY <2>1, PushPuts, PrioritiesKnown
    <3> QED
      BY <3>1 DEF Contract!Next
  <2> QED
    BY <1>2, <1>4, <2>1 DEF Produce, PushRefused
<1>5. ASSUME NEW p \in Publishers, Publishing(p)
      PROVE  Heap' /\ [Contract!Next]_(Contract!vars)
  BY <1>2, <1>5 DEF Publishing, Reject, NotifyListener, Rejected
<1>6. CASE Feed
  <2>1. ASSUME NEW m \in Producers, Pop(m) PROVE Heap' /\ [Contract!Next]_(Contract!vars)
    BY <2>1, PopTakes DEF Contract!Next
  <2>2. CASE Notified
    BY <1>1, <2>2 DEF Notified
  <2> QED
    BY <1>2, <1>6, <2>1, <2>2
    DEF Feed, FeederWakes, FeederPops, PopEmpty, FeederListens, FeederSends, FeederHandsOff
<1>7. CASE LoopHandles
  BY <1>2, <1>7 DEF LoopHandles
<1>8. CASE Queries
  <2>1. CASE CloseMailbox
    <3>1. Heap'
      BY <2>1 DEF CloseMailbox, Heap
    <3>2. UNCHANGED Queues
      BY <2>1 DEF CloseMailbox, Queues, InOrder, Waiting
    <3>3. Contract!Close
      BY <2>1, <3>2 DEF CloseMailbox, Contract!Close, Queues
    <3> QED
      BY <3>1, <3>3 DEF Contract!Next
  <2> QED
    BY <1>2, <1>8, <2>1 DEF Queries
<1> QED
  BY <1>3, <1>4, <1>5, <1>6, <1>7, <1>8 DEF Next

\* The mailbox is a bounded queue for each priority, from which the oldest message
\* of the most urgent is taken, for any priorities and any number of producers.
THEOREM MailboxImplementsContract == Spec => ImplementsMailbox
<1>1. Init => Heap /\ Contract!Init
  BY MailboxInitial
<1>2. Heap /\ [Next]_vars => Heap' /\ [Contract!Next]_(Contract!vars)
  BY MailboxStep
<1> QED
  BY <1>1, <1>2, PTL DEF Spec, ImplementsMailbox, Contract!Spec

-----------------------------------------------------------------------------
(* The worker                                                              *)

\* The feeder has a message to send, and gives one up when the actor has
\* panicked: Panicked is a state the actor does not leave.
Feeding ==
  /\ pc[Feeder] \in {"send", "enqueue"} => hand # {}
  /\ pc[Feeder] \in {"reject", "notify", "panicked"} => state = "Panicked"

Settings == cast \in Casts /\ capacity \in Capacities /\ stuck \in BOOLEAN

Worker == IInv /\ PInv /\ Heap /\ Feeding /\ Settings

LEMMA PipeStep ==
  ASSUME Types, PInv, Feeding, [Next]_vars
  PROVE  PInv'
<1>1. ASSUME UNCHANGED <<pipeline, ran>> PROVE PInv'
  BY <1>1, PipeStutters
<1>2. CASE UNCHANGED vars
  BY <1>1, <1>2 DEF vars
<1>3. ASSUME NEW p \in Producers, Produce(p) PROVE PInv'
  BY <1>1, <1>3 DEF Produce
<1>4. ASSUME NEW p \in Publishers, Publishing(p) PROVE PInv'
  BY <1>1, <1>4 DEF Publishing, Reject, NotifyListener, Rejected
<1>5. CASE Feed
  <2>1. CASE FeederHandsOff
    <3>1. hand # {} /\ hand \subseteq Producers
      BY <2>1 DEF FeederHandsOff, Feeding, Types
    <3>2. (CHOOSE m \in hand : TRUE) \in Producers
      BY <3>1
    <3> QED
      BY <2>1, <3>2, RunInv DEF FeederHandsOff
  <2> QED
    BY <1>1, <1>5, <2>1 DEF Feed, FeederWakes, FeederPops, FeederListens, FeederSends
<1>6. CASE LoopHandles
  BY <1>6, GoDownInv, BodyInv, CountMessageInv, AddDurationInv, GoUpInv, FinishedInv
  DEF LoopHandles, Handle
<1>7. CASE Queries
  <2>1. CASE AverageDuration /\ UNCHANGED <<mailbox, dlq, pc, hand, ran>>
    BY <2>1, AverageInv
  <2> QED
    BY <1>1, <1>7, <2>1 DEF Queries
<1> QED
  BY <1>2, <1>3, <1>4, <1>5, <1>6, <1>7 DEF Next

LEMMA FeedingStep ==
  ASSUME Types, PInv, Feeding, [Next]_vars
  PROVE  Feeding'
<1>1. pc \in [Publishers -> Places] /\ state \in {"Started", "Panicked"}
      /\ Feeder \in Publishers
  BY Who DEF Types, PInv, PipeTypes
<1>2. ASSUME UNCHANGED <<pc, hand>>, state = "Panicked" => state' = "Panicked" PROVE Feeding'
  BY <1>2 DEF Feeding
<1>3. CASE UNCHANGED vars
  BY <1>2, <1>3 DEF vars, pipeline
<1>4. ASSUME NEW p \in Producers, Produce(p) PROVE Feeding'
  <2>1. pc'[Feeder] = pc[Feeder]
    BY <1>1, <1>4, Who DEF Produce, Goto
  <2> QED
    BY <1>4, <2>1 DEF Produce, Feeding, pipeline
<1>5. ASSUME NEW p \in Publishers, Publishing(p) PROVE Feeding'
  <2>1. state' = state
    BY <1>5 DEF Publishing, Reject, NotifyListener, Rejected, pipeline
  <2>2. CASE p # Feeder
    <3>1. pc'[Feeder] = pc[Feeder] /\ hand' = hand
      BY <1>1, <1>5, <2>2 DEF Publishing, Reject, NotifyListener, Rejected, Goto
    <3> QED
      BY <2>1, <3>1 DEF Feeding
  <2>3. CASE p = Feeder
    <3>1. pc[Feeder] \in {"reject", "notify"}
      BY <1>5, <2>3 DEF Publishing, Reject, NotifyListener, Rejected
    <3>2. pc'[Feeder] \in {"notify", "panicked", "drain"}
      BY <1>1, <1>5, <2>3 DEF Publishing, Reject, NotifyListener, Rejected, Goto
    <3> QED
      BY <2>1, <3>1, <3>2 DEF Feeding
  <2> QED
    BY <2>2, <2>3
<1>6. CASE Feed
  <2>1. CASE FeederWakes \/ FeederListens
    <3>1. pc'[Feeder] \in {"drain", "wait"}
      BY <1>1, <2>1 DEF FeederWakes, FeederListens, Goto
    <3> QED
      BY <3>1 DEF Feeding
  <2>2. CASE FeederPops
    <3>1. pc'[Feeder] = "listen" \/ (pc'[Feeder] = "send" /\ hand' # {})
      BY <1>1, <2>2 DEF FeederPops, Goto
    <3> QED
      BY <3>1 DEF Feeding
  <2>3. CASE FeederSends
    <3>1. pc'[Feeder] = IF state = "Started" THEN "enqueue" ELSE "reject"
      BY <1>1, <2>3 DEF FeederSends, Goto
    <3>2. hand' = hand /\ state' = state /\ hand # {}
      BY <2>3 DEF FeederSends, pipeline, Feeding
    <3> QED
      BY <1>1, <3>1, <3>2 DEF Feeding
  <2>4. CASE FeederHandsOff
    <3>1. pc'[Feeder] = "drain"
      BY <1>1, <2>4 DEF FeederHandsOff, Goto
    <3> QED
      BY <3>1 DEF Feeding
  <2> QED
    BY <1>6, <2>1, <2>2, <2>3, <2>4 DEF Feed
<1>7. CASE LoopHandles
  BY <1>2, <1>7
  DEF LoopHandles, Handle, GoDown, Body, CountMessage, AddDuration, GoUp, Finished
<1>8. CASE Queries
  BY <1>2, <1>8 DEF Queries, AverageDuration, LoadCount, LoadTotal, pipeline
<1> QED
  BY <1>3, <1>4, <1>5, <1>6, <1>7, <1>8 DEF Next

LEMMA SettingsStep ==
  ASSUME Settings, [Next]_vars
  PROVE  Settings'
<1>1. cast' = cast
  BY DEF Next, vars
<1>2. ASSUME UNCHANGED dlq PROVE Settings'
  BY <1>1, <1>2 DEF Settings, dlq
<1>3. ASSUME NEW p \in Publishers, Publishing(p) PROVE Settings'
  BY <1>1, <1>3 DEF Publishing, Reject, NotifyListener, Rejected, Publish, PublishPanics,
                    CallListener, Published, Settings
<1>4. CASE Queries
  BY <1>1, <1>2, <1>4 DEF Queries, Clear, OnDeadLetter, Settings
<1> QED
  BY <1>2, <1>3, <1>4
  DEF Next, vars, Produce, Feed, FeederWakes, FeederPops, FeederListens, FeederSends,
      FeederHandsOff, LoopHandles

LEMMA WorkerInit == Init => Worker
<1> SUFFICES ASSUME Init PROVE Worker
  OBVIOUS
<1>1. pc[Feeder] = "wait"
  BY Who DEF Init
<1>2. Feeding /\ Settings
  BY <1>1 DEF Init, QueueInit, Feeding, Settings
<1> QED
  BY <1>2, InitInv, PipeInit, MailboxInitial DEF Worker

LEMMA WorkerStep == Worker /\ [Next]_vars => Worker'
<1> SUFFICES ASSUME Worker, [Next]_vars PROVE Worker'
  OBVIOUS
<1>1. IInv /\ Types /\ PInv /\ Heap /\ Feeding /\ Settings
  BY DEF Worker, IInv
<1>2. IInv'
  BY <1>1, StepInv
<1>3. PInv' /\ Feeding' /\ Settings'
  BY <1>1, PipeStep, FeedingStep, SettingsStep
<1>4. Heap'
  BY <1>1, MailboxStep
<1> QED
  BY <1>2, <1>3, <1>4 DEF Worker

LEMMA WorkerInvariant == Spec => []Worker
BY WorkerInit, WorkerStep, PTL DEF Spec

\* Every variable has its type, and the behaviour stack is never empty: Unbecome
\* leaves the base handler, however the calls follow each other.
THEOREM DeliveryTypes == Spec => []TypeOK
<1>1. Worker => TypeOK
  BY DEF Worker, IInv, Types, Places, PInv, PipeTypes, Ways, Heap, Numbered, Settings, TypeOK
<1> QED
  BY WorkerInvariant, <1>1, PTL

\* With Recovery in the chain, wherever it is, only a handler given to Become can
\* bring the actor to Panicked, and only then is a message refused.
THEOREM OnlyBecomeBypassesRecovery == Spec => []OnlyBypassKills
<1>1. Worker => OnlyBypassKills
  BY DEF Worker, PInv, Guarded, Feeding, OnlyBypassKills
<1> QED
  BY WorkerInvariant, <1>1, PTL

\* The two counters of Metrics differ by the message that runs, they have every
\* message when a Recovery is inside Metrics, and a reader misses at most one.
THEOREM MetricsAddUp == Spec => []MetricsAgree
<1>1. Worker => MetricsAgree
  <2> SUFFICES ASSUME Worker PROVE MetricsAgree
    OBVIOUS
  <2>1. PipeTypes /\ Nested /\ Counted /\ Metering
    BY DEF Worker, PInv
  <2>2. handler = <<>> => count = total
    BY <2>1 DEF PipeTypes, Nested, Counted
  <2>3. handler = <<>> /\ Metered /\ became = 0 => count = Len(ran)
    <3> SUFFICES ASSUME handler = <<>>, Metered, became = 0 PROVE count = Len(ran)
      OBVIOUS
    <3>1. PICK i \in DOMAIN chain : MeteredAt(i)
      BY DEF Metered, MeteredAt
    <3> QED
      BY <2>1, <3>1 DEF Metering, CountedAt
  <2> QED
    BY <2>1, <2>2, <2>3 DEF Counted, MetricsAgree
<1> QED
  BY WorkerInvariant, <1>1, PTL
===============================================================================
