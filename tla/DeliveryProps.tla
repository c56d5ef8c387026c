---------------------------- MODULE DeliveryProps -----------------------------
(***************************************************************************)
(* What is to hold of the worker of Delivery.tla and of its parts.         *)
(***************************************************************************)
EXTENDS Delivery, Ranks

Messages == [executable : Producers, priority : Priorities, seq : Nat]
Layers   == Middlewares \cup {"body"}
Rng(s)   == {s[i] : i \in DOMAIN s}

\* Every variable has its type; the behaviour stack is never empty.
TypeOK ==
  /\ heap \subseteq Messages /\ seq \in Nat /\ {notify, closed, stuck} \subseteq BOOLEAN
  /\ capacity \in Capacities
  /\ letters \in Seq(Producers) /\ published \in Seq(Producers)
  /\ listeners \in Seq(Listeners)
  /\ letter \in [Publishers -> SUBSET Producers]
  /\ calling \in [Publishers -> Seq(Listeners)]
  /\ cleared \in 0..Len(published)
  /\ owed \in [Listeners -> SUBSET Producers]
  /\ got \in [Listeners -> Seq(Producers)]
  /\ chain \in Chains /\ became \in 0..MaxBecome
  /\ stack \in Seq(Seq(Layers)) /\ stack # <<>>
  /\ handler \in Seq(Layers) /\ layer \in 0..Len(handler)
  /\ way \in {"down", "return", "counted", "panic"}
  /\ {count, total, average} \subseteq Nat
  /\ state \in {"Started", "Panicked"}
  /\ pc \in [Publishers -> {"idle", "done", "reject", "notify", "panicked",
                            "wait", "drain", "listen", "send", "enqueue"}]
  /\ hand \subseteq Producers /\ cast \in Casts
  /\ ran \in Seq(Producers)

\* The mailbox is a bounded queue for each priority from which the oldest message
\* of the most urgent is taken: it implements MailboxContract.
Waiting(p) == {m \in heap : m.priority = p}

InOrder(S) ==
  LET seqs == {m.seq : m \in S}
  IN  [k \in 1..Cardinality(seqs) |->
         (CHOOSE m \in {o \in S : o.seq = Nth(seqs, k)} : TRUE).executable]

Contract == INSTANCE MailboxContract
  WITH Messages <- Producers, queue <- [p \in Priorities |-> InOrder(Waiting(p))],
       size <- Cardinality(heap), open <- ~closed

ImplementsMailbox == Contract!Spec

\* The queue holds the latest letters since it was cleared, as many as it has
\* room for, oldest first, whoever published them.
LettersAreLatest ==
  LET all  == Len(published)
      kept == IF all - cleared < capacity THEN all - cleared ELSE capacity
  IN  letters = SubSeq(published, all - kept + 1, all)

\* A handler is called once for each letter published since it was registered,
\* and not for others; for some it is yet to be called.
HeardOnce ==
  \A h \in Listeners :
    /\ \A i, j \in DOMAIN got[h] : got[h][i] = got[h][j] => i = j
    /\ Rng(got[h]) \subseteq owed[h]
    /\ owed[h] = Rng(got[h]) \cup
         UNION {letter[p] : p \in {q \in Publishers : h \in Rng(calling[q])}}

\* With Recovery in the chain only a handler given to Become, which has none of
\* the middleware around it, can bring the actor to Panicked; and as long as it
\* does not, the actor takes whatever the feeder sends.
OnlyBypassKills ==
  /\ state = "Panicked" /\ "recovery" \in Rng(chain) => became > 0
  /\ pc[Feeder] \in {"reject", "notify", "panicked"} => state = "Panicked"

\* One Metrics in the chain, and a Recovery inside it.
Metered ==
  \E i \in DOMAIN chain :
    /\ \A k \in DOMAIN chain : chain[k] = "metrics" <=> k = i
    /\ \E j \in DOMAIN chain : i < j /\ chain[j] = "recovery"

\* Between messages Metrics has as many durations as messages; it has all of the
\* messages when a Recovery is inside it; and a reader of the average, who loads
\* the two counters one after the other, misses at most one duration.
MetricsAgree ==
  /\ handler = <<>> => count = total
  /\ handler = <<>> /\ Metered /\ became = 0 => count = Len(ran)
  /\ average <= total + 1

\* Each message that is pushed or refused is run in the end, or published as a
\* dead letter: no signal of the mailbox is lost, though signals are not counted.
\* A queue of capacity 0, whose Publish panics, is left out.
Delivered ==
  \A p \in Producers :
    pc[p] # "idle" ~> p \in Rng(ran) \cup Rng(published) \/ capacity = 0
=============================================================================
