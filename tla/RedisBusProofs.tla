--------------------------- MODULE RedisBusProofs ---------------------------
(* Proofs about RedisBus, for any number of messages, consumers and            *)
(* subscriptions and for all sizes of pages, batches and channels.             *)
EXTENDS RedisBus, FiniteSetTheorems, WellFoundedInduction, TLAPS

\* What the argument needs to know of Redis and of the readers.
RedisOK ==
  /\ published \in 0 .. MaxMessages
  /\ delivered \in 0 .. published
  /\ pending \in [Messages -> Consumers \cup {None}]
  /\ consumer \in [Subscriptions -> Consumers \cup {None}]
  /\ phase \in [Subscriptions -> {"unused", "list", "claim", "relay", "read", "ended"}]
  /\ \A s \in Subscriptions : phase[s] # "unused" => consumer[s] \in Consumers

Inv == RedisOK /\ NothingSlipsThrough

\* XREADGROUP makes pending whatever the group moves past.
LEMMA DeliverFacts ==
  ASSUME Inv, NEW c \in Consumers, DeliverTo(c)
  PROVE  /\ published' = published
         /\ delivered' \in 0 .. published
         /\ pending' \in [Messages -> Consumers \cup {None}]
         /\ \A m \in 1 .. delivered' : pending'[m] # None \/ m \in processed
<1>1. published' = published
  BY DEF DeliverTo
<1>2. /\ delivered \in Nat /\ published \in Nat /\ MaxMessages \in Nat
      /\ STREAM_READ_COUNT \in Nat /\ delivered <= published /\ published <= MaxMessages
  BY RedisBusAssumption DEF Inv, RedisOK
<1>3. /\ delivered' \in Nat /\ delivered' <= published
      /\ Undelivered = delivered + 1 .. delivered'
  BY <1>2 DEF DeliverTo, LastToDeliver, Undelivered
<1>4. pending' = [m \in Messages |-> IF m \in Undelivered THEN c ELSE pending[m]]
  BY DEF DeliverTo
<1>5. pending' \in [Messages -> Consumers \cup {None}]
  BY <1>4 DEF Inv, RedisOK
<1>6. ASSUME NEW m \in 1 .. delivered' PROVE pending'[m] # None \/ m \in processed
  <2>1. m \in Messages
    BY <1>2, <1>3 DEF Messages
  <2>2. CASE m \in Undelivered
    BY <2>1, <2>2, <1>4, RedisBusAssumption
  <2>3. CASE m \notin Undelivered
    <3>1. m \in 1 .. delivered
      BY <1>2, <1>3, <2>3
    <3> QED BY <2>1, <2>3, <3>1, <1>4 DEF Inv, NothingSlipsThrough, IsPending
  <2> QED BY <2>2, <2>3
<1> QED BY <1>1, <1>2, <1>3, <1>5, <1>6

\* XCLAIM changes the owner of pending entries and nothing else.
LEMMA ClaimFacts ==
  ASSUME Inv, NEW c \in Consumers, NEW ids, ClaimFor(c, ids)
  PROVE  /\ published' = published /\ delivered' = delivered
         /\ pending' \in [Messages -> Consumers \cup {None}]
         /\ \A m \in Messages : pending[m] # None => pending'[m] # None
BY RedisBusAssumption DEF Inv, RedisOK, ClaimFor, IsPending

\* A step that keeps what was pending pending and moves no reader out of its
\* consumer preserves the invariant.
LEMMA Preserved ==
  ASSUME Inv,
         published' \in 0 .. MaxMessages, published' >= published, delivered' = delivered,
         pending' \in [Messages -> Consumers \cup {None}],
         \A m \in Messages : pending[m] # None => pending'[m] # None \/ m \in processed',
         processed \subseteq processed',
         consumer' \in [Subscriptions -> Consumers \cup {None}],
         phase' \in [Subscriptions -> {"unused", "list", "claim", "relay", "read", "ended"}],
         \A s \in Subscriptions : phase'[s] # "unused" => consumer'[s] \in Consumers
  PROVE  Inv'
<1>1. MaxMessages \in Nat /\ published \in 0 .. MaxMessages /\ delivered \in 0 .. published
  BY RedisBusAssumption DEF Inv, RedisOK
<1>2. delivered' \in 0 .. published'
  BY <1>1
<1>3. \A m \in 1 .. delivered : m \in Messages
  BY <1>1 DEF Messages
<1>4. NothingSlipsThrough'
  BY <1>3 DEF Inv, NothingSlipsThrough, IsPending
<1> QED BY <1>2, <1>4 DEF Inv, RedisOK

\* The steps of a reader preserve the invariant.
LEMMA ReaderPreserves ==
  ASSUME Inv, NEW s \in Subscriptions, ReaderStep(s)
  PROVE  Inv'
<1>c. phase[s] # "unused" => consumer[s] \in Consumers
  BY DEF Inv, RedisOK
<1>1. CASE ListPage(s)
  BY <1>1, Preserved DEF ListPage, Inv, RedisOK, redisVars, historyVars
<1>2. CASE RecoverPending(s)
  <2>1. PICK ids : /\ ClaimFor(consumer[s], ids)
                   /\ \E next \in {"read", "relay", "ended"} :
                        phase' = [phase EXCEPT ![s] = next]
    <3>1. PICK at \in Listings({i \in DOMAIN found[s] : IsPending(found[s][i])}) :
            LET claimed == [i \in DOMAIN at |-> found[s][at[i]]]
                ids     == {claimed[i] : i \in DOMAIN claimed}
            IN  /\ ClaimFor(consumer[s], ids)
                /\ \/ phase' = [phase EXCEPT ![s] = IF ids = {} THEN "read" ELSE "relay"]
                   \/ phase' = [phase EXCEPT ![s] = "ended"]
      BY <1>2 DEF RecoverPending
    <3> QED BY <3>1
  <2>2. /\ consumer' = consumer /\ processed' = processed /\ phase[s] = "claim"
    BY <1>2 DEF RecoverPending
  <2>3. /\ published' = published /\ delivered' = delivered
        /\ pending' \in [Messages -> Consumers \cup {None}]
        /\ \A m \in Messages : pending[m] # None => pending'[m] # None
    BY <1>c, <2>1, <2>2, ClaimFacts
  <2> QED BY <2>1, <2>2, <2>3, <1>c, Preserved, RedisBusAssumption DEF Inv, RedisOK
<1>3. CASE RecoverReplyLost(s)
  BY <1>3, <1>c, ClaimFacts, Preserved DEF RecoverReplyLost, Inv, RedisOK, historyVars
<1>4. CASE Relay(s)
  BY <1>4, Preserved DEF Relay, Inv, RedisOK, redisVars, historyVars
<1>5. CASE RelayFails(s)
  BY <1>5, Preserved DEF RelayFails, Inv, RedisOK, redisVars, historyVars
<1>6. CASE ReadNew(s)
  BY <1>6, <1>c, DeliverFacts
     DEF ReadNew, Inv, RedisOK, NothingSlipsThrough, IsPending, historyVars
<1>7. CASE ReadReplyLost(s)
  BY <1>7, <1>c, DeliverFacts
     DEF ReadReplyLost, Inv, RedisOK, NothingSlipsThrough, IsPending, readerVars, historyVars
<1>8. CASE ReaderFails(s)
  BY <1>8, Preserved DEF ReaderFails, Inv, RedisOK, redisVars, historyVars
<1> QED BY <1>1, <1>2, <1>3, <1>4, <1>5, <1>6, <1>7, <1>8 DEF ReaderStep

\* The steps of publishers and applications preserve the invariant.
LEMMA OthersPreserve ==
  ASSUME Inv
  PROVE  /\ Publish => Inv'
         /\ \A s \in Subscriptions : Receive(s) \/ Unsubscribe(s) => Inv'
         /\ \A s \in Subscriptions, c \in Consumers : Subscribe(s, c) => Inv'
         /\ \A c \in Consumers, m \in Messages : Ack(c, m) => Inv'
         /\ \A c \in Consumers, ids \in SUBSET Messages : Claim(c, ids) => Inv'
         /\ \A c \in Consumers : Crash(c) => Inv'
<1>1. Publish => Inv'
  <2> SUFFICES ASSUME Publish PROVE Inv'
    OBVIOUS
  <2>1. published' \in 0 .. MaxMessages /\ published' >= published
    BY RedisBusAssumption DEF Publish, Inv, RedisOK
  <2> QED BY <2>1, Preserved DEF Publish, Inv, RedisOK, readerVars, historyVars
<1>2. ASSUME NEW s \in Subscriptions, Receive(s) \/ Unsubscribe(s) PROVE Inv'
  BY <1>2, Preserved DEF Receive, Unsubscribe, Inv, RedisOK, redisVars, historyVars
<1>3. ASSUME NEW s \in Subscriptions, NEW c \in Consumers, Subscribe(s, c) PROVE Inv'
  BY <1>3, Preserved DEF Subscribe, Inv, RedisOK, redisVars
<1>4. ASSUME NEW c \in Consumers, NEW m \in Messages, Ack(c, m) PROVE Inv'
  BY <1>4, Preserved DEF Ack, Inv, RedisOK, readerVars
<1>5. ASSUME NEW c \in Consumers, NEW ids \in SUBSET Messages, Claim(c, ids) PROVE Inv'
  BY <1>5, ClaimFacts, Preserved DEF Claim, Inv, RedisOK, readerVars, historyVars
<1>6. ASSUME NEW c \in Consumers, Crash(c) PROVE Inv'
  BY <1>6, Preserved, RedisBusAssumption DEF Crash, Inv, RedisOK, redisVars, historyVars
<1> QED BY <1>1, <1>2, <1>3, <1>4, <1>5, <1>6

\* No message is lost between its delivery to the group and its acknowledgement,
\* although replies are lost, readers end on errors or undecodable entries,
\* receivers are dropped and processes crash (subscribe, recover_pending_messages,
\* ack, claim).
THEOREM NoMessageSlipsThrough == Spec => []NothingSlipsThrough
<1>1. Init => Inv
  BY RedisBusAssumption DEF Init, Inv, RedisOK, NothingSlipsThrough
<1>2. Inv /\ [Next]_vars => Inv'
  <2> SUFFICES ASSUME Inv, [Next]_vars PROVE Inv'
    OBVIOUS
  <2>1. CASE UNCHANGED vars
    BY <2>1 DEF vars, redisVars, readerVars, historyVars, Inv, RedisOK, NothingSlipsThrough,
                IsPending
  <2>2. CASE Next
    BY <2>2, ReaderPreserves, OthersPreserve DEF Next
  <2> QED BY <2>1, <2>2
<1>3. Inv => NothingSlipsThrough
  BY DEF Inv
<1> QED BY <1>1, <1>2, <1>3, PTL DEF Spec

-----------------------------------------------------------------------------
(* Listings and pages *)

\* A set of naturals that is not empty has a least element.
LEMMA LeastElement ==
  ASSUME NEW T, T \subseteq Nat, T # {}
  PROVE  \E x \in T : \A y \in T : x <= y
<1>1. \E x \in T : \A y \in T : ~ (<<y, x>> \in OpToRel(<, Nat))
  BY NatLessThanWellFounded, WFMin
<1>2. \A x \in T, y \in T : ~ (<<y, x>> \in OpToRel(<, Nat)) => x <= y
  BY DEF OpToRel
<1> QED BY <1>1, <1>2

\* A listing is a sequence, in order, of all the set has.
LEMMA ListingFacts ==
  ASSUME NEW S, S \subseteq Nat, IsFiniteSet(S), NEW seq \in Listings(S)
  PROVE  /\ seq \in Seq(S) /\ Len(seq) = Cardinality(S) /\ Len(seq) \in Nat
         /\ DOMAIN seq = 1 .. Len(seq)
         /\ \A i \in 1 .. Len(seq) : seq[i] \in S
         /\ Increasing(seq)
         /\ \A m \in S : \E i \in 1 .. Len(seq) : seq[i] = m
         /\ (S = {}) <=> (seq = <<>>)
<1>1. Cardinality(S) \in Nat
  BY FS_CardinalityType
<1>2. seq \in [1 .. Cardinality(S) -> S]
  BY DEF Listings
<1>3. seq \in Seq(S) /\ Len(seq) = Cardinality(S)
  BY <1>1, <1>2
<1>4. DOMAIN seq = 1 .. Len(seq)
  BY <1>2, <1>3
<1>5. Increasing(seq) /\ \A m \in S : \E i \in 1 .. Len(seq) : seq[i] = m
  BY <1>4 DEF Listings
<1>6. (S = {}) <=> (seq = <<>>)
  <2>1. (S = {}) <=> (Cardinality(S) = 0)
    BY FS_EmptySet
  <2>2. (seq = <<>>) <=> (Len(seq) = 0)
    BY <1>3
  <2> QED BY <1>3, <2>1, <2>2
<1> QED BY <1>1, <1>2, <1>3, <1>4, <1>5, <1>6

\* Sets of entries are finite sets of naturals.
LEMMA EntriesAreFinite ==
  ASSUME NEW S, S \subseteq Messages
  PROVE  IsFiniteSet(S) /\ S \subseteq Nat /\ Cardinality(S) \in Nat
<1>1. IsFiniteSet(Messages) /\ Messages \subseteq Nat
  BY FS_Interval, RedisBusAssumption DEF Messages
<1> QED BY <1>1, FS_Subset, FS_CardinalityType

\* The pending entries between two.
Between(start, m) == {n \in Messages : IsPending(n) /\ start < n /\ n < m}

\* A page leaves out nothing before its last entry, and nothing at all if it is
\* not full.
LEMMA PageFacts ==
  ASSUME NEW start \in Nat, NEW page \in Listings({m \in Messages : InPage(m, start)})
  PROVE  /\ page \in Seq(Messages) /\ Increasing(page)
         /\ \A i \in DOMAIN page : IsPending(page[i]) /\ page[i] > start
         /\ \A m \in Messages :
              /\ IsPending(m) /\ m > start
              /\ page = <<>> \/ Len(page) # PENDING_PAGE_SIZE \/ m <= page[Len(page)]
              => \E i \in DOMAIN page : page[i] = m
<1> DEFINE P == {m \in Messages : InPage(m, start)}
           n == Len(page)
<1>1. /\ PENDING_PAGE_SIZE \in Nat /\ PENDING_PAGE_SIZE >= 1 /\ Messages \subseteq Nat
      /\ \A m : Between(start, m) \subseteq Messages
      /\ P \subseteq Messages
  BY RedisBusAssumption, EntriesAreFinite DEF Between
<1>2. /\ page \in Seq(P) /\ n = Cardinality(P) /\ n \in Nat /\ DOMAIN page = 1 .. n
      /\ \A i \in 1 .. n : page[i] \in P
      /\ Increasing(page)
      /\ \A m \in P : \E i \in 1 .. n : page[i] = m
      /\ (P = {}) <=> (page = <<>>)
  <2>1. P \subseteq Nat /\ IsFiniteSet(P)
    BY <1>1, EntriesAreFinite
  <2> HIDE DEF P
  <2>2. page \in Listings(P)
    BY DEF P
  <2> QED BY <2>1, <2>2, ListingFacts
<1>3. \A m \in P : IsPending(m) /\ m > start /\ m \in Messages
                   /\ Cardinality(Between(start, m)) < PENDING_PAGE_SIZE
  BY DEF InPage, Between
<1>4. \A m \in Messages : IsPending(m) /\ m > start
                          /\ Cardinality(Between(start, m)) < PENDING_PAGE_SIZE => m \in P
  BY DEF InPage, Between
<1> HIDE DEF P, n
<1>5. page \in Seq(Messages)
  <2>1. \A i \in 1 .. n : page[i] \in Messages
    BY <1>1, <1>2
  <2>2. page = [i \in 1 .. n |-> page[i]]
    BY <1>2
  <2>3. page \in [1 .. n -> Messages]
    BY <2>1, <2>2
  <2> QED BY <1>2, <2>3
<1>6. ASSUME NEW m \in P, NEW k \in Messages, IsPending(k), start < k, k <= m
      PROVE  k \in P
  <2>1. Between(start, k) \subseteq Between(start, m)
    BY <1>1, <1>3, <1>6 DEF Between
  <2>2. Cardinality(Between(start, k)) <= Cardinality(Between(start, m))
    BY <1>1, <2>1, EntriesAreFinite, FS_Subset
  <2>3. Cardinality(Between(start, k)) \in Nat /\ Cardinality(Between(start, m)) \in Nat
    BY <1>1, EntriesAreFinite
  <2>4. Cardinality(Between(start, k)) < PENDING_PAGE_SIZE
    BY <1>1, <1>3, <2>2, <2>3
  <2> QED BY <1>4, <1>6, <2>4
<1>7. n <= PENDING_PAGE_SIZE
  <2>1. CASE P = {}
    BY <1>1, <1>2, <2>1, FS_EmptySet
  <2>2. CASE P # {}
    <3> DEFINE b == page[n]
    <3>1. n >= 1
      BY <1>2, <2>2
    <3>2. b \in P /\ \A i \in 1 .. n : page[i] <= b
      <4>1. b \in P
        BY <1>2, <3>1
      <4>2. \A i \in 1 .. n : i # n => page[i] < page[n]
        BY <1>2, <3>1 DEF Increasing
      <4>3. \A i \in 1 .. n : page[i] \in Nat
        BY <1>1, <1>2
      <4>4. \A i \in 1 .. n : page[i] <= page[n]
        BY <1>2, <3>1, <4>2, <4>3
      <4> QED BY <4>1, <4>4
    <3> HIDE DEF b
    <3>3. P \subseteq Between(start, b) \cup {b}
      <4> SUFFICES ASSUME NEW m \in P, m # b PROVE m \in Between(start, b)
        OBVIOUS
      <4>1. PICK i \in 1 .. n : page[i] = m
        BY <1>2
      <4>2. m <= b /\ m \in Nat /\ b \in Nat
        BY <1>1, <3>2, <4>1
      <4>3. m < b
        BY <4>2
      <4> QED BY <1>3, <4>3 DEF Between
    <3>4. IsFiniteSet(Between(start, b)) /\ Cardinality(Between(start, b)) \in Nat
      BY <1>1, EntriesAreFinite
    <3>5. /\ IsFiniteSet(Between(start, b) \cup {b})
          /\ Cardinality(Between(start, b) \cup {b}) <= Cardinality(Between(start, b)) + 1
      BY <3>4, FS_AddElement
    <3>6. Cardinality(P) <= Cardinality(Between(start, b) \cup {b})
      BY <3>3, <3>5, FS_Subset
    <3>7. Cardinality(Between(start, b)) < PENDING_PAGE_SIZE
      BY <1>3, <3>2
    <3>8. Cardinality(Between(start, b) \cup {b}) \in Nat
      BY <3>5, FS_CardinalityType
    <3> QED BY <1>1, <1>2, <3>4, <3>5, <3>6, <3>7, <3>8
  <2> QED BY <2>1, <2>2
<1>8. ASSUME NEW m \in Messages, IsPending(m), m > start, m \notin P
      PROVE  n = PENDING_PAGE_SIZE
  <2> DEFINE T == {k \in Messages : IsPending(k) /\ k > start /\ k \notin P}
  <2>1. T \subseteq Nat /\ T # {}
    BY <1>1, <1>8
  <2>2. PICK x \in T : \A y \in T : x <= y
    BY <2>1, LeastElement
  <2>3. Between(start, x) \subseteq P
    BY <1>1, <2>2 DEF Between
  <2>4. ~ (Cardinality(Between(start, x)) < PENDING_PAGE_SIZE)
    BY <1>4, <2>2
  <2>5. IsFiniteSet(P) /\ Cardinality(Between(start, x)) \in Nat
    BY <1>1, EntriesAreFinite
  <2>6. Cardinality(Between(start, x)) <= Cardinality(P)
    BY <2>3, <2>5, FS_Subset
  <2> QED BY <1>1, <1>2, <1>7, <2>4, <2>5, <2>6
<1>9. ASSUME NEW m \in Messages, IsPending(m), m > start,
             page = <<>> \/ Len(page) # PENDING_PAGE_SIZE \/ m <= page[Len(page)]
      PROVE  \E i \in DOMAIN page : page[i] = m
  <2>1. CASE n # PENDING_PAGE_SIZE
    BY <1>2, <1>8, <1>9, <2>1
  <2>2. CASE n = PENDING_PAGE_SIZE
    <3>1. n >= 1 /\ page # <<>>
      BY <1>1, <1>2, <2>2 DEF n
    <3>2. m <= page[n] /\ page[n] \in P
      BY <1>2, <1>9, <2>2, <3>1 DEF n
    <3>3. m \in P
      BY <1>6, <1>9, <3>2
    <3> QED BY <1>2, <3>3
  <2> QED BY <2>1, <2>2
<1>10. \A i \in DOMAIN page : IsPending(page[i]) /\ page[i] > start
  BY <1>2, <1>3
<1> QED BY <1>2, <1>5, <1>9, <1>10

-----------------------------------------------------------------------------
(* Increasing sequences *)

\* One after the other, if every element of the first is below every element of
\* the second.
LEMMA IncreasingConcat ==
  ASSUME NEW u \in Seq(Nat), NEW v \in Seq(Nat), Increasing(u), Increasing(v),
         \A i \in DOMAIN u, j \in DOMAIN v : u[i] < v[j]
  PROVE  Increasing(u \o v) /\ u \o v \in Seq(Nat)
<1> DEFINE w == u \o v
<1>1. /\ Len(u) \in Nat /\ Len(v) \in Nat /\ w \in Seq(Nat) /\ Len(w) = Len(u) + Len(v)
      /\ DOMAIN u = 1 .. Len(u) /\ DOMAIN v = 1 .. Len(v) /\ DOMAIN w = 1 .. Len(u) + Len(v)
      /\ \A i \in 1 .. Len(u) : w[i] = u[i]
      /\ \A i \in Len(u) + 1 .. Len(u) + Len(v) : w[i] = v[i - Len(u)]
  OBVIOUS
<1>a. /\ \A i \in DOMAIN w : i <= Len(u) => i \in DOMAIN u /\ w[i] = u[i]
      /\ \A i \in DOMAIN w : Len(u) < i => i - Len(u) \in DOMAIN v /\ w[i] = v[i - Len(u)]
  BY <1>1
<1>b. \A i \in DOMAIN w : i \in Nat
  BY <1>1
<1> HIDE DEF w
<1>2. ASSUME NEW i \in DOMAIN w, NEW j \in DOMAIN w, i < j PROVE w[i] < w[j]
  <2>1. CASE j <= Len(u)
    <3>1. i <= Len(u)
      BY <1>1, <1>b, <1>2, <2>1
    <3> QED BY <1>a, <1>2, <2>1, <3>1 DEF Increasing
  <2>2. CASE i <= Len(u) /\ Len(u) < j
    BY <1>a, <2>2
  <2>3. CASE Len(u) < i
    <3>1. Len(u) < j /\ i - Len(u) < j - Len(u)
      BY <1>1, <1>b, <1>2, <2>3
    <3> QED BY <1>a, <2>3, <3>1 DEF Increasing
  <2> QED BY <1>1, <1>b, <1>2, <2>1, <2>2, <2>3
<1>3. Increasing(w)
  BY <1>2 DEF Increasing
<1> QED BY <1>1, <1>3 DEF w

\* The last element of an increasing sequence is its greatest.
LEMMA LastIsGreatest ==
  ASSUME NEW u \in Seq(Nat), Increasing(u), u # <<>>
  PROVE  /\ Len(u) \in DOMAIN u /\ u[Len(u)] \in Nat
         /\ \A i \in DOMAIN u : u[i] <= u[Len(u)]
<1>1. Len(u) \in DOMAIN u /\ DOMAIN u = 1 .. Len(u) /\ Len(u) \in Nat
  OBVIOUS
<1>2. \A i \in DOMAIN u : u[i] \in Nat
  OBVIOUS
<1>3. ASSUME NEW i \in DOMAIN u PROVE u[i] <= u[Len(u)]
  <2>1. CASE i = Len(u)
    BY <1>1, <1>2, <2>1
  <2>2. CASE i # Len(u)
    <3>1. i < Len(u)
      BY <1>1, <2>2
    <3>2. u[i] < u[Len(u)]
      BY <1>1, <3>1 DEF Increasing
    <3> QED BY <1>1, <1>2, <3>2
  <2> QED BY <2>1, <2>2
<1> QED BY <1>1, <1>2, <1>3

\* The tail of an increasing sequence, and what the head is to it.
LEMMA TailIncreases ==
  ASSUME NEW u \in Seq(Messages), Increasing(u), u # <<>>
  PROVE  /\ Head(u) \in Messages /\ Head(u) = u[1] /\ 1 \in DOMAIN u
         /\ Tail(u) \in Seq(Messages) /\ Increasing(Tail(u)) /\ Len(Tail(u)) = Len(u) - 1
         /\ \A i \in DOMAIN Tail(u) : i + 1 \in DOMAIN u /\ Tail(u)[i] = u[i + 1]
         /\ \A i \in DOMAIN Tail(u) : Head(u) < Tail(u)[i]
<1>1. /\ Head(u) \in Messages /\ Head(u) = u[1] /\ 1 \in DOMAIN u
      /\ Tail(u) \in Seq(Messages) /\ Len(Tail(u)) = Len(u) - 1
      /\ Len(u) \in Nat /\ DOMAIN u = 1 .. Len(u) /\ DOMAIN Tail(u) = 1 .. Len(u) - 1
  OBVIOUS
<1>2. \A i \in DOMAIN Tail(u) : i + 1 \in DOMAIN u /\ i \in Nat /\ 1 < i + 1 /\ Tail(u)[i] = u[i + 1]
  BY <1>1
<1>3. \A i \in DOMAIN Tail(u) : Head(u) < Tail(u)[i]
  BY <1>1, <1>2 DEF Increasing
<1>4. \A i, j \in DOMAIN Tail(u) : i < j => i + 1 < j + 1
  BY <1>2
<1>5. Increasing(Tail(u))
  BY <1>2, <1>4 DEF Increasing
<1> QED BY <1>1, <1>2, <1>3, <1>5

\* Entries in sequences are naturals.
LEMMA MessagesAreNat ==
  /\ Messages \subseteq Nat
  /\ \A u \in Seq(Messages) : u \in Seq(Nat) /\ \A i \in DOMAIN u : u[i] \in Messages
<1>1. Messages \subseteq Nat
  BY EntriesAreFinite
<1>2. ASSUME NEW u \in Seq(Messages) PROVE u \in Seq(Nat) /\ \A i \in DOMAIN u : u[i] \in Messages
  <2>1. /\ \A i \in 1 .. Len(u) : u[i] \in Messages
        /\ u = [i \in 1 .. Len(u) |-> u[i]] /\ Len(u) \in Nat /\ DOMAIN u = 1 .. Len(u)
    OBVIOUS
  <2>2. u \in [1 .. Len(u) -> Nat]
    BY <1>1, <2>1
  <2> QED BY <2>1, <2>2
<1> QED BY <1>1, <1>2

-----------------------------------------------------------------------------
(* The inductive invariant of the readers *)

\* Where a reader stands tells what it has in hand.
PhaseInv(s) ==
  /\ phase[s] \in {"unused", "list", "claim"} => last[s] = 0 /\ channel[s] = <<>>
  /\ (phase[s] = "relay") <=> (batch[s] # <<>>)
  /\ phase[s] \notin {"list", "claim"} => found[s] = <<>>

\* What it listed, relayed and has still to relay is in order, after what its
\* receiver took, and none of it is new to the group.
OrderInv(s) ==
  /\ Increasing(found[s]) /\ Increasing(channel[s]) /\ Increasing(batch[s])
  /\ last[s] <= delivered
  /\ \A i \in DOMAIN channel[s] : last[s] < channel[s][i] /\ channel[s][i] <= delivered
  /\ \A j \in DOMAIN batch[s] : last[s] < batch[s][j] /\ batch[s][j] <= delivered
  /\ \A i \in DOMAIN channel[s], j \in DOMAIN batch[s] : channel[s][i] < batch[s][j]

\* What was pending when it started and still is has been listed, is ahead of the
\* listing, or was claimed.
RecoveryInv(s) ==
  /\ \A m \in owed[s] : m <= delivered
  /\ phase[s] = "list" =>
       \A m \in owed[s] : IsPending(m) =>
         m > LastFound(s) \/ \E i \in DOMAIN found[s] : found[s][i] = m
  /\ phase[s] = "claim" =>
       \A m \in owed[s] : IsPending(m) => \E i \in DOMAIN found[s] : found[s][i] = m
  /\ phase[s] \in {"relay", "read"} => \A m \in owed[s] : ~ IsPending(m)

ReaderInv(s) == PhaseInv(s) /\ OrderInv(s) /\ RecoveryInv(s)

\* Only what was delivered is pending.
PendingInv == \A m \in Messages : IsPending(m) => m <= delivered

BusInv == Inv /\ TypeOK /\ PendingInv /\ \A s \in Subscriptions : ReaderInv(s)

\* Nothing about a subscription changes.
SameReader(t) ==
  /\ phase'[t] = phase[t] /\ found'[t] = found[t] /\ batch'[t] = batch[t]
  /\ channel'[t] = channel[t] /\ last'[t] = last[t] /\ owed'[t] = owed[t]

\* Redis goes forward: what was delivered and is not pending stays so.
RedisForward ==
  /\ delivered' \in Nat /\ delivered <= delivered'
  /\ \A m \in Messages : pending'[m] # None => m <= delivered' /\ (m <= delivered => pending[m] # None)

\* Whatever others do in Redis, a reader's invariant holds while it does nothing.
LEMMA OtherReaders ==
  ASSUME BusInv, NEW t \in Subscriptions, SameReader(t), RedisForward
  PROVE  ReaderInv(t)'
<1>1. /\ delivered \in Nat /\ delivered' \in Nat /\ delivered <= delivered'
      /\ last[t] \in Nat /\ owed[t] \subseteq Messages /\ Messages \subseteq Nat
      /\ channel[t] \in Seq(Messages) /\ batch[t] \in Seq(Messages)
  BY RedisBusAssumption, MessagesAreNat DEF BusInv, TypeOK, RedisForward
<1>2. /\ \A i \in DOMAIN channel[t] : channel[t][i] \in Nat
      /\ \A i \in DOMAIN batch[t] : batch[t][i] \in Nat
  BY <1>1, MessagesAreNat
<1>3. ReaderInv(t)
  BY DEF BusInv
<1>4. PhaseInv(t)'
  BY <1>3 DEF ReaderInv, PhaseInv, SameReader
<1>5. OrderInv(t)'
  <2>1. /\ last[t] <= delivered'
        /\ \A i \in DOMAIN channel[t] : channel[t][i] <= delivered'
        /\ \A i \in DOMAIN batch[t] : batch[t][i] <= delivered'
    BY <1>1, <1>2, <1>3 DEF ReaderInv, OrderInv
  <2>2. /\ Increasing(found[t])' = Increasing(found[t])
        /\ Increasing(channel[t])' = Increasing(channel[t])
        /\ Increasing(batch[t])' = Increasing(batch[t])
    BY DEF SameReader, Increasing
  <2> QED BY <1>3, <2>1, <2>2 DEF ReaderInv, OrderInv, SameReader
<1>6. \A m \in owed[t] : m \in Nat /\ m <= delivered /\ m <= delivered' /\ (pending'[m] # None => pending[m] # None)
  <2> SUFFICES ASSUME NEW m \in owed[t]
               PROVE  m \in Nat /\ m <= delivered /\ m <= delivered'
                      /\ (pending'[m] # None => pending[m] # None)
    OBVIOUS
  <2>1. m \in Messages /\ m \in Nat /\ m <= delivered
    BY <1>1, <1>3 DEF ReaderInv, RecoveryInv
  <2>2. m <= delivered'
    BY <1>1, <2>1
  <2> QED BY <2>1, <2>2 DEF RedisForward
<1>7. LastFound(t)' = LastFound(t)
  BY DEF LastFound, SameReader
<1>8. RecoveryInv(t)'
  BY <1>3, <1>6, <1>7 DEF ReaderInv, RecoveryInv, SameReader, IsPending
<1> QED BY <1>4, <1>5, <1>8 DEF ReaderInv

\* A step of one reader, or of its application, leaves the others alone.
LEMMA OneReader ==
  ASSUME BusInv, NEW s \in Subscriptions, Inv', TypeOK', RedisForward, ReaderInv(s)',
         \A t \in Subscriptions \ {s} : SameReader(t)
  PROVE  BusInv'
<1>1. PendingInv'
  BY DEF RedisForward, PendingInv, IsPending
<1>2. \A t \in Subscriptions \ {s} : ReaderInv(t)'
  BY OtherReaders
<1>3. \A t \in Subscriptions : ReaderInv(t)'
  BY <1>2
<1> QED BY <1>1, <1>3 DEF BusInv

\* So does a step of no reader.
LEMMA NoReader ==
  ASSUME BusInv, Inv', TypeOK', RedisForward, \A t \in Subscriptions : SameReader(t)
  PROVE  BusInv'
<1>1. PendingInv'
  BY DEF RedisForward, PendingInv, IsPending
<1>2. \A t \in Subscriptions : ReaderInv(t)'
  BY OtherReaders
<1> QED BY <1>1, <1>2 DEF BusInv

-----------------------------------------------------------------------------
(* The steps of a reader *)

\* A step that leaves Redis alone moves it forward trivially.
LEMMA RedisStands ==
  ASSUME BusInv, UNCHANGED redisVars
  PROVE  RedisForward
BY RedisBusAssumption DEF BusInv, TypeOK, PendingInv, IsPending, RedisForward, redisVars

\* XCLAIM makes nothing pending.
LEMMA ClaimGoesForward ==
  ASSUME BusInv, NEW c, NEW ids, ClaimFor(c, ids)
  PROVE  RedisForward
<1>1. delivered' = delivered /\ delivered \in Nat
  BY RedisBusAssumption DEF ClaimFor, BusInv, TypeOK
<1>2. \A m \in Messages : pending'[m] # None => pending[m] # None
  BY DEF ClaimFor, IsPending
<1>3. \A m \in Messages : pending[m] # None => m <= delivered
  BY DEF BusInv, PendingInv, IsPending
<1> QED BY <1>1, <1>2, <1>3 DEF RedisForward

\* XREADGROUP makes pending only what is new to the group.
LEMMA DeliverGoesForward ==
  ASSUME BusInv, NEW c, DeliverTo(c)
  PROVE  /\ RedisForward /\ Undelivered = delivered + 1 .. delivered' /\ delivered < delivered'
         /\ delivered' <= MaxMessages /\ delivered \in Nat /\ Undelivered \subseteq Messages
<1>1. /\ delivered \in Nat /\ published \in Nat /\ MaxMessages \in Nat
      /\ STREAM_READ_COUNT \in Nat /\ delivered <= published /\ published <= MaxMessages
  BY RedisBusAssumption DEF BusInv, TypeOK
<1>2. /\ delivered' \in Nat /\ delivered' <= published
      /\ Undelivered = delivered + 1 .. delivered'
  BY <1>1 DEF DeliverTo, LastToDeliver, Undelivered
<1>3. delivered < delivered'
  BY <1>1, <1>2 DEF DeliverTo
<1>4. Undelivered \subseteq Messages
  BY <1>1, <1>2 DEF Messages
<1>5. pending' = [m \in Messages |-> IF m \in Undelivered THEN c ELSE pending[m]]
  BY DEF DeliverTo
<1>6. ASSUME NEW m \in Messages, pending'[m] # None
      PROVE  m <= delivered' /\ (m <= delivered => pending[m] # None)
  <2>1. m \in Nat
    BY MessagesAreNat
  <2>2. CASE m \in Undelivered
    BY <1>1, <1>2, <2>1, <2>2
  <2>3. CASE m \notin Undelivered
    <3>1. pending[m] # None
      BY <1>5, <1>6, <2>3
    <3>2. m <= delivered
      BY <3>1 DEF BusInv, PendingInv, IsPending
    <3> QED BY <1>1, <1>2, <1>3, <2>1, <3>1, <3>2
  <2> QED BY <2>2, <2>3
<1>7. RedisForward
  BY <1>1, <1>2, <1>3, <1>6 DEF RedisForward
<1> QED BY <1>1, <1>2, <1>3, <1>4, <1>7

\* The listing so far, and where it stands.
LEMMA FoundFacts ==
  ASSUME BusInv, NEW s \in Subscriptions
  PROVE  /\ found[s] \in Seq(Messages) /\ found[s] \in Seq(Nat) /\ LastFound(s) \in Nat
         /\ \A i \in DOMAIN found[s] : found[s][i] \in Messages /\ found[s][i] <= LastFound(s)
<1>1. found[s] \in Seq(Messages) /\ Increasing(found[s])
  BY DEF BusInv, TypeOK, ReaderInv, OrderInv
<1>2. found[s] \in Seq(Nat) /\ \A i \in DOMAIN found[s] : found[s][i] \in Messages
  BY <1>1, MessagesAreNat
<1>3. CASE found[s] = <<>>
  BY <1>1, <1>2, <1>3 DEF LastFound
<1>4. CASE found[s] # <<>>
  BY <1>1, <1>2, <1>4, LastIsGreatest DEF LastFound
<1> QED BY <1>1, <1>2, <1>3, <1>4

\* pending_ids: a page goes after the pages before it and skips nothing.
LEMMA ListPagePreserves ==
  ASSUME BusInv, Inv', NEW s \in Subscriptions, ListPage(s)
  PROVE  BusInv'
<1>1. PICK page \in Listings({m \in Messages : InPage(m, LastFound(s))}) :
        /\ found' = [found EXCEPT ![s] = @ \o page]
        /\ phase' = [phase EXCEPT ![s] = IF Len(page) = PENDING_PAGE_SIZE THEN "list"
                                         ELSE IF found'[s] = <<>> THEN "read" ELSE "claim"]
  BY DEF ListPage
<1>2. /\ phase[s] = "list" /\ UNCHANGED redisVars
      /\ UNCHANGED <<consumer, batch, channel, receiver, held, last, owed, processed>>
  BY DEF ListPage, historyVars
<1>t. /\ found \in [Subscriptions -> Seq(Messages)]
      /\ phase \in [Subscriptions -> {"unused", "list", "claim", "relay", "read", "ended"}]
  BY DEF BusInv, TypeOK
<1>f. /\ found[s] \in Seq(Messages) /\ found[s] \in Seq(Nat) /\ LastFound(s) \in Nat
      /\ \A i \in DOMAIN found[s] : found[s][i] \in Messages /\ found[s][i] <= LastFound(s)
      /\ Increasing(found[s])
  BY FoundFacts DEF BusInv, ReaderInv, OrderInv
<1>p. /\ page \in Seq(Messages) /\ Increasing(page)
      /\ \A i \in DOMAIN page : IsPending(page[i]) /\ page[i] > LastFound(s)
      /\ \A m \in Messages :
           /\ IsPending(m) /\ m > LastFound(s)
           /\ page = <<>> \/ Len(page) # PENDING_PAGE_SIZE \/ m <= page[Len(page)]
           => \E i \in DOMAIN page : page[i] = m
  BY <1>f, PageFacts
<1>q. page \in Seq(Nat) /\ \A i \in DOMAIN page : page[i] \in Messages /\ page[i] \in Nat
  BY <1>p, MessagesAreNat
<1>3. Increasing(found[s] \o page)
  <2>1. ASSUME NEW i \in DOMAIN found[s], NEW j \in DOMAIN page PROVE found[s][i] < page[j]
    <3>1. found[s][i] \in Nat /\ page[j] \in Nat
      BY <1>f, <1>q, MessagesAreNat
    <3> QED BY <1>f, <1>p, <3>1
  <2> QED BY <1>f, <1>p, <1>q, <2>1, IncreasingConcat
<1>4. /\ found'[s] = found[s] \o page /\ found[s] \o page \in Seq(Messages)
      /\ phase'[s] = IF Len(page) = PENDING_PAGE_SIZE THEN "list"
                     ELSE IF found'[s] = <<>> THEN "read" ELSE "claim"
  BY <1>1, <1>t, <1>f, <1>p
<1>5. \A t \in Subscriptions \ {s} : SameReader(t)
  BY <1>1, <1>2, <1>t DEF SameReader
<1>6. TypeOK'
  BY <1>1, <1>2, <1>4, <1>t DEF BusInv, TypeOK, redisVars
<1>7. /\ \A i \in DOMAIN found[s] : \E k \in DOMAIN (found[s] \o page) :
           (found[s] \o page)[k] = found[s][i]
      /\ \A i \in DOMAIN page : \E k \in DOMAIN (found[s] \o page) :
           (found[s] \o page)[k] = page[i]
  <2>1. /\ DOMAIN found[s] = 1 .. Len(found[s]) /\ DOMAIN page = 1 .. Len(page)
        /\ DOMAIN (found[s] \o page) = 1 .. Len(found[s]) + Len(page)
        /\ Len(found[s]) \in Nat /\ Len(page) \in Nat
        /\ \A k \in 1 .. Len(found[s]) : (found[s] \o page)[k] = found[s][k]
        /\ \A k \in 1 .. Len(page) : (found[s] \o page)[Len(found[s]) + k] = page[k]
    BY <1>f, <1>p
  <2>2. \A k \in 1 .. Len(page) : Len(found[s]) + k \in 1 .. Len(found[s]) + Len(page)
    BY <2>1
  <2>3. \A k \in 1 .. Len(found[s]) : k \in 1 .. Len(found[s]) + Len(page)
    BY <2>1
  <2> QED BY <2>1, <2>2, <2>3
<1>8. ReaderInv(s)
  BY DEF BusInv
<1>9. PhaseInv(s)'
  <2>1. CASE found[s] \o page = <<>>
    BY <1>2, <1>4, <1>8, <2>1 DEF ReaderInv, PhaseInv
  <2>2. CASE found[s] \o page # <<>>
    BY <1>2, <1>4, <1>8, <2>2 DEF ReaderInv, PhaseInv
  <2> QED BY <2>1, <2>2
<1>10. OrderInv(s)'
  <2>1. Increasing(found[s])'
    BY <1>3, <1>4 DEF Increasing
  <2>2. Increasing(channel[s])' /\ Increasing(batch[s])'
    BY <1>2, <1>8 DEF Increasing, ReaderInv, OrderInv
  <2> QED BY <1>2, <1>8, <2>1, <2>2 DEF ReaderInv, OrderInv, redisVars
<1>11. RecoveryInv(s)'
  <2> DEFINE listed == found[s] \o page
  <2>1. \A m \in owed[s] : m \in Messages /\ m \in Nat /\ m <= delivered
    BY <1>8, MessagesAreNat DEF BusInv, TypeOK, ReaderInv, RecoveryInv
  <2>2. ASSUME NEW m \in owed[s], IsPending(m),
               page = <<>> \/ Len(page) # PENDING_PAGE_SIZE \/ m <= page[Len(page)]
        PROVE  \E k \in DOMAIN listed : listed[k] = m
    <3>1. CASE m > LastFound(s)
      BY <1>p, <1>7, <2>1, <2>2, <3>1
    <3>2. CASE \E i \in DOMAIN found[s] : found[s][i] = m
      BY <1>7, <3>2
    <3> QED BY <1>2, <1>8, <2>2, <3>1, <3>2 DEF ReaderInv, RecoveryInv
  <2>3. CASE Len(page) # PENDING_PAGE_SIZE
    <3>1. \A m \in owed[s] : IsPending(m) => \E k \in DOMAIN listed : listed[k] = m
      BY <2>2, <2>3
    <3>2. listed = <<>> => \A m \in owed[s] : ~ IsPending(m)
      <4>1. listed = <<>> => DOMAIN listed = {}
        BY <1>f, <1>p
      <4> QED BY <3>1, <4>1
    <3>3. /\ phase'[s] \in {"claim", "read"} /\ (phase'[s] = "read" => listed = <<>>)
          /\ found'[s] = listed
      BY <1>4, <2>3
    <3> QED BY <1>2, <2>1, <3>1, <3>2, <3>3 DEF RecoveryInv, IsPending, redisVars
  <2>4. CASE Len(page) = PENDING_PAGE_SIZE
    <3>1. Len(page) >= 1 /\ Len(page) \in Nat /\ page # <<>> /\ Len(page) \in DOMAIN page
      BY <1>p, <2>4, RedisBusAssumption
    <3>2. LastFound(s)' = page[Len(page)] /\ page[Len(page)] \in Nat
      <4>1. /\ listed # <<>> /\ Len(listed) = Len(found[s]) + Len(page)
            /\ listed[Len(listed)] = page[Len(page)]
        BY <1>f, <1>p, <3>1
      <4> QED BY <1>4, <1>q, <3>1, <4>1 DEF LastFound
    <3>3. ASSUME NEW m \in owed[s], IsPending(m)
          PROVE  m > page[Len(page)] \/ \E k \in DOMAIN listed : listed[k] = m
      <4>1. m > page[Len(page)] \/ m <= page[Len(page)]
        BY <2>1, <3>2
      <4> QED BY <2>2, <3>3, <4>1
    <3>4. phase'[s] = "list" /\ found'[s] = listed
      BY <1>4, <2>4
    <3> QED BY <1>2, <2>1, <3>2, <3>3, <3>4 DEF RecoveryInv, IsPending, redisVars
  <2> QED BY <2>3, <2>4
<1>12. ReaderInv(s)'
  BY <1>9, <1>10, <1>11 DEF ReaderInv
<1> QED BY <1>2, <1>5, <1>6, <1>12, RedisStands, OneReader

\* What the claim of a recovery returns: what it listed and is still pending, in
\* the order of the listing.
LEMMA ClaimedFacts ==
  ASSUME BusInv, NEW s \in Subscriptions,
         NEW at \in Listings({i \in DOMAIN found[s] : IsPending(found[s][i])}),
         NEW claimed, claimed = [i \in DOMAIN at |-> found[s][at[i]]]
  PROVE  /\ claimed \in Seq(Messages) /\ Increasing(claimed)
         /\ (claimed = <<>>) <=> ({claimed[i] : i \in DOMAIN claimed} = {})
         /\ \A i \in DOMAIN claimed : IsPending(claimed[i]) /\ claimed[i] \in Messages
         /\ \A k \in DOMAIN found[s] : IsPending(found[s][k]) =>
              found[s][k] \in {claimed[i] : i \in DOMAIN claimed}
<1> DEFINE A == {i \in DOMAIN found[s] : IsPending(found[s][i])}
<1>f. /\ found[s] \in Seq(Messages) /\ Increasing(found[s])
      /\ \A i \in DOMAIN found[s] : found[s][i] \in Messages
  BY FoundFacts DEF BusInv, ReaderInv, OrderInv
<1>1. A \subseteq Nat /\ IsFiniteSet(A)
  <2>1. DOMAIN found[s] = 1 .. Len(found[s]) /\ Len(found[s]) \in Nat
    BY <1>f
  <2>2. IsFiniteSet(1 .. Len(found[s]))
    BY <2>1, FS_Interval
  <2>3. A \subseteq 1 .. Len(found[s])
    BY <2>1
  <2> QED BY <2>1, <2>2, <2>3, FS_Subset
<1>2. \A i \in A : i \in DOMAIN found[s] /\ IsPending(found[s][i])
  OBVIOUS
<1>3. \A k \in DOMAIN found[s] : IsPending(found[s][k]) => k \in A
  OBVIOUS
<1>4. at \in Listings(A)
  OBVIOUS
<1> HIDE DEF A
<1>5. /\ Len(at) \in Nat /\ DOMAIN at = 1 .. Len(at)
      /\ \A i \in 1 .. Len(at) : at[i] \in A
      /\ Increasing(at)
      /\ \A m \in A : \E i \in 1 .. Len(at) : at[i] = m
  BY <1>1, <1>4, ListingFacts
<1>6. claimed = [i \in 1 .. Len(at) |-> found[s][at[i]]]
  BY <1>5
<1>7. \A i \in 1 .. Len(at) : claimed[i] = found[s][at[i]] /\ claimed[i] \in Messages
  BY <1>f, <1>2, <1>5, <1>6
<1>8. claimed \in [1 .. Len(at) -> Messages]
  BY <1>6, <1>7
<1>9. claimed \in Seq(Messages) /\ Len(claimed) = Len(at) /\ DOMAIN claimed = 1 .. Len(at)
  BY <1>5, <1>8
<1>10. Increasing(claimed)
  <2> SUFFICES ASSUME NEW i \in DOMAIN claimed, NEW j \in DOMAIN claimed, i < j
               PROVE  claimed[i] < claimed[j]
    BY DEF Increasing
  <2>1. at[i] < at[j] /\ at[i] \in DOMAIN found[s] /\ at[j] \in DOMAIN found[s]
    BY <1>2, <1>5, <1>9 DEF Increasing
  <2>2. found[s][at[i]] < found[s][at[j]]
    BY <1>f, <2>1 DEF Increasing
  <2> QED BY <1>7, <1>9, <2>2
<1>11. (claimed = <<>>) <=> ({claimed[i] : i \in DOMAIN claimed} = {})
  <2>1. claimed = <<>> <=> DOMAIN claimed = {}
    BY <1>5, <1>9
  <2> QED BY <2>1
<1>12. \A i \in DOMAIN claimed : IsPending(claimed[i]) /\ claimed[i] \in Messages
  BY <1>2, <1>5, <1>7, <1>9
<1>13. ASSUME NEW k \in DOMAIN found[s], IsPending(found[s][k])
       PROVE  found[s][k] \in {claimed[i] : i \in DOMAIN claimed}
  <2>1. PICK i \in 1 .. Len(at) : at[i] = k
    BY <1>3, <1>5, <1>13
  <2> QED BY <1>7, <1>9, <2>1
<1> QED BY <1>9, <1>10, <1>11, <1>12, <1>13

\* recover_pending_messages: what is claimed is owed no more, and is relayed first.
LEMMA RecoverPendingPreserves ==
  ASSUME BusInv, Inv', NEW s \in Subscriptions, RecoverPending(s)
  PROVE  BusInv'
<1>1. PICK at \in Listings({i \in DOMAIN found[s] : IsPending(found[s][i])}) :
        LET claimed == [i \in DOMAIN at |-> found[s][at[i]]]
            ids     == {claimed[i] : i \in DOMAIN claimed}
        IN  /\ ClaimFor(consumer[s], ids)
            /\ owed' = [owed EXCEPT ![s] = @ \ ids]
            /\ IF Decodable(ids)
               THEN /\ batch' = [batch EXCEPT ![s] = claimed]
                    /\ phase' = [phase EXCEPT ![s] = IF ids = {} THEN "read" ELSE "relay"]
               ELSE /\ phase' = [phase EXCEPT ![s] = "ended"]
                    /\ UNCHANGED batch
  BY DEF RecoverPending
<1> DEFINE claimed == [i \in DOMAIN at |-> found[s][at[i]]]
           ids     == {claimed[i] : i \in DOMAIN claimed}
<1>2. /\ claimed \in Seq(Messages) /\ Increasing(claimed)
      /\ (claimed = <<>>) <=> (ids = {})
      /\ \A i \in DOMAIN claimed : IsPending(claimed[i]) /\ claimed[i] \in Messages
      /\ \A k \in DOMAIN found[s] : IsPending(found[s][k]) => found[s][k] \in ids
  BY ClaimedFacts
<1>3. /\ ClaimFor(consumer[s], ids)
      /\ owed' = [owed EXCEPT ![s] = @ \ ids]
      /\ \/ /\ batch' = [batch EXCEPT ![s] = claimed]
            /\ phase' = [phase EXCEPT ![s] = IF ids = {} THEN "read" ELSE "relay"]
         \/ /\ phase' = [phase EXCEPT ![s] = "ended"]
            /\ UNCHANGED batch
  BY <1>1
<1> HIDE DEF claimed, ids
<1>4. /\ phase[s] = "claim" /\ found' = [found EXCEPT ![s] = <<>>]
      /\ UNCHANGED <<consumer, channel, receiver, held, last, processed>>
  BY DEF RecoverPending
<1>t. /\ found \in [Subscriptions -> Seq(Messages)] /\ batch \in [Subscriptions -> Seq(Messages)]
      /\ owed \in [Subscriptions -> SUBSET Messages]
      /\ phase \in [Subscriptions -> {"unused", "list", "claim", "relay", "read", "ended"}]
  BY DEF BusInv, TypeOK
<1>8. ReaderInv(s) /\ last[s] = 0 /\ channel[s] = <<>> /\ batch[s] = <<>>
  BY <1>4 DEF BusInv, ReaderInv, PhaseInv
<1>5. \A t \in Subscriptions \ {s} : SameReader(t)
  BY <1>3, <1>4, <1>t DEF SameReader
<1>6. RedisForward /\ delivered' = delivered
  BY <1>3, ClaimGoesForward DEF ClaimFor
<1>7. TypeOK'
  <2>1. /\ published' = published /\ delivered' = delivered
        /\ pending' \in [Messages -> Consumers \cup {None}]
        /\ consumer' \in [Subscriptions -> Consumers \cup {None}]
        /\ phase' \in [Subscriptions -> {"unused", "list", "claim", "relay", "read", "ended"}]
    BY <1>3 DEF Inv, RedisOK, ClaimFor
  <2>2. /\ found' \in [Subscriptions -> Seq(Messages)] /\ batch' \in [Subscriptions -> Seq(Messages)]
        /\ owed' \in [Subscriptions -> SUBSET Messages]
    <3>1. <<>> \in Seq(Messages) /\ owed[s] \ ids \in SUBSET Messages
      BY <1>t
    <3>2. found' \in [Subscriptions -> Seq(Messages)]
      BY <1>4, <1>t, <3>1
    <3>3. batch' \in [Subscriptions -> Seq(Messages)]
      BY <1>2, <1>3, <1>t
    <3>4. owed' \in [Subscriptions -> SUBSET Messages]
      BY <1>3, <1>t, <3>1
    <3> QED BY <3>2, <3>3, <3>4
  <2> QED BY <1>4, <2>1, <2>2 DEF BusInv, TypeOK
<1>9. /\ found'[s] = <<>> /\ owed'[s] = owed[s] \ ids
      /\ \/ batch'[s] = claimed /\ phase'[s] = IF ids = {} THEN "read" ELSE "relay"
         \/ batch'[s] = <<>> /\ phase'[s] = "ended"
      /\ channel'[s] = <<>> /\ last'[s] = 0
  BY <1>3, <1>4, <1>8, <1>t
<1>10. PhaseInv(s)'
  BY <1>2, <1>9 DEF PhaseInv
<1>11. OrderInv(s)'
  <2>1. \A i \in DOMAIN claimed : claimed[i] \in Nat /\ 0 < claimed[i] /\ claimed[i] <= delivered
    <3>1. \A m \in Messages : m \in Nat /\ 0 < m
      BY RedisBusAssumption DEF Messages
    <3> QED BY <1>2, <3>1 DEF BusInv, PendingInv
  <2>2. Increasing(<<>>) /\ DOMAIN <<>> = {}
    BY DEF Increasing
  <2>3. Increasing(found[s])' /\ Increasing(channel[s])' /\ Increasing(batch[s])'
    BY <1>2, <1>9, <2>2 DEF Increasing
  <2>4. 0 <= delivered'
    BY <1>6 DEF RedisForward
  <2> QED BY <1>6, <1>9, <2>1, <2>2, <2>3, <2>4 DEF OrderInv
<1>12. RecoveryInv(s)'
  <2>1. \A m \in owed[s] : m \in Messages /\ m <= delivered
    BY <1>8 DEF BusInv, TypeOK, ReaderInv, RecoveryInv
  <2>2. \A m \in owed[s] \ ids : ~ IsPending(m)
    BY <1>2, <1>4, <1>8 DEF ReaderInv, RecoveryInv
  <2>3. \A m \in owed[s] \ ids : ~ IsPending(m)'
    BY <1>6, <2>1, <2>2 DEF RedisForward, IsPending
  <2>4. phase'[s] \notin {"list", "claim"}
    BY <1>9
  <2> QED BY <1>6, <1>9, <2>1, <2>3, <2>4 DEF RecoveryInv
<1> QED BY <1>5, <1>6, <1>7, <1>10, <1>11, <1>12, OneReader DEF ReaderInv

\* A reader that gives up holds nothing that has to be in order.
LEMMA ReaderEnds ==
  ASSUME BusInv, NEW s \in Subscriptions, RedisForward, phase'[s] = "ended", found'[s] = <<>>,
         batch'[s] = <<>>, channel'[s] = channel[s] \/ channel'[s] = <<>>,
         last'[s] = last[s], owed'[s] = owed[s]
  PROVE  ReaderInv(s)'
<1>1. ReaderInv(s)
  BY DEF BusInv
<1>2. /\ delivered \in Nat /\ delivered' \in Nat /\ delivered <= delivered' /\ last[s] \in Nat
      /\ channel[s] \in Seq(Messages) /\ owed[s] \subseteq Messages /\ Messages \subseteq Nat
  BY MessagesAreNat DEF BusInv, TypeOK, RedisForward
<1>3. PhaseInv(s)'
  BY DEF PhaseInv
<1>4. Increasing(<<>>) /\ DOMAIN <<>> = {}
  BY DEF Increasing
<1>5. Increasing(found[s])' /\ Increasing(channel[s])' /\ Increasing(batch[s])'
  BY <1>1, <1>4 DEF ReaderInv, OrderInv, Increasing
<1>6. /\ last[s] <= delivered'
      /\ \A i \in DOMAIN channel[s] : channel[s][i] \in Nat /\ channel[s][i] <= delivered'
  <2>1. \A i \in DOMAIN channel[s] : channel[s][i] \in Nat
    BY <1>2, MessagesAreNat
  <2> QED BY <1>1, <1>2, <2>1 DEF ReaderInv, OrderInv
<1>7. OrderInv(s)'
  BY <1>1, <1>4, <1>5, <1>6 DEF ReaderInv, OrderInv
<1>8. \A m \in owed[s] : m <= delivered'
  <2>1. \A m \in owed[s] : m \in Nat /\ m <= delivered
    BY <1>1, <1>2 DEF ReaderInv, RecoveryInv
  <2> QED BY <1>2, <2>1
<1>9. RecoveryInv(s)'
  BY <1>8 DEF RecoveryInv
<1> QED BY <1>3, <1>7, <1>9 DEF ReaderInv

\* A reader ends in the recovery: XPENDING or XCLAIM failed, or its reply was lost.
LEMMA ReaderFailsPreserves ==
  ASSUME BusInv, Inv', NEW s \in Subscriptions, ReaderFails(s) \/ RecoverReplyLost(s)
  PROVE  BusInv'
<1>1. /\ phase[s] \in {"list", "claim"}
      /\ phase' = [phase EXCEPT ![s] = "ended"] /\ found' = [found EXCEPT ![s] = <<>>]
      /\ UNCHANGED <<consumer, batch, channel, receiver, held, last, owed, processed>>
  BY DEF ReaderFails, RecoverReplyLost, historyVars
<1>2. RedisForward /\ published' = published /\ delivered' = delivered
  <2>1. CASE ReaderFails(s)
    <3>1. UNCHANGED redisVars
      BY <2>1 DEF ReaderFails
    <3> QED BY <3>1, RedisStands DEF redisVars
  <2>2. CASE RecoverReplyLost(s)
    <3>1. ClaimFor(consumer[s], {found[s][i] : i \in DOMAIN found[s]})
      BY <2>2 DEF RecoverReplyLost
    <3> QED BY <3>1, ClaimGoesForward DEF ClaimFor
  <2> QED BY <2>1, <2>2
<1>3. /\ found \in [Subscriptions -> Seq(Messages)] /\ <<>> \in Seq(Messages)
      /\ phase \in [Subscriptions -> {"unused", "list", "claim", "relay", "read", "ended"}]
  BY DEF BusInv, TypeOK
<1>4. \A t \in Subscriptions \ {s} : SameReader(t)
  BY <1>1, <1>3 DEF SameReader
<1>5. TypeOK'
  BY <1>1, <1>2, <1>3 DEF BusInv, TypeOK, Inv, RedisOK
<1>6. batch[s] = <<>>
  BY <1>1 DEF BusInv, ReaderInv, PhaseInv
<1>7. ReaderInv(s)'
  BY <1>1, <1>2, <1>3, <1>6, ReaderEnds
<1> QED BY <1>2, <1>4, <1>5, <1>7, OneReader

\* The receiver is gone or the entry cannot be decoded.
LEMMA RelayFailsPreserves ==
  ASSUME BusInv, Inv', NEW s \in Subscriptions, RelayFails(s)
  PROVE  BusInv'
<1>1. /\ phase[s] = "relay" /\ UNCHANGED redisVars
      /\ phase' = [phase EXCEPT ![s] = "ended"] /\ batch' = [batch EXCEPT ![s] = <<>>]
      /\ UNCHANGED <<consumer, found, channel, receiver, held, last, owed, processed>>
  BY DEF RelayFails, historyVars
<1>2. RedisForward
  BY <1>1, RedisStands
<1>3. /\ batch \in [Subscriptions -> Seq(Messages)] /\ <<>> \in Seq(Messages)
      /\ phase \in [Subscriptions -> {"unused", "list", "claim", "relay", "read", "ended"}]
  BY DEF BusInv, TypeOK
<1>4. \A t \in Subscriptions \ {s} : SameReader(t)
  BY <1>1, <1>3 DEF SameReader
<1>5. TypeOK'
  BY <1>1, <1>3 DEF BusInv, TypeOK, redisVars
<1>6. found[s] = <<>>
  BY <1>1 DEF BusInv, ReaderInv, PhaseInv
<1>7. ReaderInv(s)'
  BY <1>1, <1>2, <1>3, <1>6, ReaderEnds
<1> QED BY <1>2, <1>4, <1>5, <1>7, OneReader

\* tx.send: the head of the batch goes behind the channel.
LEMMA RelayPreserves ==
  ASSUME BusInv, Inv', NEW s \in Subscriptions, Relay(s)
  PROVE  BusInv'
<1> DEFINE h == Head(batch[s])
           rest == Tail(batch[s])
           longer == Append(channel[s], h)
<1>1. /\ phase[s] = "relay" /\ UNCHANGED redisVars
      /\ Len(channel[s]) < SUBSCRIPTION_CHANNEL_CAPACITY
      /\ channel' = [channel EXCEPT ![s] = longer]
      /\ batch' = [batch EXCEPT ![s] = rest]
      /\ phase' = [phase EXCEPT ![s] = IF Len(batch[s]) = 1 THEN "read" ELSE "relay"]
      /\ UNCHANGED <<consumer, found, receiver, held, last, owed, processed>>
  BY DEF Relay, historyVars
<1>2. RedisForward
  BY <1>1, RedisStands
<1>3. /\ batch \in [Subscriptions -> Seq(Messages)] /\ channel \in [Subscriptions -> Seq(Messages)]
      /\ phase \in [Subscriptions -> {"unused", "list", "claim", "relay", "read", "ended"}]
      /\ batch[s] \in Seq(Messages) /\ channel[s] \in Seq(Messages)
  BY DEF BusInv, TypeOK
<1>4. ReaderInv(s) /\ batch[s] # <<>> /\ Increasing(batch[s]) /\ found[s] = <<>>
  BY <1>1 DEF BusInv, ReaderInv, PhaseInv, OrderInv
<1>5. /\ h \in Messages /\ h = batch[s][1] /\ 1 \in DOMAIN batch[s]
      /\ rest \in Seq(Messages) /\ Increasing(rest) /\ Len(rest) = Len(batch[s]) - 1
      /\ \A i \in DOMAIN rest : i + 1 \in DOMAIN batch[s] /\ rest[i] = batch[s][i + 1]
      /\ \A i \in DOMAIN rest : h < rest[i]
  BY <1>3, <1>4, TailIncreases
<1> HIDE DEF h, rest
<1>6. (Len(batch[s]) = 1) <=> (rest = <<>>)
  <2>0. rest \in Seq(Messages)
    BY <1>5
  <2>1. (rest = <<>>) <=> (Len(rest) = 0)
    BY <2>0
  <2>2. Len(batch[s]) \in Nat
    BY <1>3
  <2> QED BY <1>5, <2>1, <2>2
<1>7. /\ longer \in Seq(Messages) /\ Len(longer) = Len(channel[s]) + 1 /\ Len(channel[s]) \in Nat
      /\ DOMAIN longer = 1 .. Len(channel[s]) + 1 /\ DOMAIN channel[s] = 1 .. Len(channel[s])
      /\ \A i \in 1 .. Len(channel[s]) : longer[i] = channel[s][i]
      /\ longer[Len(channel[s]) + 1] = h
  BY <1>3, <1>5
<1>a. \A i \in DOMAIN longer : (i \in DOMAIN channel[s] /\ longer[i] = channel[s][i]) \/ (i = Len(channel[s]) + 1 /\ longer[i] = h)
  BY <1>7
<1> HIDE DEF longer
<1>8. /\ channel'[s] = longer /\ batch'[s] = rest
      /\ phase'[s] = IF Len(batch[s]) = 1 THEN "read" ELSE "relay"
      /\ found'[s] = <<>> /\ last'[s] = last[s] /\ owed'[s] = owed[s] /\ delivered' = delivered
  BY <1>1, <1>3, <1>4 DEF redisVars
<1>9. \A t \in Subscriptions \ {s} : SameReader(t)
  BY <1>1, <1>3 DEF SameReader
<1>10. TypeOK'
  <2>1. channel' \in [Subscriptions -> Seq(Messages)] /\ batch' \in [Subscriptions -> Seq(Messages)]
    BY <1>1, <1>3, <1>5, <1>7
  <2>2. \A t \in Subscriptions : Len(channel'[t]) <= SUBSCRIPTION_CHANNEL_CAPACITY
    <3>1. \A t \in Subscriptions : t # s => channel'[t] = channel[t]
      BY <1>1, <1>3
    <3>2. Len(channel'[s]) <= SUBSCRIPTION_CHANNEL_CAPACITY
      BY <1>1, <1>7, <1>8, RedisBusAssumption
    <3> QED BY <3>1, <3>2 DEF BusInv, TypeOK
  <2>3. phase' \in [Subscriptions -> {"unused", "list", "claim", "relay", "read", "ended"}]
    BY <1>1, <1>3
  <2> QED BY <1>1, <2>1, <2>2, <2>3 DEF BusInv, TypeOK, redisVars
<1>11. PhaseInv(s)'
  BY <1>6, <1>8 DEF PhaseInv
<1>12. OrderInv(s)'
  <2>1. /\ last[s] < h /\ h <= delivered
        /\ \A i \in DOMAIN channel[s] : channel[s][i] < h
        /\ \A i \in DOMAIN channel[s] : last[s] < channel[s][i] /\ channel[s][i] <= delivered
        /\ Increasing(channel[s]) /\ last[s] <= delivered
    BY <1>4, <1>5 DEF ReaderInv, OrderInv
  <2>2. \A j \in DOMAIN rest : last[s] < rest[j] /\ rest[j] <= delivered
    BY <1>4, <1>5 DEF ReaderInv, OrderInv
  <2>3. \A i \in DOMAIN channel[s], j \in DOMAIN rest : channel[s][i] < rest[j]
    BY <1>4, <1>5 DEF ReaderInv, OrderInv
  <2>4. \A i \in DOMAIN longer : last[s] < longer[i] /\ longer[i] <= delivered
    BY <1>a, <2>1
  <2>5. \A i \in DOMAIN longer, j \in DOMAIN rest : longer[i] < rest[j]
    BY <1>a, <1>5, <2>3
  <2>6. Increasing(longer)
    <3> SUFFICES ASSUME NEW i \in DOMAIN longer, NEW j \in DOMAIN longer, i < j
                 PROVE  longer[i] < longer[j]
      BY DEF Increasing
    <3>1. i \in DOMAIN channel[s] /\ longer[i] = channel[s][i]
      BY <1>7
    <3>2. CASE j \in DOMAIN channel[s] /\ longer[j] = channel[s][j]
      BY <2>1, <3>1, <3>2 DEF Increasing
    <3>3. CASE longer[j] = h
      BY <2>1, <3>1, <3>3
    <3> QED BY <1>a, <3>2, <3>3
  <2>7. Increasing(found[s])' /\ Increasing(channel[s])' /\ Increasing(batch[s])'
    BY <1>5, <1>8, <2>6 DEF Increasing
  <2> QED BY <1>8, <2>1, <2>2, <2>4, <2>5, <2>7 DEF OrderInv
<1>13. RecoveryInv(s)'
  <2>1. \A m \in owed[s] : m <= delivered /\ ~ IsPending(m)
    BY <1>1, <1>4 DEF ReaderInv, RecoveryInv
  <2>2. phase'[s] \notin {"list", "claim"}
    BY <1>8
  <2> QED BY <1>1, <1>8, <2>1, <2>2 DEF RecoveryInv, IsPending, redisVars
<1> QED BY <1>2, <1>9, <1>10, <1>11, <1>12, <1>13, OneReader DEF ReaderInv

\* xreadgroup: what is read comes after everything the group was given before.
LEMMA ReadNewPreserves ==
  ASSUME BusInv, Inv', NEW s \in Subscriptions, ReadNew(s)
  PROVE  BusInv'
<1>1. PICK new \in Listings(Undelivered) : batch' = [batch EXCEPT ![s] = new]
  BY DEF ReadNew
<1>2. /\ phase[s] = "read" /\ DeliverTo(consumer[s])
      /\ phase' = [phase EXCEPT ![s] = "relay"]
      /\ UNCHANGED <<consumer, found, channel, receiver, held, last, owed, processed>>
  BY DEF ReadNew, historyVars
<1>3. /\ RedisForward /\ Undelivered = delivered + 1 .. delivered' /\ delivered < delivered'
      /\ delivered' <= MaxMessages /\ delivered \in Nat /\ Undelivered \subseteq Messages
      /\ delivered' \in Nat
  BY <1>2, DeliverGoesForward DEF RedisForward
<1>4. /\ new \in Seq(Undelivered) /\ Len(new) \in Nat
      /\ DOMAIN new = 1 .. Len(new)
      /\ \A i \in 1 .. Len(new) : new[i] \in Undelivered
      /\ Increasing(new) /\ new # <<>>
  <2>1. Undelivered \subseteq Nat /\ IsFiniteSet(Undelivered)
    BY <1>3, EntriesAreFinite
  <2>2. Undelivered # {}
    BY <1>2 DEF DeliverTo
  <2> QED BY <2>1, <2>2, ListingFacts
<1>5. new \in Seq(Messages)
  <2>1. \A i \in 1 .. Len(new) : new[i] \in Messages
    BY <1>3, <1>4
  <2>2. new = [i \in 1 .. Len(new) |-> new[i]]
    BY <1>4
  <2>3. new \in [1 .. Len(new) -> Messages]
    BY <2>1, <2>2
  <2> QED BY <1>4, <2>3
<1>t. /\ batch \in [Subscriptions -> Seq(Messages)]
      /\ phase \in [Subscriptions -> {"unused", "list", "claim", "relay", "read", "ended"}]
  BY DEF BusInv, TypeOK
<1>6. \A t \in Subscriptions \ {s} : SameReader(t)
  BY <1>1, <1>2, <1>t DEF SameReader
<1>7. TypeOK'
  <2>1. batch' \in [Subscriptions -> Seq(Messages)]
    BY <1>1, <1>5, <1>t
  <2>2. published' = published
    BY <1>2 DEF DeliverTo
  <2> QED BY <1>2, <2>1, <2>2 DEF BusInv, TypeOK, Inv, RedisOK
<1>8. ReaderInv(s) /\ found[s] = <<>>
  BY <1>2 DEF BusInv, ReaderInv, PhaseInv
<1>9. /\ phase'[s] = "relay" /\ batch'[s] = new /\ found'[s] = <<>> /\ channel'[s] = channel[s]
      /\ last'[s] = last[s] /\ owed'[s] = owed[s]
  BY <1>1, <1>2, <1>8, <1>t
<1>10. PhaseInv(s)'
  BY <1>4, <1>9 DEF PhaseInv
<1>11. OrderInv(s)'
  <2>1. last[s] \in Nat /\ \A i \in DOMAIN channel[s] : channel[s][i] \in Nat
    BY MessagesAreNat DEF BusInv, TypeOK
  <2>2. \A j \in DOMAIN new : new[j] \in Nat /\ delivered < new[j] /\ new[j] <= delivered'
    BY <1>3, <1>4
  <2>3. last[s] <= delivered /\ last[s] <= delivered' /\ \A j \in DOMAIN new : last[s] < new[j]
    BY <1>3, <1>8, <2>1, <2>2 DEF ReaderInv, OrderInv
  <2>4. \A i \in DOMAIN channel[s] : last[s] < channel[s][i] /\ channel[s][i] <= delivered /\ channel[s][i] <= delivered'
    BY <1>3, <1>8, <2>1 DEF ReaderInv, OrderInv
  <2>5. \A i \in DOMAIN channel[s], j \in DOMAIN new : channel[s][i] < new[j]
    BY <1>3, <2>1, <2>2, <2>4
  <2>6. Increasing(found[s])' /\ Increasing(channel[s])' /\ Increasing(batch[s])'
    BY <1>4, <1>8, <1>9 DEF Increasing, ReaderInv, OrderInv
  <2> QED BY <1>9, <2>2, <2>3, <2>4, <2>5, <2>6 DEF OrderInv
<1>12. RecoveryInv(s)'
  <2>1. \A m \in owed[s] : m \in Messages /\ m \in Nat /\ m <= delivered /\ ~ IsPending(m)
    BY <1>2, <1>8, MessagesAreNat DEF BusInv, TypeOK, ReaderInv, RecoveryInv
  <2>2. \A m \in owed[s] : pending'[m] = None /\ m <= delivered'
    BY <1>3, <2>1 DEF RedisForward, IsPending
  <2> QED BY <1>9, <2>2 DEF RecoveryInv, IsPending
<1> QED BY <1>3, <1>6, <1>7, <1>10, <1>11, <1>12, OneReader DEF ReaderInv

\* A read whose reply is lost: Redis goes forward, the readers do not move.
LEMMA ReadReplyLostPreserves ==
  ASSUME BusInv, Inv', NEW s \in Subscriptions, ReadReplyLost(s)
  PROVE  BusInv'
<1>1. /\ DeliverTo(consumer[s]) /\ published' = published
      /\ UNCHANGED <<consumer, phase, found, batch, channel, receiver, held, last, owed, processed>>
  BY DEF ReadReplyLost, readerVars, historyVars, DeliverTo
<1>2. RedisForward
  BY <1>1, DeliverGoesForward
<1>3. TypeOK'
  BY <1>1 DEF BusInv, TypeOK, Inv, RedisOK
<1>4. \A t \in Subscriptions : SameReader(t)
  BY <1>1 DEF SameReader
<1> QED BY <1>2, <1>3, <1>4, NoReader

-----------------------------------------------------------------------------
(* The steps of publishers and applications *)

\* XADD.
LEMMA PublishPreserves ==
  ASSUME BusInv, Inv', Publish
  PROVE  BusInv'
<1>1. /\ delivered' = delivered /\ pending' = pending
      /\ UNCHANGED <<consumer, phase, found, batch, channel, receiver, held, last, owed, processed>>
  BY DEF Publish, readerVars, historyVars
<1>2. RedisForward
  BY <1>1, RedisBusAssumption DEF BusInv, TypeOK, PendingInv, IsPending, RedisForward
<1>3. TypeOK'
  BY <1>1 DEF BusInv, TypeOK, Inv, RedisOK
<1>4. \A t \in Subscriptions : SameReader(t)
  BY <1>1 DEF SameReader
<1> QED BY <1>2, <1>3, <1>4, NoReader

\* subscribe: what is pending now is owed to the new reader, all ahead of it.
LEMMA SubscribePreserves ==
  ASSUME BusInv, Inv', NEW s \in Subscriptions, NEW c \in Consumers, Subscribe(s, c)
  PROVE  BusInv'
<1>1. /\ phase[s] = "unused" /\ UNCHANGED redisVars
      /\ consumer' = [consumer EXCEPT ![s] = c] /\ phase' = [phase EXCEPT ![s] = "list"]
      /\ receiver' = [receiver EXCEPT ![s] = TRUE]
      /\ owed' = [owed EXCEPT ![s] = {m \in Messages : IsPending(m)}]
      /\ UNCHANGED <<found, batch, channel, held, last, processed>>
  BY DEF Subscribe
<1>2. RedisForward
  BY <1>1, RedisStands
<1>3. /\ owed \in [Subscriptions -> SUBSET Messages] /\ receiver \in [Subscriptions -> BOOLEAN]
      /\ phase \in [Subscriptions -> {"unused", "list", "claim", "relay", "read", "ended"}]
  BY DEF BusInv, TypeOK
<1>4. \A t \in Subscriptions \ {s} : SameReader(t)
  BY <1>1, <1>3 DEF SameReader
<1>5. TypeOK'
  <2>1. owed' \in [Subscriptions -> SUBSET Messages] /\ receiver' \in [Subscriptions -> BOOLEAN]
    BY <1>1, <1>3
  <2> QED BY <1>1, <2>1 DEF BusInv, TypeOK, Inv, RedisOK, redisVars
<1>6. ReaderInv(s) /\ found[s] = <<>> /\ batch[s] = <<>> /\ channel[s] = <<>> /\ last[s] = 0
  BY <1>1 DEF BusInv, ReaderInv, PhaseInv
<1>7. /\ phase'[s] = "list" /\ owed'[s] = {m \in Messages : IsPending(m)}
      /\ found'[s] = <<>> /\ batch'[s] = <<>> /\ channel'[s] = <<>> /\ last'[s] = 0
      /\ delivered' = delivered
  BY <1>1, <1>3, <1>6 DEF redisVars
<1>8. PhaseInv(s)'
  BY <1>7 DEF PhaseInv
<1>9. OrderInv(s)'
  <2>1. Increasing(<<>>) /\ DOMAIN <<>> = {}
    BY DEF Increasing
  <2>2. Increasing(found[s])' /\ Increasing(channel[s])' /\ Increasing(batch[s])'
    BY <1>7, <2>1 DEF Increasing
  <2>3. 0 <= delivered'
    BY <1>2 DEF RedisForward
  <2> QED BY <1>7, <2>1, <2>2, <2>3 DEF OrderInv
<1>10. RecoveryInv(s)'
  <2>1. \A m \in owed'[s] : m > 0 /\ m <= delivered
    <3>1. \A m \in Messages : m > 0
      BY RedisBusAssumption DEF Messages
    <3> QED BY <1>7, <3>1 DEF BusInv, PendingInv
  <2>2. LastFound(s)' = 0
    BY <1>7 DEF LastFound
  <2> QED BY <1>7, <2>1, <2>2 DEF RecoveryInv
<1> QED BY <1>2, <1>4, <1>5, <1>8, <1>9, <1>10, OneReader DEF ReaderInv

\* The application takes the head of the channel.
LEMMA ReceivePreserves ==
  ASSUME BusInv, Inv', NEW s \in Subscriptions, Receive(s)
  PROVE  BusInv'
<1> DEFINE h == Head(channel[s])
           rest == Tail(channel[s])
<1>1. /\ channel[s] # <<>> /\ UNCHANGED redisVars
      /\ channel' = [channel EXCEPT ![s] = rest]
      /\ held' = [held EXCEPT ![consumer[s]] = @ \cup {h}]
      /\ last' = [last EXCEPT ![s] = h]
      /\ UNCHANGED <<consumer, phase, found, batch, receiver, owed, processed>>
  BY DEF Receive
<1>2. RedisForward
  BY <1>1, RedisStands
<1>3. /\ channel \in [Subscriptions -> Seq(Messages)] /\ held \in [Consumers -> SUBSET Messages]
      /\ last \in [Subscriptions -> 0 .. MaxMessages]
      /\ channel[s] \in Seq(Messages)
      /\ \A t \in Subscriptions : Len(channel[t]) <= SUBSCRIPTION_CHANNEL_CAPACITY
  BY DEF BusInv, TypeOK
<1>4. ReaderInv(s) /\ Increasing(channel[s]) /\ Increasing(batch[s]) /\ Increasing(found[s])
      /\ phase[s] \notin {"unused", "list", "claim"}
  BY <1>1 DEF BusInv, ReaderInv, PhaseInv, OrderInv
<1>5. /\ h \in Messages /\ h = channel[s][1] /\ 1 \in DOMAIN channel[s]
      /\ rest \in Seq(Messages) /\ Increasing(rest) /\ Len(rest) = Len(channel[s]) - 1
      /\ \A i \in DOMAIN rest : i + 1 \in DOMAIN channel[s] /\ rest[i] = channel[s][i + 1]
      /\ \A i \in DOMAIN rest : h < rest[i]
  BY <1>1, <1>3, <1>4, TailIncreases
<1> HIDE DEF h, rest
<1>6. \A t \in Subscriptions \ {s} : SameReader(t)
  BY <1>1, <1>3 DEF SameReader
<1>7. /\ channel'[s] = rest /\ last'[s] = h /\ phase'[s] = phase[s] /\ found'[s] = found[s]
      /\ batch'[s] = batch[s] /\ owed'[s] = owed[s] /\ delivered' = delivered
  BY <1>1, <1>3 DEF redisVars
<1>8. TypeOK'
  <2>1. channel' \in [Subscriptions -> Seq(Messages)]
    BY <1>1, <1>3, <1>5
  <2>2. \A t \in Subscriptions : Len(channel'[t]) <= SUBSCRIPTION_CHANNEL_CAPACITY
    <3>1. \A t \in Subscriptions : t # s => channel'[t] = channel[t]
      BY <1>1, <1>3
    <3>2. Len(channel[s]) \in Nat /\ Len(channel[s]) <= SUBSCRIPTION_CHANNEL_CAPACITY
      BY <1>3
    <3>3. Len(channel'[s]) <= SUBSCRIPTION_CHANNEL_CAPACITY
      BY <1>5, <1>7, <3>2, RedisBusAssumption
    <3> QED BY <1>3, <3>1, <3>3
  <2>3. held' \in [Consumers -> SUBSET Messages]
    BY <1>1, <1>3, <1>5
  <2>4. last' \in [Subscriptions -> 0 .. MaxMessages]
    <3>1. h \in 0 .. MaxMessages
      BY <1>5, RedisBusAssumption DEF Messages
    <3> QED BY <1>1, <1>3, <3>1
  <2> QED BY <1>1, <2>1, <2>2, <2>3, <2>4 DEF BusInv, TypeOK, redisVars
<1>9. PhaseInv(s)'
  BY <1>4, <1>7 DEF ReaderInv, PhaseInv
<1>10. OrderInv(s)'
  <2>1. /\ h <= delivered /\ \A j \in DOMAIN batch[s] : h < batch[s][j] /\ batch[s][j] <= delivered
    BY <1>4, <1>5 DEF ReaderInv, OrderInv
  <2>2. \A i \in DOMAIN rest : h < rest[i] /\ rest[i] <= delivered
    BY <1>4, <1>5 DEF ReaderInv, OrderInv
  <2>3. \A i \in DOMAIN rest, j \in DOMAIN batch[s] : rest[i] < batch[s][j]
    BY <1>4, <1>5 DEF ReaderInv, OrderInv
  <2>4. Increasing(found[s])' /\ Increasing(channel[s])' /\ Increasing(batch[s])'
    BY <1>4, <1>5, <1>7 DEF Increasing
  <2> QED BY <1>7, <2>1, <2>2, <2>3, <2>4 DEF OrderInv
<1>11. RecoveryInv(s)'
  BY <1>1, <1>4, <1>7 DEF ReaderInv, RecoveryInv, IsPending, redisVars
<1> QED BY <1>2, <1>6, <1>8, <1>9, <1>10, <1>11, OneReader DEF ReaderInv

\* The receiver is dropped with the channel.
LEMMA UnsubscribePreserves ==
  ASSUME BusInv, Inv', NEW s \in Subscriptions, Unsubscribe(s)
  PROVE  BusInv'
<1>1. /\ UNCHANGED redisVars /\ receiver' = [receiver EXCEPT ![s] = FALSE]
      /\ channel' = [channel EXCEPT ![s] = <<>>]
      /\ UNCHANGED <<consumer, phase, found, batch, held, last, owed, processed>>
  BY DEF Unsubscribe, historyVars
<1>2. RedisForward
  BY <1>1, RedisStands
<1>3. /\ channel \in [Subscriptions -> Seq(Messages)] /\ receiver \in [Subscriptions -> BOOLEAN]
      /\ \A t \in Subscriptions : Len(channel[t]) <= SUBSCRIPTION_CHANNEL_CAPACITY
      /\ <<>> \in Seq(Messages) /\ Len(<<>>) = 0
  BY DEF BusInv, TypeOK
<1>4. \A t \in Subscriptions \ {s} : SameReader(t)
  BY <1>1, <1>3 DEF SameReader
<1>5. TypeOK'
  <2>1. channel' \in [Subscriptions -> Seq(Messages)] /\ receiver' \in [Subscriptions -> BOOLEAN]
    BY <1>1, <1>3
  <2>2. \A t \in Subscriptions : Len(channel'[t]) <= SUBSCRIPTION_CHANNEL_CAPACITY
    <3>1. \A t \in Subscriptions : t # s => channel'[t] = channel[t]
      BY <1>1, <1>3
    <3>2. channel'[s] = <<>>
      BY <1>1, <1>3
    <3> QED BY <1>3, <3>1, <3>2, RedisBusAssumption
  <2> QED BY <1>1, <2>1, <2>2 DEF BusInv, TypeOK, redisVars
<1>6. ReaderInv(s)
  BY DEF BusInv
<1>7. /\ channel'[s] = <<>> /\ phase'[s] = phase[s] /\ found'[s] = found[s]
      /\ batch'[s] = batch[s] /\ last'[s] = last[s] /\ owed'[s] = owed[s] /\ delivered' = delivered
  BY <1>1, <1>3 DEF redisVars
<1>8. PhaseInv(s)'
  BY <1>6, <1>7 DEF ReaderInv, PhaseInv
<1>9. OrderInv(s)'
  <2>1. Increasing(<<>>) /\ DOMAIN <<>> = {}
    BY DEF Increasing
  <2>2. Increasing(found[s])' /\ Increasing(channel[s])' /\ Increasing(batch[s])'
    BY <1>6, <1>7, <2>1 DEF Increasing, ReaderInv, OrderInv
  <2> QED BY <1>6, <1>7, <2>1, <2>2 DEF ReaderInv, OrderInv
<1>10. LastFound(s)' = LastFound(s)
  BY <1>7 DEF LastFound
<1>11. RecoveryInv(s)'
  BY <1>1, <1>6, <1>7, <1>10 DEF ReaderInv, RecoveryInv, IsPending, redisVars
<1> QED BY <1>2, <1>4, <1>5, <1>8, <1>9, <1>11, OneReader DEF ReaderInv

\* ack and claim: entries leave the pending list or change hands.
LEMMA AckAndClaimPreserve ==
  ASSUME BusInv, Inv', NEW c \in Consumers,
         \/ \E m \in Messages : Ack(c, m)
         \/ \E ids \in SUBSET Messages : Claim(c, ids)
  PROVE  BusInv'
<1>1. UNCHANGED <<consumer, phase, found, batch, channel, receiver, last, owed>>
      /\ published' = published /\ delivered' = delivered
  BY DEF Ack, Claim, ClaimFor, readerVars, historyVars
<1>t. held \in [Consumers -> SUBSET Messages] /\ processed \subseteq Messages
      /\ pending \in [Messages -> Consumers \cup {None}] /\ delivered \in Nat
  BY RedisBusAssumption DEF BusInv, TypeOK
<1>2. RedisForward
  <2>1. CASE \E m \in Messages : Ack(c, m)
    <3>1. \A n \in Messages : pending'[n] # None => pending[n] # None
      BY <1>t, <2>1 DEF Ack
    <3> QED BY <1>1, <1>t, <3>1 DEF RedisForward, BusInv, PendingInv, IsPending
  <2>2. CASE \E ids \in SUBSET Messages : Claim(c, ids)
    BY <2>2, ClaimGoesForward DEF Claim
  <2> QED BY <2>1, <2>2
<1>3. held' \in [Consumers -> SUBSET Messages] /\ processed' \subseteq Messages
  <2>1. CASE \E m \in Messages : Ack(c, m)
    BY <1>t, <2>1 DEF Ack
  <2>2. CASE \E ids \in SUBSET Messages : Claim(c, ids)
    <3>1. PICK ids \in SUBSET Messages : Claim(c, ids)
      BY <2>2
    <3>2. held' = [held EXCEPT ![c] = IF Decodable(ids) THEN @ \cup ids ELSE @]
          /\ processed' = processed
      BY <3>1 DEF Claim, historyVars
    <3> QED BY <1>t, <3>2
  <2> QED BY <2>1, <2>2
<1>4. TypeOK'
  BY <1>1, <1>3 DEF BusInv, TypeOK, Inv, RedisOK
<1>5. \A t \in Subscriptions : SameReader(t)
  BY <1>1 DEF SameReader
<1> QED BY <1>2, <1>4, <1>5, NoReader

\* A process dies with all its readers.
LEMMA CrashPreserves ==
  ASSUME BusInv, Inv', NEW c \in Consumers, Crash(c)
  PROVE  BusInv'
<1> DEFINE mine == {s \in Subscriptions : consumer[s] = c}
<1>1. /\ phase' = [s \in Subscriptions |-> IF s \in mine THEN "ended" ELSE phase[s]]
      /\ receiver' = [s \in Subscriptions |-> receiver[s] /\ s \notin mine]
      /\ found' = [s \in Subscriptions |-> IF s \in mine THEN <<>> ELSE found[s]]
      /\ batch' = [s \in Subscriptions |-> IF s \in mine THEN <<>> ELSE batch[s]]
      /\ channel' = [s \in Subscriptions |-> IF s \in mine THEN <<>> ELSE channel[s]]
      /\ held' = [held EXCEPT ![c] = {}]
      /\ UNCHANGED redisVars /\ UNCHANGED <<consumer, last, owed, processed>>
  BY DEF Crash, historyVars
<1> HIDE DEF mine
<1>2. RedisForward
  BY <1>1, RedisStands
<1>3. /\ channel \in [Subscriptions -> Seq(Messages)] /\ batch \in [Subscriptions -> Seq(Messages)]
      /\ found \in [Subscriptions -> Seq(Messages)] /\ held \in [Consumers -> SUBSET Messages]
      /\ \A t \in Subscriptions : Len(channel[t]) <= SUBSCRIPTION_CHANNEL_CAPACITY
      /\ <<>> \in Seq(Messages) /\ Len(<<>>) = 0
  BY DEF BusInv, TypeOK
<1>4. TypeOK'
  <2>1. /\ channel' \in [Subscriptions -> Seq(Messages)] /\ batch' \in [Subscriptions -> Seq(Messages)]
        /\ found' \in [Subscriptions -> Seq(Messages)] /\ held' \in [Consumers -> SUBSET Messages]
    BY <1>1, <1>3
  <2>2. receiver' \in [Subscriptions -> BOOLEAN]
    BY <1>1, Zenon
  <2>3. \A t \in Subscriptions : Len(channel'[t]) <= SUBSCRIPTION_CHANNEL_CAPACITY
    BY <1>1, <1>3, RedisBusAssumption
  <2> QED BY <1>1, <2>1, <2>2, <2>3 DEF BusInv, TypeOK, Inv, RedisOK, redisVars
<1>5. ASSUME NEW t \in Subscriptions PROVE ReaderInv(t)'
  <2>1. CASE t \in mine
    <3>1. /\ phase'[t] = "ended" /\ found'[t] = <<>> /\ batch'[t] = <<>> /\ channel'[t] = <<>>
          /\ last'[t] = last[t] /\ owed'[t] = owed[t]
      BY <1>1, <2>1
    <3> QED BY <1>2, <3>1, ReaderEnds
  <2>2. CASE t \notin mine
    <3>1. SameReader(t)
      BY <1>1, <2>2 DEF SameReader
    <3> QED BY <1>2, <3>1, OtherReaders
  <2> QED BY <2>1, <2>2
<1>6. PendingInv'
  BY <1>2 DEF RedisForward, PendingInv, IsPending
<1> QED BY <1>4, <1>5, <1>6 DEF BusInv

\* The bus keeps its invariant.
THEOREM BusInvariant == Spec => []BusInv
<1>1. Init => BusInv
  <2> SUFFICES ASSUME Init PROVE BusInv
    OBVIOUS
  <2>1. Inv
    BY RedisBusAssumption DEF Init, Inv, RedisOK, NothingSlipsThrough
  <2>2. TypeOK
    <3>1. <<>> \in Seq(Messages) /\ Len(<<>>) = 0
      OBVIOUS
    <3> QED BY <3>1, RedisBusAssumption DEF Init, TypeOK
  <2>3. PendingInv
    BY DEF Init, PendingInv, IsPending
  <2>4. Increasing(<<>>) /\ DOMAIN <<>> = {}
    BY DEF Increasing
  <2>5. \A s \in Subscriptions : ReaderInv(s)
    BY <2>4 DEF Init, ReaderInv, PhaseInv, OrderInv, RecoveryInv
  <2> QED BY <2>1, <2>2, <2>3, <2>5 DEF BusInv
<1>2. BusInv /\ [Next]_vars => BusInv'
  <2> SUFFICES ASSUME BusInv, [Next]_vars PROVE BusInv'
    OBVIOUS
  <2>0. Inv
    BY DEF BusInv
  <2>1. CASE UNCHANGED vars
    <3>1. Inv' /\ TypeOK'
      BY <2>0, <2>1 DEF vars, redisVars, readerVars, historyVars, BusInv, TypeOK, Inv, RedisOK,
                        NothingSlipsThrough, IsPending
    <3>2. RedisForward
      BY <2>1, RedisStands DEF vars
    <3>3. \A t \in Subscriptions : SameReader(t)
      BY <2>1 DEF vars, readerVars, historyVars, SameReader
    <3> QED BY <3>1, <3>2, <3>3, NoReader
  <2>2. CASE Next
    <3>1. Inv'
      BY <2>0, <2>2, ReaderPreserves, OthersPreserve DEF Next
    <3>2. ASSUME NEW s \in Subscriptions, ReaderStep(s) PROVE BusInv'
      BY <3>1, <3>2, ListPagePreserves, RecoverPendingPreserves, ReaderFailsPreserves,
         RelayPreserves, RelayFailsPreserves, ReadNewPreserves, ReadReplyLostPreserves
         DEF ReaderStep
    <3> QED BY <2>2, <3>1, <3>2, PublishPreserves, SubscribePreserves, ReceivePreserves,
               UnsubscribePreserves, AckAndClaimPreserve, CrashPreserves DEF Next
  <2> QED BY <2>1, <2>2
<1> QED BY <1>1, <1>2, PTL DEF Spec

\* Type correctness: whatever the sizes are, a channel never holds more than
\* SUBSCRIPTION_CHANNEL_CAPACITY messages, tx.send waits instead (subscribe).
THEOREM BusTypeCorrect == Spec => []TypeOK
<1>1. BusInv => TypeOK
  BY DEF BusInv
<1> QED BY <1>1, BusInvariant, PTL

\* One subscription gets every message at most once and in stream order, for any
\* size of page and batch and any interleaving with other readers, claims and
\* acknowledgements (pending_ids, recover_pending_messages, subscribe).
THEOREM DeliveredInOrderOnce == Spec => []InOrderOncePerSubscription
<1>1. BusInv => InOrderOncePerSubscription
  <2> SUFFICES ASSUME BusInv, NEW s \in Subscriptions
               PROVE  Increasing(<<last[s]>> \o channel[s] \o batch[s])
    BY DEF InOrderOncePerSubscription
  <2>1. /\ last[s] \in Nat /\ channel[s] \in Seq(Nat) /\ batch[s] \in Seq(Nat)
    BY RedisBusAssumption, MessagesAreNat DEF BusInv, TypeOK
  <2>2. OrderInv(s)
    BY DEF BusInv, ReaderInv
  <2>3. /\ <<last[s]>> \in Seq(Nat) /\ DOMAIN <<last[s]>> = {1} /\ <<last[s]>>[1] = last[s]
        /\ Increasing(<<last[s]>>)
    BY <2>1 DEF Increasing
  <2>4. /\ Increasing(<<last[s]>> \o channel[s]) /\ <<last[s]>> \o channel[s] \in Seq(Nat)
    BY <2>1, <2>2, <2>3, IncreasingConcat DEF OrderInv
  <2>5. \A i \in DOMAIN (<<last[s]>> \o channel[s]) :
          \/ (<<last[s]>> \o channel[s])[i] = last[s]
          \/ \E k \in DOMAIN channel[s] : (<<last[s]>> \o channel[s])[i] = channel[s][k]
    <3>1. /\ Len(<<last[s]>>) = 1 /\ Len(channel[s]) \in Nat
          /\ DOMAIN channel[s] = 1 .. Len(channel[s])
          /\ DOMAIN (<<last[s]>> \o channel[s]) = 1 .. 1 + Len(channel[s])
          /\ (<<last[s]>> \o channel[s])[1] = last[s]
          /\ \A i \in 2 .. 1 + Len(channel[s]) : (<<last[s]>> \o channel[s])[i] = channel[s][i - 1]
      BY <2>1
    <3>2. \A i \in 1 .. 1 + Len(channel[s]) : i = 1 \/ (i \in 2 .. 1 + Len(channel[s]) /\ i - 1 \in DOMAIN channel[s])
      BY <3>1
    <3> QED BY <3>1, <3>2
  <2>6. \A i \in DOMAIN (<<last[s]>> \o channel[s]), j \in DOMAIN batch[s] :
          (<<last[s]>> \o channel[s])[i] < batch[s][j]
    BY <2>2, <2>5 DEF OrderInv
  <2> QED BY <2>1, <2>2, <2>4, <2>6, IncreasingConcat DEF OrderInv
<1> QED BY <1>1, BusInvariant, PTL

\* A reader that reads new entries took over everything that was pending when its
\* subscription started and is not acknowledged: no page boundary hides an entry,
\* although entries come and go between two XPENDINGs (pending_ids).
THEOREM RecoveryTakesAll == Spec => []RecoveryIsComplete
<1>1. BusInv => RecoveryIsComplete
  BY DEF BusInv, ReaderInv, RecoveryInv, RecoveryIsComplete
<1> QED BY <1>1, BusInvariant, PTL
=============================================================================
