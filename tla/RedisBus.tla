------------------------------ MODULE RedisBus ------------------------------
(***************************************************************************)
(* A topic with one consumer group on the message bus                      *)
(* (crates/bus/src/redis.rs).                                              *)
(*                                                                         *)
(* Redis is external: a stream whose entries are numbered from 1, the last *)
(* entry delivered to the group, and the entries delivered and not yet     *)
(* acknowledged with the consumer each belongs to.  Every Redis command is *)
(* one step; between two commands of a reader anything may happen.         *)
(*                                                                         *)
(* subscribe starts a reader task.  It lists what is pending in the group, *)
(* page by page, claims all of it, relays it to the bounded channel of its *)
(* subscription, and then reads new entries for ever.  It ends when a      *)
(* command fails, when an entry cannot be decoded, or when it finds the    *)
(* receiver gone, which it notices only when it has something to relay.    *)
(*                                                                         *)
(* The applications behind the receivers are external too: they take       *)
(* messages, process and acknowledge them, claim stuck ones, unsubscribe   *)
(* and crash.                                                              *)
(***************************************************************************)
EXTENDS Naturals, Sequences, FiniteSets

CONSTANTS
  Consumers,                        \* consumer names of the group
  Undecodable,                      \* entries stream_entry_to_message refuses
  PENDING_PAGE_SIZE,
  STREAM_READ_COUNT,
  SUBSCRIPTION_CHANNEL_CAPACITY,
  MaxMessages,                      \* bound on the number of entries published
  MaxSubscriptions,                 \* bound on the number of subscriptions
  None                              \* an entry that is not pending

Messages == 1 .. MaxMessages
Subscriptions == 1 .. MaxSubscriptions

ASSUME RedisBusAssumption ==
  /\ {MaxMessages, MaxSubscriptions} \subseteq Nat
  /\ {PENDING_PAGE_SIZE, STREAM_READ_COUNT, SUBSCRIPTION_CHANNEL_CAPACITY} \subseteq Nat \ {0}
  /\ Undecodable \subseteq Nat
  /\ None \notin Consumers

VARIABLES            \* Redis
  published,         \* last entry of the stream
  delivered,         \* last entry delivered to the group
  pending            \* the consumer each pending entry belongs to

VARIABLES            \* the readers, one per subscription
  consumer,          \* its consumer, None before it starts
  phase,             \* what it does next
  found,             \* pending entries listed so far
  batch,             \* messages it has still to relay
  channel,           \* messages relayed and not yet received
  receiver           \* the application still has the receiver

VARIABLES
  held,              \* messages each application works on
  last,              \* history: the last message taken from each subscription
  owed,              \* history: entries pending when the subscription started
                     \* that its reader has not claimed
  processed          \* history: messages processed and acknowledged

redisVars == <<published, delivered, pending>>
readerVars == <<consumer, phase, found, batch, channel, receiver>>
historyVars == <<last, owed, processed>>
vars == <<redisVars, readerVars, held, historyVars>>

-----------------------------------------------------------------------------
(* Redis commands *)

IsPending(m) == pending[m] # None

\* XPENDING: the first PENDING_PAGE_SIZE pending entries after start, in order.
InPage(m, start) ==
  /\ IsPending(m)
  /\ m > start
  /\ Cardinality({n \in Messages : IsPending(n) /\ start < n /\ n < m}) < PENDING_PAGE_SIZE

Increasing(seq) == \A i, j \in DOMAIN seq : i < j => seq[i] < seq[j]

\* The one sequence that lists a set of numbers in order, as Redis does.
Listings(set) ==
  {seq \in [1 .. Cardinality(set) -> set] :
     Increasing(seq) /\ \A m \in set : \E i \in DOMAIN seq : seq[i] = m}

\* XREADGROUP ">": the entries after the last delivered one.
LastToDeliver ==
  IF delivered + STREAM_READ_COUNT < published THEN delivered + STREAM_READ_COUNT ELSE published

Undelivered == delivered + 1 .. LastToDeliver

\* Mutant: NOACK, delivered entries are not made pending.
DeliverWithoutAck(c) ==
  /\ Undelivered # {}
  /\ delivered' = LastToDeliver
  /\ UNCHANGED <<published, pending>>

\* They become pending for the consumer that read them.
DeliverTo(c) ==
  /\ Undelivered # {}
  /\ delivered' = LastToDeliver
  /\ pending' = [m \in Messages |-> IF m \in Undelivered THEN c ELSE pending[m]]
  /\ UNCHANGED published

\* XCLAIM: those of the ids that are still pending change hands.
ClaimFor(c, ids) ==
  /\ pending' = [m \in Messages |-> IF m \in ids /\ IsPending(m) THEN c ELSE pending[m]]
  /\ UNCHANGED <<published, delivered>>

-----------------------------------------------------------------------------
(* Publisher *)

Publish ==
  /\ published < MaxMessages
  /\ published' = published + 1
  /\ UNCHANGED <<delivered, pending, readerVars, held, historyVars>>

-----------------------------------------------------------------------------
(* The reader task of a subscription *)

Decodable(ids) == ids \cap Undecodable = {}

\* The group exists or is made, at the start of the stream, and the reader is
\* spawned.
Subscribe(s, c) ==
  /\ phase[s] = "unused"
  /\ \A t \in 1 .. s - 1 : phase[t] # "unused"
  /\ consumer' = [consumer EXCEPT ![s] = c]
  /\ phase' = [phase EXCEPT ![s] = "list"]
  /\ receiver' = [receiver EXCEPT ![s] = TRUE]
  /\ owed' = [owed EXCEPT ![s] = {m \in Messages : IsPending(m)}]
  /\ UNCHANGED <<redisVars, found, batch, channel, held, last, processed>>

LastFound(s) == IF found[s] = <<>> THEN 0 ELSE found[s][Len(found[s])]

\* Mutants: the next page starts with the last id of this one; one page is listed.
ListPageInclusive(s) ==
  LET start == IF found[s] = <<>> THEN 0 ELSE LastFound(s) - 1
  IN  /\ phase[s] = "list"
      /\ \E page \in Listings({m \in Messages : InPage(m, start)}) :
           /\ found' = [found EXCEPT ![s] = @ \o page]
           /\ phase' = [phase EXCEPT ![s] = IF Len(page) = PENDING_PAGE_SIZE THEN "list"
                                            ELSE IF found'[s] = <<>> THEN "read" ELSE "claim"]
      /\ UNCHANGED <<redisVars, consumer, batch, channel, receiver, held, historyVars>>

ListOnePage(s) ==
  /\ phase[s] = "list"
  /\ \E page \in Listings({m \in Messages : InPage(m, 0)}) :
       /\ found' = [found EXCEPT ![s] = page]
       /\ phase' = [phase EXCEPT ![s] = IF page = <<>> THEN "read" ELSE "claim"]
  /\ UNCHANGED <<redisVars, consumer, batch, channel, receiver, held, historyVars>>

\* One page of pending_ids; a page that is not full is the last.
ListPage(s) ==
  /\ phase[s] = "list"
  /\ \E page \in Listings({m \in Messages : InPage(m, LastFound(s))}) :
       /\ found' = [found EXCEPT ![s] = @ \o page]
       /\ phase' = [phase EXCEPT ![s] = IF Len(page) = PENDING_PAGE_SIZE THEN "list"
                                        ELSE IF found'[s] = <<>> THEN "read" ELSE "claim"]
  /\ UNCHANGED <<redisVars, consumer, batch, channel, receiver, held, historyVars>>

\* recover_pending_messages claims everything it listed, whoever works on it.  All
\* of it is decoded before any of it is relayed.
RecoverPending(s) ==
  /\ phase[s] = "claim"
  /\ \E at \in Listings({i \in DOMAIN found[s] : IsPending(found[s][i])}) :
       LET claimed == [i \in DOMAIN at |-> found[s][at[i]]]
           ids     == {claimed[i] : i \in DOMAIN claimed}
       IN  /\ ClaimFor(consumer[s], ids)
           /\ owed' = [owed EXCEPT ![s] = @ \ ids]
           /\ IF Decodable(ids)
              THEN /\ batch' = [batch EXCEPT ![s] = claimed]
                   /\ phase' = [phase EXCEPT ![s] = IF ids = {} THEN "read" ELSE "relay"]
              ELSE /\ phase' = [phase EXCEPT ![s] = "ended"]
                   /\ UNCHANGED batch
  /\ found' = [found EXCEPT ![s] = <<>>]
  /\ UNCHANGED <<consumer, channel, receiver, held, last, processed>>

\* XCLAIM took effect, its reply did not arrive: the reader gives up.
RecoverReplyLost(s) ==
  /\ phase[s] = "claim"
  /\ ClaimFor(consumer[s], {found[s][i] : i \in DOMAIN found[s]})
  /\ phase' = [phase EXCEPT ![s] = "ended"]
  /\ found' = [found EXCEPT ![s] = <<>>]
  /\ UNCHANGED <<consumer, batch, channel, receiver, held, historyVars>>

\* Mutant: the channel is unbounded.
RelayUnbounded(s) ==
  /\ phase[s] = "relay"
  /\ channel' = [channel EXCEPT ![s] = Append(@, Head(batch[s]))]
  /\ batch' = [batch EXCEPT ![s] = Tail(@)]
  /\ phase' = [phase EXCEPT ![s] = IF Len(batch[s]) = 1 THEN "read" ELSE "relay"]
  /\ UNCHANGED <<redisVars, consumer, found, receiver, held, historyVars>>

\* tx.send waits while the channel is full.
Relay(s) ==
  /\ phase[s] = "relay"
  /\ receiver[s]
  /\ Head(batch[s]) \notin Undecodable
  /\ Len(channel[s]) < SUBSCRIPTION_CHANNEL_CAPACITY
  /\ channel' = [channel EXCEPT ![s] = Append(@, Head(batch[s]))]
  /\ batch' = [batch EXCEPT ![s] = Tail(@)]
  /\ phase' = [phase EXCEPT ![s] = IF Len(batch[s]) = 1 THEN "read" ELSE "relay"]
  /\ UNCHANGED <<redisVars, consumer, found, receiver, held, historyVars>>

\* The receiver is gone or the entry cannot be decoded: the rest of the batch
\* stays pending.
RelayFails(s) ==
  /\ phase[s] = "relay"
  /\ ~ receiver[s] \/ Head(batch[s]) \in Undecodable
  /\ phase' = [phase EXCEPT ![s] = "ended"]
  /\ batch' = [batch EXCEPT ![s] = <<>>]
  /\ UNCHANGED <<redisVars, consumer, found, channel, receiver, held, historyVars>>

\* New entries, read whether or not anyone still holds the receiver.
ReadNew(s) ==
  /\ phase[s] = "read"
  /\ DeliverTo(consumer[s])
  /\ \E new \in Listings(Undelivered) : batch' = [batch EXCEPT ![s] = new]
  /\ phase' = [phase EXCEPT ![s] = "relay"]
  /\ UNCHANGED <<consumer, found, channel, receiver, held, historyVars>>

\* XREADGROUP took effect, its reply did not arrive: the reader tries again, for
\* what comes after.
ReadReplyLost(s) ==
  /\ phase[s] = "read"
  /\ DeliverTo(consumer[s])
  /\ UNCHANGED <<readerVars, held, historyVars>>

\* XPENDING or XCLAIM of the recovery fails and the reader gives up.  A failed read
\* is retried; that the group is gone, which would end the reader, cannot happen:
\* nothing destroys a group.
ReaderFails(s) ==
  /\ phase[s] \in {"list", "claim"}
  /\ phase' = [phase EXCEPT ![s] = "ended"]
  /\ found' = [found EXCEPT ![s] = <<>>]
  /\ UNCHANGED <<redisVars, consumer, batch, channel, receiver, held, historyVars>>

-----------------------------------------------------------------------------
(* Applications *)

Receive(s) ==
  /\ receiver[s]
  /\ channel[s] # <<>>
  /\ channel' = [channel EXCEPT ![s] = Tail(@)]
  /\ held' = [held EXCEPT ![consumer[s]] = @ \cup {Head(channel[s])}]
  /\ last' = [last EXCEPT ![s] = Head(channel[s])]
  /\ UNCHANGED <<redisVars, consumer, phase, found, batch, receiver, owed, processed>>

\* ack: XACK removes the entry, whoever it belongs to by now; an error if it is
\* pending no more.
Ack(c, m) ==
  /\ m \in held[c]
  /\ held' = [held EXCEPT ![c] = @ \ {m}]
  /\ pending' = [pending EXCEPT ![m] = None]
  /\ processed' = processed \cup {m}
  /\ UNCHANGED <<published, delivered, readerVars, last, owed>>

\* claim: entries idle for long enough change hands and are returned, unless one
\* of them cannot be decoded.
Claim(c, ids) ==
  /\ ids # {}
  /\ \A m \in ids : IsPending(m)
  /\ ClaimFor(c, ids)
  /\ held' = [held EXCEPT ![c] = IF Decodable(ids) THEN @ \cup ids ELSE @]
  /\ UNCHANGED <<readerVars, historyVars>>

\* The receiver is dropped and what was in the channel with it; the reader lives.
Unsubscribe(s) ==
  /\ receiver[s]
  /\ receiver' = [receiver EXCEPT ![s] = FALSE]
  /\ channel' = [channel EXCEPT ![s] = <<>>]
  /\ UNCHANGED <<redisVars, consumer, phase, found, batch, held, historyVars>>

\* The consumer's process dies with its readers.
Crash(c) ==
  LET mine == {s \in Subscriptions : consumer[s] = c}
  IN  /\ \E s \in mine : receiver[s] \/ phase[s] # "ended"
      /\ phase' = [s \in Subscriptions |-> IF s \in mine THEN "ended" ELSE phase[s]]
      /\ receiver' = [s \in Subscriptions |-> receiver[s] /\ s \notin mine]
      /\ found' = [s \in Subscriptions |-> IF s \in mine THEN <<>> ELSE found[s]]
      /\ batch' = [s \in Subscriptions |-> IF s \in mine THEN <<>> ELSE batch[s]]
      /\ channel' = [s \in Subscriptions |-> IF s \in mine THEN <<>> ELSE channel[s]]
      /\ held' = [held EXCEPT ![c] = {}]
      /\ UNCHANGED <<redisVars, consumer, historyVars>>

-----------------------------------------------------------------------------
Init ==
  /\ published = 0
  /\ delivered = 0
  /\ pending = [m \in Messages |-> None]
  /\ consumer = [s \in Subscriptions |-> None]
  /\ phase = [s \in Subscriptions |-> "unused"]
  /\ found = [s \in Subscriptions |-> <<>>]
  /\ batch = [s \in Subscriptions |-> <<>>]
  /\ channel = [s \in Subscriptions |-> <<>>]
  /\ receiver = [s \in Subscriptions |-> FALSE]
  /\ held = [c \in Consumers |-> {}]
  /\ last = [s \in Subscriptions |-> 0]
  /\ owed = [s \in Subscriptions |-> {}]
  /\ processed = {}

ReaderStep(s) ==
  \/ ListPage(s)
  \/ RecoverPending(s)
  \/ RecoverReplyLost(s)
  \/ Relay(s)
  \/ RelayFails(s)
  \/ ReadNew(s)
  \/ ReadReplyLost(s)
  \/ ReaderFails(s)

Next ==
  \/ Publish
  \/ \E s \in Subscriptions : ReaderStep(s) \/ Receive(s) \/ Unsubscribe(s)
  \/ \E s \in Subscriptions, c \in Consumers : Subscribe(s, c)
  \/ \E c \in Consumers, m \in Messages : Ack(c, m)
  \/ \E c \in Consumers, ids \in SUBSET Messages : Claim(c, ids)
  \/ \E c \in Consumers : Crash(c)

Spec == Init /\ [][Next]_vars

-----------------------------------------------------------------------------
(* Properties *)

\* Type correctness; the channel of a subscription is bounded.
TypeOK ==
  /\ published \in 0 .. MaxMessages
  /\ delivered \in 0 .. published
  /\ pending \in [Messages -> Consumers \cup {None}]
  /\ consumer \in [Subscriptions -> Consumers \cup {None}]
  /\ phase \in [Subscriptions -> {"unused", "list", "claim", "relay", "read", "ended"}]
  /\ found \in [Subscriptions -> Seq(Messages)]
  /\ batch \in [Subscriptions -> Seq(Messages)]
  /\ channel \in [Subscriptions -> Seq(Messages)]
  /\ \A s \in Subscriptions : Len(channel[s]) <= SUBSCRIPTION_CHANNEL_CAPACITY
  /\ receiver \in [Subscriptions -> BOOLEAN]
  /\ held \in [Consumers -> SUBSET Messages]
  /\ last \in [Subscriptions -> 0 .. MaxMessages]
  /\ owed \in [Subscriptions -> SUBSET Messages]
  /\ processed \subseteq Messages

\* Nothing slips through: an entry the group is past was processed, or it is still
\* pending, where a recovery or a claim finds it, whatever readers, replies,
\* receivers and processes were lost on its way.
NothingSlipsThrough ==
  \A m \in 1 .. delivered : IsPending(m) \/ m \in processed

\* One subscription gets every message at most once and in stream order, the
\* recovered ones included, although others read, claim and acknowledge while
\* its reader lists page after page, claims and relays.
InOrderOncePerSubscription ==
  \A s \in Subscriptions : Increasing(<<last[s]>> \o channel[s] \o batch[s])

\* A reader that has begun to read new entries took over everything that was
\* pending when its subscription started, except what was acknowledged since.
RecoveryIsComplete ==
  \A s \in Subscriptions :
    phase[s] = "read" => \A m \in owed[s] : ~ IsPending(m)
=============================================================================
