---------------------------- MODULE PaperAdapter ----------------------------
(***************************************************************************)
(* The paper-trading venue (PaperAdapter of crates/gateway/src/lib.rs).    *)
(*                                                                         *)
(* Three callers use it at once: the submit task (submit_order, then       *)
(* take_post_ack_actions for each ack), a market-data feed                 *)
(* (replace_orderbook) and whoever cancels.  The state is behind one mutex *)
(* and the subscriber list behind another; a handler is split where it     *)
(* lets go of them, so submit_order checks its cache, reads the book and   *)
(* commits in three steps.  connect and disconnect take the adapter        *)
(* exclusively and so never overlap a call.                                *)
(*                                                                         *)
(* A venue order id is "paper-" and the client order id, so the client     *)
(* order id stands for both.  Instrument and market coincide; times,       *)
(* prices of fills and fees are left out.                                  *)
(***************************************************************************)
EXTENDS OrderbookSimulator, SequencesExt

CONSTANTS
  ClientOrderIds,
  Submissions,              \* what an order may ask for
  Snapshots,                \* what the feed may deliver, invalid books included
  MarketIds,
  VenueId,
  Subscribers,              \* receivers that subscribe_fills may hand out
  FillSimulator(_, _, _),   \* the trait object: (submission, qty, book) to [ok, qty]
  FILL_CHANNEL_CAPACITY,
  None

ASSUME PaperAdapterAssumption ==
  /\ FILL_CHANNEL_CAPACITY \in Nat \ {0}
  /\ \A s \in Submissions : s.qty \in Nat /\ s.market_id \in MarketIds
  /\ \A b \in Snapshots : b.market_id \in MarketIds
  /\ None \notin Snapshots \cup ClientOrderIds \cup [fill: Nat, cancel: BOOLEAN]
  /\ None \notin Seq(Subscribers)

\* What the adapter relies on of its simulator: a fill is part of the order.
ASSUME FillSimulatorAssumption ==
  \A s \in Submissions : \A b \in Snapshots : \A q \in 0 .. s.qty :
    LET fill == FillSimulator(s, q, b)
    IN  fill.ok \in BOOLEAN /\ fill.qty \in 0 .. q

\* The simulator is LiveOrderbookFillSimulator, on books and orders of numbers.
UsesLiveOrderbook ==
  /\ \A b \in Snapshots : {b.bids, b.asks} \subseteq Seq([price: Int, qty: Int])
  /\ \A s \in Submissions : s.price \in Int \cup {None}
  /\ \A s \in Submissions : \A b \in Snapshots : \A q \in 0 .. s.qty :
       FillSimulator(s, q, b) = Simulate(s, q, b)

VARIABLES
  connected,
  orderbooks,               \* the latest snapshot of each market, or None
  idempotency_cache,        \* orders with a cached ack
  acknowledged_orders,
  open_orders,              \* resting orders
  filled_qty,               \* of the resting orders
  post_ack_actions,         \* per order [fill, cancel] or None
  fill_subscribers,         \* the senders broadcast_fill clones, in order
  waiting,                  \* fills in each subscriber's channel
  dropped                   \* subscribers whose receiver is gone

adapterVars == <<connected, orderbooks, idempotency_cache, acknowledged_orders, open_orders,
                 filled_qty, post_ack_actions>>

subscriberVars == <<fill_subscribers, waiting, dropped>>

VARIABLES
  submission,               \* what each order asks for
  phase,                    \* of the submit task's call
  current,                  \* the order it is about
  book,                     \* the snapshot submit_order matches against
  outgoing,                 \* per caller the fills it has still to broadcast
  targets                   \* per caller the senders the first of them is still to reach

callerVars == <<submission, phase, current, book, outgoing, targets>>

VARIABLES
  executed,                 \* history: quantity simulated as filled
  cancelled,                \* history: orders cancelled, by the caller or as IOC
  acked,                    \* history: orders some submit_order returned Ok for
  delivered,                \* history: quantity put into each subscriber's channel
  from_start,               \* history: subscribers there before the first execution
  update_failed             \* history: a replace_orderbook failed after it began

historyVars == <<executed, cancelled, acked, delivered, from_start, update_failed>>

vars == <<adapterVars, subscriberVars, callerVars, historyVars>>

Callers == {"submit", "feed"}

Fill(c, qty) == [order |-> c, qty |-> qty]

RemainingQty(c) == submission[c].qty - filled_qty[c]

Init ==
  /\ connected = FALSE
  /\ orderbooks = [m \in MarketIds |-> None]
  /\ idempotency_cache = {}
  /\ acknowledged_orders = {}
  /\ open_orders = {}
  /\ filled_qty = [c \in ClientOrderIds |-> 0]
  /\ post_ack_actions = [c \in ClientOrderIds |-> None]
  /\ fill_subscribers = <<>>
  /\ waiting = [r \in Subscribers |-> 0]
  /\ dropped = {}
  /\ submission \in [ClientOrderIds -> Submissions]
  /\ phase = "idle"
  /\ current = None
  /\ book = None
  /\ outgoing = [t \in Callers |-> <<>>]
  /\ targets = [t \in Callers |-> None]
  /\ executed = [c \in ClientOrderIds |-> 0]
  /\ cancelled = {}
  /\ acked = {}
  /\ delivered = [r \in Subscribers |-> [c \in ClientOrderIds |-> 0]]
  /\ from_start = {}
  /\ update_failed = FALSE

-----------------------------------------------------------------------------
(* submit_order *)

ValidateSubmission(s) ==
  /\ s.venue_id = VenueId
  /\ s.order_type \in {"Market", "Limit"}
  /\ s.time_in_force \in {"GTC", "IOC", "FOK"}
  /\ s.order_type = "Limit" => s.price # None

\* The call returns and its locals are gone.
Return ==
  /\ phase' = "idle"
  /\ current' = None
  /\ book' = None

\* The call of submit_order for order c begins: connection and submission are
\* checked (a call they refuse ends here, without effect), then the cache.
Call(c) ==
  /\ phase = "idle"
  /\ outgoing["submit"] = <<>>
  /\ connected
  /\ ValidateSubmission(submission[c])
  /\ current' = c

\* Mutant: only a resting order counts as known.
KnownIfResting(c) == c \in open_orders

Known(c) == c \in idempotency_cache

SubmitCached(c) ==
  /\ Call(c)
  /\ Known(c)
  /\ phase' = "acked"
  /\ acked' = acked \cup {c}
  /\ UNCHANGED <<adapterVars, subscriberVars, submission, book, outgoing, targets,
                 executed, cancelled, delivered, from_start, update_failed>>

SubmitNew(c) ==
  /\ Call(c)
  /\ ~ Known(c)
  /\ phase' = "read book"
  /\ UNCHANGED <<adapterVars, subscriberVars, submission, book, outgoing, targets,
                 historyVars>>

\* The second lock: without a book the call fails.
ReadBook ==
  /\ phase = "read book"
  /\ LET latest == orderbooks[submission[current].market_id]
     IN  \/ latest = None /\ Return
         \/ latest # None /\ phase' = "match" /\ book' = latest /\ UNCHANGED current
  /\ UNCHANGED <<adapterVars, subscriberVars, submission, outgoing, targets, historyVars>>

\* The order matched against the book that was read.
Simulated == FillSimulator(submission[current], submission[current].qty, book)

Complete == Simulated.qty = submission[current].qty

\* No trace is left of an order that cannot be simulated, takes though it is
\* post-only, or is executed in part and is neither GTC limit nor IOC.
MatchRefused ==
  /\ phase = "match"
  /\ LET s == submission[current]
     IN  \/ ~ Simulated.ok
         \/ /\ Simulated.qty > 0
            /\ \/ s.post_only
               \/ /\ ~ Complete
                  /\ s.time_in_force # "IOC"
                  /\ ~ (s.time_in_force = "GTC" /\ s.order_type = "Limit")
  /\ Return
  /\ UNCHANGED <<adapterVars, subscriberVars, submission, outgoing, targets, historyVars>>

\* A FOK order that finds nothing is rejected after its ack was cached.
MatchRestingFOK ==
  /\ phase = "match"
  /\ Simulated.ok
  /\ Simulated.qty = 0
  /\ submission[current].time_in_force = "FOK"
  /\ idempotency_cache' = idempotency_cache \cup {current}
  /\ acknowledged_orders' = acknowledged_orders \cup {current}
  /\ Return
  /\ UNCHANGED <<connected, orderbooks, open_orders, filled_qty, post_ack_actions,
                 subscriberVars, submission, outgoing, targets, historyVars>>

\* Mutant: the order rests with nothing filled, its first fill notwithstanding.
FirstFillForgotten == 0

\* What is filled of an order when it comes to rest.
FirstFill == Simulated.qty

\* The third lock: cache the ack, let the order rest or not, queue its actions.
Commit(stays_open, cancel) ==
  /\ Simulated.ok
  /\ submission[current].post_only => Simulated.qty = 0
  /\ idempotency_cache' = idempotency_cache \cup {current}
  /\ acknowledged_orders' = acknowledged_orders \cup {current}
  /\ open_orders' = IF stays_open THEN open_orders \cup {current} ELSE open_orders
  /\ filled_qty' = IF stays_open THEN [filled_qty EXCEPT ![current] = FirstFill]
                                 ELSE filled_qty
  /\ post_ack_actions' = [post_ack_actions EXCEPT
                            ![current] = [fill |-> Simulated.qty, cancel |-> cancel]]
  /\ executed' = [executed EXCEPT ![current] = @ + Simulated.qty]
  /\ acked' = acked \cup {current}
  /\ phase' = "acked"
  /\ book' = None
  /\ UNCHANGED <<connected, orderbooks, subscriberVars, submission, current, outgoing,
                 targets, cancelled, delivered, from_start, update_failed>>

MatchComplete ==
  /\ phase = "match"
  /\ Complete
  /\ Commit(FALSE, FALSE)

MatchGTC ==
  /\ phase = "match"
  /\ ~ Complete
  /\ submission[current].time_in_force = "GTC"
  /\ Simulated.qty = 0 \/ submission[current].order_type = "Limit"
  /\ Commit(TRUE, FALSE)

\* Mutant: an IOC order is cancelled also when nothing of it is left.
MatchIOCAlways ==
  /\ phase = "match"
  /\ submission[current].time_in_force = "IOC"
  /\ Commit(FALSE, TRUE)

MatchIOC ==
  /\ phase = "match"
  /\ ~ Complete
  /\ submission[current].time_in_force = "IOC"
  /\ Commit(FALSE, TRUE)

-----------------------------------------------------------------------------
(* take_post_ack_actions and broadcast_fill *)

\* Mutant: the actions are read and stay queued.
KeepActions(c) == UNCHANGED post_ack_actions

RemoveActions(c) == post_ack_actions' = [post_ack_actions EXCEPT ![c] = None]

\* The submit task takes the actions queued behind the ack; an order without
\* any must at least be acknowledged.
TakePostAckActions ==
  /\ phase = "acked"
  /\ LET actions == post_ack_actions[current]
     IN  /\ actions # None \/ current \in acknowledged_orders
         /\ outgoing' = [outgoing EXCEPT !["submit"] =
                           IF actions = None \/ actions.fill = 0
                             THEN <<>> ELSE <<Fill(current, actions.fill)>>]
         /\ cancelled' = IF actions # None /\ actions.cancel THEN cancelled \cup {current}
                                                           ELSE cancelled
  /\ RemoveActions(current)
  /\ Return
  /\ UNCHANGED <<connected, orderbooks, idempotency_cache, acknowledged_orders, open_orders,
                 filled_qty, subscriberVars, submission, targets, executed,
                 acked, delivered, from_start, update_failed>>

\* The submit task could not report the ack and leaves the actions queued.
AbandonAck ==
  /\ phase = "acked"
  /\ Return
  /\ UNCHANGED <<adapterVars, subscriberVars, submission, outgoing, targets, historyVars>>

\* broadcast_fill of the first outgoing fill: clone the senders, ...
CloneSubscribers(t) ==
  /\ outgoing[t] # <<>>
  /\ targets[t] = None
  /\ targets' = [targets EXCEPT ![t] = fill_subscribers]
  /\ UNCHANGED <<adapterVars, subscriberVars, submission, phase, current, book, outgoing,
                 historyVars>>

\* Mutant: one fill too many fits into a channel.
HasRoomForOneMore(r) == waiting[r] <= FILL_CHANNEL_CAPACITY

HasRoom(r) == waiting[r] < FILL_CHANNEL_CAPACITY

\* ... send to each, waiting for room unless its receiver is gone, ...
SendFill(t) ==
  /\ targets[t] \notin {None, <<>>}
  /\ LET r    == Head(targets[t])
         fill == Head(outgoing[t])
     IN  \/ /\ r \in dropped
            /\ UNCHANGED <<waiting, delivered>>
         \/ /\ r \notin dropped
            /\ HasRoom(r)
            /\ waiting' = [waiting EXCEPT ![r] = @ + 1]
            /\ delivered' = [delivered EXCEPT ![r][fill.order] = @ + fill.qty]
  /\ targets' = [targets EXCEPT ![t] = Tail(@)]
  /\ UNCHANGED <<adapterVars, fill_subscribers, dropped, submission, phase, current, book,
                 outgoing, executed, cancelled, acked, from_start, update_failed>>

\* The senders that are not closed, in their order (one sequence; as a set of the
\* choices of positions, which proofs can reason about where SelectSeq cannot be).
Retained ==
  LET open == {i \in DOMAIN fill_subscribers : fill_subscribers[i] \notin dropped}
      kept == {at \in [1 .. Cardinality(open) -> open] :
                 \A i, j \in 1 .. Cardinality(open) : i < j => at[i] < at[j]}
  IN  {[i \in DOMAIN at |-> fill_subscribers[at[i]]] : at \in kept}

\* ... and forget the senders that are closed.
RetainOpen(t) ==
  /\ targets[t] = <<>>
  /\ fill_subscribers' \in Retained
  /\ targets' = [targets EXCEPT ![t] = None]
  /\ outgoing' = [outgoing EXCEPT ![t] = Tail(@)]
  /\ UNCHANGED <<adapterVars, waiting, dropped, submission, phase, current, book, historyVars>>

-----------------------------------------------------------------------------
(* replace_orderbook *)

Resting(m) == {c \in open_orders : submission[c].market_id = m}

Reprice(c, snapshot) == FillSimulator(submission[c], RemainingQty(c), snapshot)

\* The fills of the orders in done are applied to the book of open orders.
ApplyFills(done, snapshot) ==
  LET filled == {c \in done : RemainingQty(c) > 0}
      qty(c) == Reprice(c, snapshot).qty
  IN  /\ open_orders' = open_orders \ {c \in done : c \in filled => qty(c) = RemainingQty(c)}
      /\ filled_qty' = [c \in ClientOrderIds |->
                          filled_qty[c] + IF c \in filled THEN qty(c) ELSE 0]
      /\ executed' = [c \in ClientOrderIds |->
                        executed[c] + IF c \in filled THEN qty(c) ELSE 0]

\* Orders that stop the walk over the open orders with an error.
Failing(snapshot) ==
  {c \in Resting(snapshot.market_id) : RemainingQty(c) > 0 /\ ~ Reprice(c, snapshot).ok}

Accepts(snapshot) ==
  /\ outgoing["feed"] = <<>>
  /\ snapshot.venue_id = VenueId
  /\ Validate(snapshot)
  /\ orderbooks' = [orderbooks EXCEPT ![snapshot.market_id] = snapshot]

\* The snapshot replaces the book and the resting orders of its market are
\* matched against it, all under one lock; the fills are then broadcast in the
\* order of the walk, which is that of a hash map.
ReplaceOrderbook(snapshot) ==
  /\ Accepts(snapshot)
  /\ Failing(snapshot) = {}
  /\ LET resting == Resting(snapshot.market_id)
         matched == {c \in resting : RemainingQty(c) > 0 /\ Reprice(c, snapshot).qty > 0}
     IN  /\ ApplyFills(resting, snapshot)
         /\ \E walk \in SetToSeqs(matched) :
              outgoing' = [outgoing EXCEPT !["feed"] =
                [i \in DOMAIN walk |-> Fill(walk[i], Reprice(walk[i], snapshot).qty)]]
  /\ UNCHANGED <<connected, idempotency_cache, acknowledged_orders, post_ack_actions,
                 subscriberVars, submission, phase, current, book, targets,
                 cancelled, acked, delivered, from_start, update_failed>>

\* An order that cannot be simulated ends the walk: what was filled before it
\* stays filled, and the fills collected so far are dropped with the error.
ReplaceOrderbookFails(snapshot) ==
  /\ Accepts(snapshot)
  /\ Failing(snapshot) # {}
  /\ \E done \in SUBSET (Resting(snapshot.market_id) \ Failing(snapshot)) :
       ApplyFills(done, snapshot)
  /\ update_failed' = TRUE
  /\ UNCHANGED <<connected, idempotency_cache, acknowledged_orders, post_ack_actions,
                 subscriberVars, callerVars, cancelled, acked, delivered, from_start>>

-----------------------------------------------------------------------------
(* The other operations *)

\* cancel_order of a resting order; of any other it fails without effect.
CancelOrder(c) ==
  /\ c \in open_orders
  /\ open_orders' = open_orders \ {c}
  /\ cancelled' = cancelled \cup {c}
  /\ UNCHANGED <<connected, orderbooks, idempotency_cache, acknowledged_orders, filled_qty,
                 post_ack_actions, subscriberVars, callerVars, executed, acked, delivered,
                 from_start, update_failed>>

SubscribeFills(r) ==
  /\ r \notin Range(fill_subscribers) \cup dropped
  /\ fill_subscribers' = Append(fill_subscribers, r)
  /\ from_start' = IF \A c \in ClientOrderIds : executed[c] = 0
                     THEN from_start \cup {r} ELSE from_start
  /\ UNCHANGED <<adapterVars, waiting, dropped, callerVars, executed, cancelled, acked,
                 delivered, update_failed>>

\* External: the holder of a receiver takes a fill or drops the receiver.
ReceiveFill(r) ==
  /\ waiting[r] > 0
  /\ waiting' = [waiting EXCEPT ![r] = @ - 1]
  /\ UNCHANGED <<adapterVars, fill_subscribers, dropped, callerVars, historyVars>>

DropReceiver(r) ==
  /\ r \in Range(fill_subscribers) \ dropped
  /\ dropped' = dropped \cup {r}
  /\ waiting' = [waiting EXCEPT ![r] = 0]
  /\ UNCHANGED <<adapterVars, fill_subscribers, callerVars, historyVars>>

\* connect and disconnect exclude every other call.
SetConnected(c) ==
  /\ phase = "idle"
  /\ \A t \in Callers : outgoing[t] = <<>>
  /\ connected # c
  /\ connected' = c
  /\ UNCHANGED <<orderbooks, idempotency_cache, acknowledged_orders, open_orders, filled_qty,
                 post_ack_actions, subscriberVars, callerVars, historyVars>>

Connect == SetConnected(TRUE)

Disconnect == SetConnected(FALSE)

SubmitTask ==
  \/ \E c \in ClientOrderIds : SubmitCached(c) \/ SubmitNew(c)
  \/ ReadBook \/ MatchRefused \/ MatchRestingFOK \/ MatchComplete \/ MatchGTC \/ MatchIOC
  \/ TakePostAckActions \/ AbandonAck

Broadcast(t) == CloneSubscribers(t) \/ SendFill(t) \/ RetainOpen(t)

Next ==
  \/ SubmitTask
  \/ \E t \in Callers : Broadcast(t)
  \/ \E b \in Snapshots : ReplaceOrderbook(b) \/ ReplaceOrderbookFails(b)
  \/ \E c \in ClientOrderIds : CancelOrder(c)
  \/ \E r \in Subscribers : SubscribeFills(r) \/ ReceiveFill(r) \/ DropReceiver(r)
  \/ Connect \/ Disconnect

Spec == Init /\ [][Next]_vars

-----------------------------------------------------------------------------
(* Properties *)

\* Type correctness of the adapter's state and of the calls in progress.
TypeOK ==
  /\ connected \in BOOLEAN
  /\ orderbooks \in [MarketIds -> Snapshots \cup {None}]
  /\ idempotency_cache \subseteq ClientOrderIds
  /\ acknowledged_orders \subseteq ClientOrderIds
  /\ open_orders \subseteq ClientOrderIds
  /\ filled_qty \in [ClientOrderIds -> Nat]
  /\ post_ack_actions \in [ClientOrderIds -> [fill: Nat, cancel: BOOLEAN] \cup {None}]
  /\ fill_subscribers \in Seq(Subscribers)
  /\ waiting \in [Subscribers -> 0 .. FILL_CHANNEL_CAPACITY]
  /\ dropped \subseteq Subscribers
  /\ submission \in [ClientOrderIds -> Submissions]
  /\ phase \in {"idle", "read book", "match", "acked"}
  /\ current \in ClientOrderIds \cup {None}
  /\ phase # "idle" => current \in ClientOrderIds
  /\ book \in Snapshots \cup {None}
  /\ phase = "match" => book \in Snapshots
  /\ outgoing \in [Callers -> Seq([order: ClientOrderIds, qty: Nat])]
  /\ targets \in [Callers -> Seq(Subscribers) \cup {None}]
  /\ executed \in [ClientOrderIds -> Nat]
  /\ cancelled \subseteq ClientOrderIds
  /\ acked \subseteq ClientOrderIds
  /\ delivered \in [Subscribers -> [ClientOrderIds -> Nat]]
  /\ from_start \subseteq Subscribers
  /\ update_failed \in BOOLEAN

CancelQueued(c) == post_ack_actions[c] # None /\ post_ack_actions[c].cancel

\* An acknowledged order that has come to an end: executed or cancelled.
Ended(c) == executed[c] = submission[c].qty \/ c \in cancelled \/ CancelQueued(c)

\* Whatever books arrive between the three locks of submit_order and however
\* often it is retried, an order is executed for its quantity at most, a
\* resting order has all its executions and only them counted as filled, and
\* an acknowledged order rests until it has ended.  A FOK order is excepted: it
\* may be rejected after its ack was cached, and a retry gets that ack.
FilledQtyIsExact ==
  \A c \in ClientOrderIds :
    /\ executed[c] <= submission[c].qty
    /\ c \in open_orders => filled_qty[c] = executed[c] /\ ~ Ended(c)
    /\ c \in acked /\ submission[c].time_in_force # "FOK" => c \in open_orders \/ Ended(c)

\* What VenueSubmitTask relies on: after an ack take_post_ack_actions does not
\* fail, which would have the task report a failed submission of an accepted
\* order, and a cancellation is of a remainder that no longer rests.
PostAckIsReportable ==
  /\ phase = "acked" => current \in acknowledged_orders
  /\ \A c \in ClientOrderIds :
       CancelQueued(c) => post_ack_actions[c].fill < submission[c].qty /\ c \notin open_orders

\* The fills of order c among some a caller has still to send to subscriber r: the
\* first is on its way to the senders in to, if it is on its way already.
StillToSend(fills, to, r, c) ==
  {i \in DOMAIN fills : fills[i].order = c /\ (i = 1 /\ to # None => r \in Range(to))}

\* The quantity of that fill, of which there is one at most.
OwedQty(fills, to, r, c) ==
  LET owed == StillToSend(fills, to, r, c)
  IN  IF owed = {} THEN 0 ELSE fills[CHOOSE i \in owed : TRUE].qty

OwedOnce(t, r, c) ==
  \A i, j \in StillToSend(outgoing[t], targets[t], r, c) : i = j

Owed(t, r, c) == OwedQty(outgoing[t], targets[t], r, c)

QueuedFill(c) == IF post_ack_actions[c] = None THEN 0 ELSE post_ack_actions[c].fill

\* docs/CONTRACTS.md:132: paper adapters "emit fills on the same bounded
\* `subscribe_fills()` channel as real venues": whatever was executed is
\* queued behind the ack, on its way, or in the channel of every subscriber
\* that listens from the start - once.
EveryFillIsBroadcast ==
  \A r \in from_start \ dropped, c \in ClientOrderIds :
    /\ \A t \in Callers : OwedOnce(t, r, c)
    /\ executed[c] = delivered[r][c] + Owed("submit", r, c) + Owed("feed", r, c) + QueuedFill(c)

\* Only a replace_orderbook that fails midway loses fills: no interleaving of
\* the two broadcasting callers with subscribers that come, lag or go does.
FillLostOnlyByFailedUpdate == ~ update_failed => EveryFillIsBroadcast

\* Cancellation is final: neither a book that arrives later nor a retry of
\* submit_order executes or reopens a cancelled order.
CancelIsFinal ==
  [][\A c \in cancelled : executed'[c] = executed[c] /\ c \notin open_orders']_vars

\* The walk stops at the first level beyond the limit.  On every book that
\* validate lets in, it has then taken all the depth within the limit.
WalkFillsAllItCan ==
  phase = "match" /\ Simulated.ok =>
    Simulated.qty = AllDepthWithinLimit(submission[current], submission[current].qty, book)
=============================================================================
