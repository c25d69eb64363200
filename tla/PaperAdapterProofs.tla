------------------------- MODULE PaperAdapterProofs -------------------------
(***************************************************************************)
(* Proofs about PaperAdapter for any orders, books and subscribers and any *)
(* fill simulator that executes at most what it is asked for.              *)
(***************************************************************************)
EXTENDS PaperAdapter, FiniteSetTheorems, WellFoundedInduction, TLAPS

Actions == [fill: Nat, cancel: BOOLEAN]

Typed ==
  /\ orderbooks \in [MarketIds -> Snapshots \cup {None}]
  /\ idempotency_cache \subseteq ClientOrderIds
  /\ acknowledged_orders = idempotency_cache
  /\ open_orders \subseteq ClientOrderIds
  /\ filled_qty \in [ClientOrderIds -> Nat]
  /\ executed \in [ClientOrderIds -> Nat]
  /\ post_ack_actions \in [ClientOrderIds -> Actions \cup {None}]
  /\ submission \in [ClientOrderIds -> Submissions]
  /\ cancelled \subseteq ClientOrderIds

\* The one call of submit_order in progress: what it found out about the cache
\* stays true until it commits, for it alone adds to it.
CallOK ==
  /\ phase \in {"idle", "read book", "match", "acked"}
  /\ phase # "idle" => current \in ClientOrderIds
  /\ phase = "match" => book \in Snapshots
  /\ phase \in {"read book", "match"} => current \notin idempotency_cache
  /\ phase = "acked" => current \in idempotency_cache

\* Nothing is known of an order without a cached ack.
Fresh(c) ==
  /\ executed[c] = 0
  /\ c \notin open_orders
  /\ c \notin cancelled
  /\ c \notin acked
  /\ post_ack_actions[c] = None

Sound(c) ==
  /\ executed[c] <= submission[c].qty
  /\ c \in open_orders => filled_qty[c] = executed[c] /\ ~ Ended(c)
  /\ CancelQueued(c) => post_ack_actions[c].fill < submission[c].qty
  /\ c \in idempotency_cache /\ submission[c].time_in_force # "FOK" =>
       c \in open_orders \/ Ended(c)

OrderOK(c) == (c \notin idempotency_cache => Fresh(c)) /\ Sound(c)

IInv == Typed /\ CallOK /\ \A c \in ClientOrderIds : OrderOK(c)

\* What Typed and OrderOK speak of.
orderVars == <<orderbooks, idempotency_cache, acknowledged_orders, open_orders, filled_qty,
               executed, post_ack_actions, submission, cancelled, acked>>

-----------------------------------------------------------------------------

LEMMA SubmissionQty ==
  ASSUME Typed, NEW c \in ClientOrderIds
  PROVE  submission[c] \in Submissions /\ submission[c].qty \in Nat
BY PaperAdapterAssumption DEF Typed

\* A fill of what an order is simulated for is part of it.
LEMMA FillIsPart ==
  ASSUME Typed, NEW c \in ClientOrderIds, NEW b \in Snapshots, NEW q \in 0 .. submission[c].qty
  PROVE  FillSimulator(submission[c], q, b).qty \in 0 .. q
BY SubmissionQty, FillSimulatorAssumption

\* Steps that leave the orders alone.
LEMMA OrdersUnchanged ==
  ASSUME IInv, UNCHANGED orderVars
  PROVE  Typed' /\ \A c \in ClientOrderIds : OrderOK(c)'
BY DEF IInv, orderVars, Typed, OrderOK, Fresh, Sound, Ended, CancelQueued

-----------------------------------------------------------------------------

LEMMA InitEstablishes == Init => IInv
<1> SUFFICES ASSUME Init PROVE IInv
  OBVIOUS
<1>1. Typed /\ CallOK
  BY DEF Init, Typed, CallOK
<1>2. ASSUME NEW c \in ClientOrderIds PROVE OrderOK(c)
  BY <1>1, SubmissionQty DEF Init, OrderOK, Fresh, Sound, Ended, CancelQueued
<1> QED BY <1>1, <1>2 DEF IInv

\* The commit of submit_order (Commit): the order had no trace before it, and
\* ends, or rests, with what was simulated.
LEMMA CommitPreserves ==
  ASSUME IInv, phase = "match", NEW stays_open \in BOOLEAN, NEW cancel \in BOOLEAN,
         Commit(stays_open, cancel),
         stays_open <=> ~ Complete /\ ~ cancel,
         cancel => ~ Complete
  PROVE  IInv'
<1>1. /\ current \in ClientOrderIds /\ book \in Snapshots /\ current \notin idempotency_cache
      /\ Typed
  BY DEF IInv, CallOK
<1> DEFINE q == Simulated.qty
<1>2. q \in 0 .. submission[current].qty
  BY <1>1, SubmissionQty, FillIsPart DEF Simulated
<1>3. Fresh(current)
  BY <1>1 DEF IInv, OrderOK
<1>4. /\ idempotency_cache' = idempotency_cache \cup {current}
      /\ acknowledged_orders' = acknowledged_orders \cup {current}
      /\ open_orders' = IF stays_open THEN open_orders \cup {current} ELSE open_orders
      /\ filled_qty' = IF stays_open THEN [filled_qty EXCEPT ![current] = q] ELSE filled_qty
      /\ post_ack_actions' = [post_ack_actions EXCEPT ![current] = [fill |-> q, cancel |-> cancel]]
      /\ executed' = [executed EXCEPT ![current] = @ + q]
      /\ acked' = acked \cup {current}
      /\ phase' = "acked"
      /\ UNCHANGED <<orderbooks, submission, current, cancelled>>
  BY DEF Commit, FirstFill
<1>5. Complete <=> q = submission[current].qty
  BY DEF Complete
<1> HIDE DEF q
<1>6. Typed'
  BY <1>1, <1>2, <1>4, SubmissionQty DEF Typed, Actions
<1>7. CallOK'
  BY <1>1, <1>4 DEF CallOK
<1>8. OrderOK(current)'
  <2>1. /\ post_ack_actions'[current] = [fill |-> q, cancel |-> cancel]
        /\ post_ack_actions'[current] # None
        /\ post_ack_actions'[current].fill = q
        /\ post_ack_actions'[current].cancel = cancel
    BY <1>1, <1>2, <1>4, SubmissionQty, PaperAdapterAssumption DEF Typed
  <2>2. executed'[current] = q
    BY <1>1, <1>2, <1>3, <1>4, SubmissionQty DEF Typed, Fresh
  <2>3. stays_open => filled_qty'[current] = q
    BY <1>1, <1>4 DEF Typed
  <2>4. /\ submission'[current] = submission[current]
        /\ current' = current
        /\ submission[current].qty \in Nat
        /\ current \notin cancelled'
        /\ current \in open_orders' <=> stays_open
        /\ current \in idempotency_cache'
    BY <1>1, <1>3, <1>4, SubmissionQty DEF Fresh
  <2>5. CancelQueued(current)' <=> cancel
    BY <2>1, <2>4 DEF CancelQueued
  <2>6. Ended(current)' <=> Complete \/ cancel
    BY <1>5, <2>2, <2>4, <2>5 DEF Ended
  <2>7. Sound(current)'
    BY <1>2, <1>5, <2>1, <2>2, <2>3, <2>4, <2>5, <2>6 DEF Sound
  <2> QED BY <2>4, <2>7 DEF OrderOK
<1>9. ASSUME NEW c \in ClientOrderIds, c # current PROVE OrderOK(c)'
  <2>1. /\ executed'[c] = executed[c] /\ filled_qty'[c] = filled_qty[c]
        /\ post_ack_actions'[c] = post_ack_actions[c]
        /\ (c \in open_orders' <=> c \in open_orders)
        /\ (c \in idempotency_cache' <=> c \in idempotency_cache)
        /\ (c \in acked' <=> c \in acked)
        /\ (c \in cancelled' <=> c \in cancelled)
        /\ submission'[c] = submission[c]
    BY <1>1, <1>4, <1>9 DEF Typed
  <2>2. OrderOK(c)
    BY DEF IInv
  <2> QED BY <2>1, <2>2 DEF OrderOK, Fresh, Sound, Ended, CancelQueued
<1>10. current' = current
  BY <1>4
<1> QED BY <1>6, <1>7, <1>8, <1>9, <1>10 DEF IInv

\* The fills of replace_orderbook (ApplyFills) go to resting orders only, and
\* an order stays in the book exactly as long as it has a remainder.
LEMMA ApplyFillsPreserves ==
  ASSUME IInv, NEW snapshot \in Snapshots, NEW done \in SUBSET Resting(snapshot.market_id),
         ApplyFills(done, snapshot),
         orderbooks' \in [MarketIds -> Snapshots \cup {None}],
         UNCHANGED <<idempotency_cache, acknowledged_orders, post_ack_actions, submission,
                     cancelled, acked>>
  PROVE  Typed' /\ \A c \in ClientOrderIds : OrderOK(c)'
<1>1. Typed
  BY DEF IInv
<1>2. done \subseteq open_orders
  BY DEF Resting
<1> DEFINE qty(c) == Reprice(c, snapshot).qty
<1>3. ASSUME NEW c \in done
      PROVE  RemainingQty(c) \in Nat /\ RemainingQty(c) > 0 /\ qty(c) \in 0 .. RemainingQty(c)
  <2>1. c \in ClientOrderIds /\ OrderOK(c) /\ c \in open_orders
    BY <1>1, <1>2, <1>3 DEF IInv, Typed
  <2>2. /\ submission[c].qty \in Nat /\ executed[c] \in Nat
        /\ filled_qty[c] = executed[c]
        /\ executed[c] <= submission[c].qty /\ executed[c] # submission[c].qty
    BY <1>1, <2>1, SubmissionQty DEF OrderOK, Sound, Ended, Typed
  <2>3. RemainingQty(c) \in 0 .. submission[c].qty /\ RemainingQty(c) > 0
    BY <2>2 DEF RemainingQty
  <2> QED BY <1>1, <2>1, <2>3, FillIsPart DEF Reprice
<1>4. /\ open_orders' = open_orders \ {c \in done : qty(c) = RemainingQty(c)}
      /\ filled_qty' = [c \in ClientOrderIds |-> filled_qty[c] + IF c \in done THEN qty(c) ELSE 0]
      /\ executed' = [c \in ClientOrderIds |-> executed[c] + IF c \in done THEN qty(c) ELSE 0]
  <2>1. {c \in done : RemainingQty(c) > 0} = done
    BY <1>3
  <2> QED BY <2>1 DEF ApplyFills
<1> HIDE DEF qty
<1>5. Typed'
  <2>1. ASSUME NEW c \in ClientOrderIds
        PROVE  /\ filled_qty[c] + (IF c \in done THEN qty(c) ELSE 0) \in Nat
               /\ executed[c] + (IF c \in done THEN qty(c) ELSE 0) \in Nat
    BY <1>1, <1>3 DEF Typed
  <2> QED BY <1>1, <1>4, <2>1 DEF Typed
<1>6. ASSUME NEW c \in ClientOrderIds PROVE OrderOK(c)'
  <2>1. OrderOK(c) /\ submission[c].qty \in Nat /\ executed[c] \in Nat /\ filled_qty[c] \in Nat
    BY <1>1, SubmissionQty DEF IInv, Typed
  <2>2. CASE c \in done
    <3>1. /\ c \in open_orders /\ filled_qty[c] = executed[c] /\ c \in idempotency_cache
          /\ c \notin cancelled /\ ~ CancelQueued(c)
      BY <1>2, <2>1, <2>2 DEF OrderOK, Fresh, Sound, Ended
    <3>2. /\ executed'[c] = executed[c] + qty(c)
          /\ filled_qty'[c] = executed[c] + qty(c)
          /\ c \in open_orders' <=> qty(c) # RemainingQty(c)
      BY <1>4, <2>2, <3>1
    <3>3. executed'[c] <= submission[c].qty
      BY <1>3, <2>1, <2>2, <3>1, <3>2 DEF RemainingQty
    <3>4. executed'[c] = submission[c].qty <=> qty(c) = RemainingQty(c)
      BY <1>3, <2>1, <2>2, <3>1, <3>2 DEF RemainingQty
    <3>5. Ended(c)' <=> qty(c) = RemainingQty(c)
      BY <3>1, <3>4 DEF Ended, CancelQueued
    <3> QED BY <3>1, <3>2, <3>3, <3>5 DEF OrderOK, Sound, CancelQueued
  <2>3. CASE c \notin done
    <3>1. executed'[c] = executed[c] /\ filled_qty'[c] = filled_qty[c]
      BY <1>4, <2>1, <2>3
    <3>2. c \in open_orders' <=> c \in open_orders
      BY <1>4, <2>3
    <3> QED BY <2>1, <3>1, <3>2 DEF OrderOK, Fresh, Sound, Ended, CancelQueued
  <2> QED BY <2>2, <2>3
<1> QED BY <1>5, <1>6

\* The steps of submit_order and take_post_ack_actions.
LEMMA SubmitTaskPreserves == IInv /\ SubmitTask => IInv'
<1> SUFFICES ASSUME IInv, SubmitTask PROVE IInv'
  OBVIOUS
<1>1. CASE \E c \in ClientOrderIds : SubmitCached(c)
  <2>1. PICK c \in ClientOrderIds : SubmitCached(c)
    BY <1>1
  <2>2. /\ c \in idempotency_cache
        /\ acked' = acked \cup {c}
        /\ phase' = "acked" /\ current' = c
        /\ UNCHANGED <<orderbooks, idempotency_cache, acknowledged_orders, open_orders,
                       filled_qty, executed, post_ack_actions, submission, cancelled>>
    BY <2>1 DEF SubmitCached, Call, Known, adapterVars
  <2>3. Typed' /\ CallOK'
    BY <2>2 DEF IInv, Typed, CallOK
  <2>4. ASSUME NEW d \in ClientOrderIds PROVE OrderOK(d)'
    <3>1. OrderOK(d)
      BY DEF IInv
    <3> QED BY <2>2, <3>1 DEF OrderOK, Fresh, Sound, Ended, CancelQueued
  <2> QED BY <2>3, <2>4 DEF IInv
<1>2. CASE \E c \in ClientOrderIds : SubmitNew(c)
  <2>1. PICK c \in ClientOrderIds : SubmitNew(c)
    BY <1>2
  <2>2. UNCHANGED orderVars
    BY <2>1 DEF SubmitNew, adapterVars, historyVars, orderVars
  <2>3. CallOK'
    BY <2>1, <2>2 DEF SubmitNew, Call, Known, CallOK, orderVars
  <2> QED BY <2>2, <2>3, OrdersUnchanged DEF IInv
<1>3. CASE ReadBook
  <2>1. UNCHANGED orderVars
    BY <1>3 DEF ReadBook, adapterVars, historyVars, orderVars
  <2>2. current \in ClientOrderIds /\ submission[current].market_id \in MarketIds
    BY <1>3, SubmissionQty, PaperAdapterAssumption DEF ReadBook, IInv, CallOK
  <2>3. orderbooks[submission[current].market_id] \in Snapshots \cup {None}
    BY <2>2 DEF IInv, Typed
  <2>4. CallOK'
    BY <1>3, <2>1, <2>3 DEF ReadBook, Return, IInv, CallOK, orderVars
  <2> QED BY <2>1, <2>4, OrdersUnchanged DEF IInv
<1>4. CASE MatchRefused \/ AbandonAck
  <2>1. UNCHANGED orderVars /\ phase' = "idle"
    BY <1>4 DEF MatchRefused, AbandonAck, Return, adapterVars, historyVars, orderVars
  <2>2. CallOK'
    BY <2>1 DEF CallOK
  <2> QED BY <2>1, <2>2, OrdersUnchanged DEF IInv
<1>5. CASE MatchRestingFOK
  <2>1. /\ idempotency_cache' = idempotency_cache \cup {current}
        /\ acknowledged_orders' = acknowledged_orders \cup {current}
        /\ phase' = "idle"
        /\ UNCHANGED <<orderbooks, open_orders, filled_qty, executed, post_ack_actions,
                       submission, cancelled, acked>>
        /\ submission[current].time_in_force = "FOK"
        /\ current \in ClientOrderIds
    BY <1>5 DEF MatchRestingFOK, Return, historyVars, IInv, CallOK
  <2>2. Typed' /\ CallOK'
    BY <2>1 DEF IInv, Typed, CallOK
  <2>3. ASSUME NEW c \in ClientOrderIds PROVE OrderOK(c)'
    <3>1. OrderOK(c)
      BY DEF IInv
    <3> QED BY <2>1, <3>1 DEF OrderOK, Fresh, Sound, Ended, CancelQueued
  <2> QED BY <2>2, <2>3 DEF IInv
<1>6. CASE MatchComplete
  BY <1>6, CommitPreserves DEF MatchComplete
<1>7. CASE MatchGTC
  BY <1>7, CommitPreserves DEF MatchGTC
<1>8. CASE MatchIOC
  BY <1>8, CommitPreserves DEF MatchIOC
<1>9. CASE TakePostAckActions
  <2>1. /\ current \in ClientOrderIds /\ current \in idempotency_cache
        /\ Typed
    BY <1>9 DEF TakePostAckActions, IInv, CallOK
  <2>2. /\ post_ack_actions' = [post_ack_actions EXCEPT ![current] = None]
        /\ cancelled' = IF CancelQueued(current) THEN cancelled \cup {current} ELSE cancelled
        /\ phase' = "idle"
        /\ UNCHANGED <<orderbooks, idempotency_cache, acknowledged_orders, open_orders,
                       filled_qty, executed, submission, acked>>
    BY <1>9 DEF TakePostAckActions, RemoveActions, Return, CancelQueued
  <2>3. Typed' /\ CallOK'
    BY <2>1, <2>2 DEF Typed, CallOK
  <2>4. ASSUME NEW c \in ClientOrderIds PROVE OrderOK(c)'
    <3>1. OrderOK(c)
      BY DEF IInv
    <3>2. CASE c = current
      <4>1. ~ CancelQueued(c)' /\ (Ended(c)' <=> Ended(c))
        BY <2>1, <2>2, <3>2 DEF CancelQueued, Ended, Typed
      <4> QED BY <2>1, <2>2, <3>1, <3>2, <4>1 DEF OrderOK, Sound
    <3>3. CASE c # current
      <4>1. post_ack_actions'[c] = post_ack_actions[c] /\ (c \in cancelled' <=> c \in cancelled)
        BY <2>1, <2>2, <3>3 DEF Typed
      <4> QED BY <2>2, <3>1, <4>1 DEF OrderOK, Fresh, Sound, Ended, CancelQueued
    <3> QED BY <3>2, <3>3
  <2> QED BY <2>3, <2>4 DEF IInv
<1> QED BY <1>1, <1>2, <1>3, <1>4, <1>5, <1>6, <1>7, <1>8, <1>9 DEF SubmitTask

\* The steps of the feed and of whoever cancels, and those that do not touch
\* an order.
LEMMA OthersPreserve ==
  ASSUME IInv, [Next]_vars, ~ SubmitTask
  PROVE  IInv'
<1>1. CASE \E b \in Snapshots : ReplaceOrderbook(b) \/ ReplaceOrderbookFails(b)
  <2>1. PICK b \in Snapshots : ReplaceOrderbook(b) \/ ReplaceOrderbookFails(b)
    BY <1>1
  <2>2. PICK done \in SUBSET Resting(b.market_id) : ApplyFills(done, b)
    BY <2>1 DEF ReplaceOrderbook, ReplaceOrderbookFails
  <2>3. /\ orderbooks' = [orderbooks EXCEPT ![b.market_id] = b]
        /\ UNCHANGED <<idempotency_cache, acknowledged_orders, post_ack_actions, submission,
                       cancelled, acked, phase, current, book>>
    BY <2>1 DEF ReplaceOrderbook, ReplaceOrderbookFails, Accepts, callerVars
  <2>4. orderbooks' \in [MarketIds -> Snapshots \cup {None}]
    BY <2>3, PaperAdapterAssumption DEF IInv, Typed
  <2>5. Typed' /\ \A c \in ClientOrderIds : OrderOK(c)'
    BY <2>2, <2>3, <2>4, ApplyFillsPreserves
  <2>6. CallOK'
    BY <2>3 DEF IInv, CallOK
  <2> QED BY <2>5, <2>6 DEF IInv
<1>2. CASE \E c \in ClientOrderIds : CancelOrder(c)
  <2>1. PICK c \in ClientOrderIds : CancelOrder(c)
    BY <1>2
  <2>2. /\ c \in open_orders
        /\ open_orders' = open_orders \ {c}
        /\ cancelled' = cancelled \cup {c}
        /\ UNCHANGED <<orderbooks, idempotency_cache, acknowledged_orders, filled_qty, executed,
                       post_ack_actions, submission, acked, phase, current, book>>
    BY <2>1 DEF CancelOrder, callerVars
  <2>3. Typed' /\ CallOK'
    BY <2>2 DEF IInv, Typed, CallOK
  <2>4. ASSUME NEW d \in ClientOrderIds PROVE OrderOK(d)'
    <3>1. OrderOK(d)
      BY DEF IInv
    <3>2. c \in idempotency_cache
      BY <2>2 DEF IInv, OrderOK, Fresh
    <3> QED BY <2>2, <3>1, <3>2 DEF OrderOK, Fresh, Sound, Ended, CancelQueued
  <2> QED BY <2>3, <2>4 DEF IInv
<1>3. CASE \/ \E t \in Callers : Broadcast(t)
           \/ \E r \in Subscribers : SubscribeFills(r) \/ ReceiveFill(r) \/ DropReceiver(r)
           \/ Connect \/ Disconnect
           \/ UNCHANGED vars
  <2>1. UNCHANGED orderVars /\ UNCHANGED <<phase, current, book>>
    <3>1. CASE \E t \in Callers : Broadcast(t)
      BY <3>1 DEF Broadcast, CloneSubscribers, SendFill, RetainOpen, adapterVars, historyVars,
        orderVars
    <3>2. CASE \E r \in Subscribers : SubscribeFills(r) \/ ReceiveFill(r) \/ DropReceiver(r)
      BY <3>2 DEF SubscribeFills, ReceiveFill, DropReceiver, adapterVars, callerVars,
        historyVars, orderVars
    <3>3. CASE Connect \/ Disconnect
      BY <3>3 DEF Connect, Disconnect, SetConnected, callerVars, historyVars, orderVars
    <3>4. CASE UNCHANGED vars
      BY <3>4 DEF vars, adapterVars, callerVars, historyVars, orderVars
    <3> QED BY <1>3, <3>1, <3>2, <3>3, <3>4
  <2>2. CallOK'
    BY <2>1 DEF IInv, CallOK, orderVars
  <2> QED BY <2>1, <2>2, OrdersUnchanged DEF IInv
<1> QED BY <1>1, <1>2, <1>3 DEF Next

LEMMA InductiveInvariant == Spec => []IInv
<1>1. IInv /\ [Next]_vars => IInv'
  BY SubmitTaskPreserves, OthersPreserve
<1> QED BY <1>1, InitEstablishes, PTL DEF Spec

-----------------------------------------------------------------------------

\* No order is executed beyond its quantity, a resting order counts exactly its
\* executions as filled, and an acknowledged order rests until it has ended
\* (submit_order, collect_repriced_fills, cancel_order).
THEOREM ExecutionIsAccountedFor == Spec => []FilledQtyIsExact
<1>1. IInv => FilledQtyIsExact
  BY DEF IInv, OrderOK, Fresh, Sound, FilledQtyIsExact
<1> QED BY <1>1, InductiveInvariant, PTL

\* The submit task can report what follows an ack: take_post_ack_actions knows
\* the order, and cancels only what is left of it and no longer rests.
THEOREM PostAckActionsAreReportable == Spec => []PostAckIsReportable
<1>1. IInv => PostAckIsReportable
  <2> SUFFICES ASSUME IInv PROVE PostAckIsReportable
    OBVIOUS
  <2>1. phase = "acked" => current \in acknowledged_orders
    BY DEF IInv, CallOK, Typed
  <2>2. ASSUME NEW c \in ClientOrderIds, CancelQueued(c)
        PROVE  post_ack_actions[c].fill < submission[c].qty /\ c \notin open_orders
    BY <2>2 DEF IInv, OrderOK, Sound, Ended
  <2> QED BY <2>1, <2>2 DEF PostAckIsReportable
<1> QED BY <1>1, InductiveInvariant, PTL

\* A cancelled order is neither executed nor reopened by any later book or
\* retry (cancel_order, and the idempotency cache of submit_order).
THEOREM CancellationIsFinal == Spec => CancelIsFinal
<1>1. IInv /\ [Next]_vars =>
        [\A c \in cancelled : executed'[c] = executed[c] /\ c \notin open_orders']_vars
  <2> SUFFICES ASSUME IInv, Next, NEW c \in cancelled
               PROVE  executed'[c] = executed[c] /\ c \notin open_orders'
    BY DEF vars
  <2>1. /\ c \in ClientOrderIds /\ c \in idempotency_cache /\ c \notin open_orders
        /\ executed[c] \in Nat /\ executed \in [ClientOrderIds -> Nat]
    BY DEF IInv, Typed, OrderOK, Fresh, Sound, Ended
  <2>2. CASE MatchComplete \/ MatchGTC \/ MatchIOC
    <3>1. c # current
      BY <2>1, <2>2 DEF MatchComplete, MatchGTC, MatchIOC, IInv, CallOK
    <3> QED BY <2>1, <2>2, <3>1 DEF MatchComplete, MatchGTC, MatchIOC, Commit
  <2>3. CASE \E b \in Snapshots : ReplaceOrderbook(b) \/ ReplaceOrderbookFails(b)
    <3>0. PICK b \in Snapshots : ReplaceOrderbook(b) \/ ReplaceOrderbookFails(b)
      BY <2>3
    <3>1. PICK done \in SUBSET Resting(b.market_id) : ApplyFills(done, b)
      BY <3>0 DEF ReplaceOrderbook, ReplaceOrderbookFails
    <3>2. c \notin done
      BY <2>1 DEF Resting
    <3> QED BY <2>1, <3>1, <3>2 DEF ApplyFills
  <2>4. CASE \E d \in ClientOrderIds : CancelOrder(d)
    BY <2>1, <2>4 DEF CancelOrder
  <2>5. CASE UNCHANGED <<executed, open_orders>>
    BY <2>1, <2>5
  <2>6. \/ MatchComplete \/ MatchGTC \/ MatchIOC
        \/ \E b \in Snapshots : ReplaceOrderbook(b) \/ ReplaceOrderbookFails(b)
        \/ \E d \in ClientOrderIds : CancelOrder(d)
        \/ UNCHANGED <<executed, open_orders>>
    <3>1. CASE SubmitTask
      BY <3>1 DEF SubmitTask, SubmitCached, SubmitNew, ReadBook, MatchRefused,
        MatchRestingFOK, TakePostAckActions, AbandonAck, adapterVars, historyVars
    <3>2. CASE \E t \in Callers : Broadcast(t)
      BY <3>2 DEF Broadcast, CloneSubscribers, SendFill, RetainOpen, adapterVars, historyVars
    <3>3. CASE \E r \in Subscribers : SubscribeFills(r) \/ ReceiveFill(r) \/ DropReceiver(r)
      BY <3>3 DEF SubscribeFills, ReceiveFill, DropReceiver, adapterVars, historyVars
    <3>4. CASE Connect \/ Disconnect
      BY <3>4 DEF Connect, Disconnect, SetConnected, historyVars
    <3> QED BY <3>1, <3>2, <3>3, <3>4 DEF Next
  <2> QED BY <2>2, <2>3, <2>4, <2>5, <2>6
<1> QED BY <1>1, InductiveInvariant, PTL DEF Spec, CancelIsFinal

-----------------------------------------------------------------------------
(* Subscribers, channels and fills on their way *)

Fills == [order: ClientOrderIds, qty: Nat]

Distinct(seq) == \A i, j \in DOMAIN seq : seq[i] = seq[j] => i = j

DistinctOrders(fills) == \A i, j \in DOMAIN fills : fills[i].order = fills[j].order => i = j

\* What TypeOK says beyond Typed and CallOK.
ChannelsTyped ==
  /\ connected \in BOOLEAN
  /\ fill_subscribers \in Seq(Subscribers)
  /\ waiting \in [Subscribers -> 0 .. FILL_CHANNEL_CAPACITY]
  /\ dropped \subseteq Subscribers
  /\ current \in ClientOrderIds \cup {None}
  /\ book \in Snapshots \cup {None}
  /\ outgoing \in [Callers -> Seq(Fills)]
  /\ targets \in [Callers -> Seq(Subscribers) \cup {None}]
  /\ acked \subseteq ClientOrderIds
  /\ delivered \in [Subscribers -> [ClientOrderIds -> Nat]]
  /\ from_start \subseteq Subscribers
  /\ update_failed \in BOOLEAN

\* What a caller broadcasts: one fill per order, of an order that was executed;
\* the submit task does so between two calls.
OutgoingInv ==
  /\ phase # "idle" => outgoing["submit"] = <<>>
  /\ \A t \in Callers :
       /\ targets[t] # None => outgoing[t] # <<>>
       /\ DistinctOrders(outgoing[t])
       /\ \A i \in DOMAIN outgoing[t] : executed[outgoing[t][i].order] > 0

\* Whom it reaches: each subscriber once, and nobody who has not subscribed.
SubscriberInv ==
  /\ Distinct(fill_subscribers)
  /\ \A t \in Callers :
       targets[t] # None =>
         Distinct(targets[t]) /\ Range(targets[t]) \subseteq Range(fill_subscribers) \cup dropped
  /\ from_start \ dropped \subseteq Range(fill_subscribers)
  /\ \A r \in Subscribers : r \notin Range(fill_subscribers) \cup dropped =>
       \A c \in ClientOrderIds : delivered[r][c] = 0

QueueInv == \A c \in ClientOrderIds : QueuedFill(c) \in 0 .. executed[c]

\* Every execution is in the channel of r or on its way there.
Balanced(r, c) ==
  executed[c] = delivered[r][c] + Owed("submit", r, c) + Owed("feed", r, c) + QueuedFill(c)

BalanceInv ==
  ~ update_failed => \A r \in from_start \ dropped, c \in ClientOrderIds : Balanced(r, c)

FlowInv == OutgoingInv /\ SubscriberInv /\ QueueInv /\ BalanceInv

BroadcastInv == IInv /\ ChannelsTyped /\ IsFiniteSet(open_orders) /\ FlowInv

LEMMA TypedTogether ==
  ASSUME IInv, ChannelsTyped
  PROVE  TypeOK
BY DEF IInv, Typed, CallOK, ChannelsTyped, TypeOK, Actions, Fills

-----------------------------------------------------------------------------
(* Facts about sequences *)

\* The tail of a sequence without repetitions.
LEMMA TailDistinct ==
  ASSUME NEW S, NEW u \in Seq(S), u # <<>>
  PROVE  /\ Tail(u) \in Seq(S) /\ Head(u) = u[1] /\ Head(u) \in S /\ 1 \in DOMAIN u
         /\ \A i \in DOMAIN Tail(u) : i + 1 \in DOMAIN u /\ i \in Nat /\ i > 0 /\ Tail(u)[i] = u[i + 1]
         /\ \A i \in DOMAIN u : i # 1 => i - 1 \in DOMAIN Tail(u) /\ Tail(u)[i - 1] = u[i]
<1>1. /\ Tail(u) \in Seq(S) /\ Head(u) = u[1] /\ Head(u) \in S /\ 1 \in DOMAIN u
      /\ Len(u) \in Nat /\ DOMAIN u = 1 .. Len(u) /\ DOMAIN Tail(u) = 1 .. Len(u) - 1
  OBVIOUS
<1>2. \A i \in DOMAIN Tail(u) : i + 1 \in DOMAIN u /\ i \in Nat /\ i > 0 /\ Tail(u)[i] = u[i + 1]
  BY <1>1
<1>3. \A i \in DOMAIN u : i # 1 => i - 1 \in DOMAIN Tail(u) /\ Tail(u)[i - 1] = u[i]
  BY <1>1
<1> QED BY <1>1, <1>2, <1>3

\* Taking the first of several senders leaves the others, each once.
LEMMA TailOfDistinct ==
  ASSUME NEW S, NEW u \in Seq(S), u # <<>>, Distinct(u)
  PROVE  /\ Distinct(Tail(u)) /\ Tail(u) \in Seq(S) /\ Head(u) \in S
         /\ Range(Tail(u)) = Range(u) \ {Head(u)} /\ Head(u) \in Range(u)
<1>1. /\ Tail(u) \in Seq(S) /\ Head(u) = u[1] /\ Head(u) \in S /\ 1 \in DOMAIN u
      /\ \A i \in DOMAIN Tail(u) : i + 1 \in DOMAIN u /\ i \in Nat /\ i > 0 /\ Tail(u)[i] = u[i + 1]
      /\ \A i \in DOMAIN u : i # 1 => i - 1 \in DOMAIN Tail(u) /\ Tail(u)[i - 1] = u[i]
  BY TailDistinct
<1>2. Distinct(Tail(u))
  <2> SUFFICES ASSUME NEW i \in DOMAIN Tail(u), NEW j \in DOMAIN Tail(u), Tail(u)[i] = Tail(u)[j]
               PROVE  i = j
    BY DEF Distinct
  <2>1. i + 1 = j + 1 /\ i \in Nat /\ j \in Nat
    BY <1>1 DEF Distinct
  <2> QED BY <2>1
<1>3. ASSUME NEW i \in DOMAIN Tail(u) PROVE Tail(u)[i] \in Range(u) \ {Head(u)}
  <2>1. i + 1 \in DOMAIN u /\ i + 1 # 1 /\ Tail(u)[i] = u[i + 1]
    BY <1>1
  <2> QED BY <1>1, <2>1 DEF Distinct, Range
<1>4. ASSUME NEW x \in Range(u) \ {Head(u)} PROVE x \in Range(Tail(u))
  <2>1. PICK i \in DOMAIN u : u[i] = x
    BY DEF Range
  <2>2. i # 1
    BY <1>1, <2>1
  <2> QED BY <1>1, <2>1, <2>2 DEF Range
<1>5. Range(Tail(u)) \subseteq Range(u) \ {Head(u)}
  BY <1>3 DEF Range
<1>6. Head(u) \in Range(u)
  BY <1>1 DEF Range
<1> QED BY <1>1, <1>2, <1>4, <1>5, <1>6

\* The senders broadcast_fill retains: those not closed, each once.
LEMMA RetainedFacts ==
  ASSUME fill_subscribers \in Seq(Subscribers), NEW kept \in Retained
  PROVE  /\ kept \in Seq(Subscribers)
         /\ Range(kept) = Range(fill_subscribers) \ dropped
         /\ Distinct(fill_subscribers) => Distinct(kept)
<1> DEFINE subs == fill_subscribers
           open == {i \in DOMAIN subs : subs[i] \notin dropped}
           n == Cardinality(open)
<1>1. PICK at \in [1 .. n -> open] :
        /\ \A i, j \in 1 .. n : i < j => at[i] < at[j]
        /\ kept = [i \in DOMAIN at |-> subs[at[i]]]
  BY DEF Retained
<1>2. DOMAIN subs = 1 .. Len(subs) /\ Len(subs) \in Nat
  OBVIOUS
<1>3. open \subseteq 1 .. Len(subs) /\ IsFiniteSet(open) /\ n \in Nat /\ open \subseteq Nat
  <2>1. open \subseteq 1 .. Len(subs)
    BY <1>2
  <2> HIDE DEF open
  <2>2. IsFiniteSet(1 .. Len(subs))
    BY <1>2, FS_Interval
  <2>3. IsFiniteSet(open)
    BY <2>1, <2>2, FS_Subset
  <2>4. n \in Nat
    BY <2>3, FS_CardinalityType
  <2>5. open \subseteq Nat
    BY <2>1
  <2> QED BY <2>1, <2>3, <2>4, <2>5
<1>o. /\ \A i \in open : i \in DOMAIN subs /\ subs[i] \notin dropped /\ subs[i] \in Subscribers
      /\ \A i \in DOMAIN subs : subs[i] \notin dropped => i \in open
  OBVIOUS
<1> HIDE DEF open, n
<1>4. ASSUME NEW i \in 1 .. n, NEW j \in 1 .. n, at[i] = at[j] PROVE i = j
  <2>0. at[i] \in open /\ at[j] \in open
    BY <1>1
  <2>a. at[i] \in Nat /\ at[j] \in Nat
    BY <1>3, <2>0, Zenon
  <2>b. n \in Nat
    BY <1>3
  <2>c. i \in Nat /\ j \in Nat
    BY <2>b
  <2>1. at[i] \in Nat /\ at[j] \in Nat /\ i \in Nat /\ j \in Nat
    BY <2>a, <2>c
  <2>2. ~ (i < j) /\ ~ (j < i)
    BY <1>1, <1>4, <2>1
  <2> QED BY <2>1, <2>2
<1>5. at \in Injection(1 .. n, open)
  BY <1>4 DEF Injection, IsInjective
<1>6. Cardinality(1 .. n) = n
  BY <1>3, FS_Interval
<1>7. at \in Surjection(1 .. n, open)
  BY <1>3, <1>5, <1>6, FS_Injection DEF n
<1>8. \A k \in open : \E i \in 1 .. n : at[i] = k
  BY <1>7 DEF Surjection
<1>9. kept \in [1 .. n -> Subscribers] /\ \A i \in 1 .. n : kept[i] = subs[at[i]]
  BY <1>1, <1>o
<1>10. kept \in Seq(Subscribers) /\ DOMAIN kept = 1 .. n
  BY <1>3, <1>9
<1>11. \A i \in 1 .. n : kept[i] \in Range(subs) \ dropped
  BY <1>9, <1>o DEF Range
<1>12. ASSUME NEW x \in Range(subs) \ dropped PROVE \E i \in 1 .. n : kept[i] = x
  <2>1. PICK k \in DOMAIN subs : subs[k] = x
    BY DEF Range
  <2> QED BY <1>8, <1>9, <1>o, <2>1
<1>13. Range(kept) = Range(subs) \ dropped
  BY <1>10, <1>11, <1>12 DEF Range
<1>14. ASSUME Distinct(subs) PROVE Distinct(kept)
  <2> SUFFICES ASSUME NEW i \in 1 .. n, NEW j \in 1 .. n, kept[i] = kept[j] PROVE i = j
    BY <1>10 DEF Distinct
  <2>1. at[i] = at[j]
    BY <1>14, <1>9, <1>o DEF Distinct
  <2> QED BY <1>4, <2>1
<1> QED BY <1>10, <1>13, <1>14

\* The fills of one walk over the open orders, each matched order's once.
LEMMA WalkFacts ==
  ASSUME NEW M, IsFiniteSet(M), NEW walk \in SetToSeqs(M)
  PROVE  /\ walk \in Seq(M) /\ DOMAIN walk = 1 .. Len(walk)
         /\ \A i, j \in DOMAIN walk : walk[i] = walk[j] => i = j
         /\ \A i \in DOMAIN walk : walk[i] \in M
         /\ \A c \in M : \E i \in DOMAIN walk : walk[i] = c
<1> DEFINE n == Cardinality(M)
<1>1. n \in Nat
  BY FS_CardinalityType
<1>2. walk \in [1 .. n -> M] /\ \A i, j \in 1 .. n : i # j => walk[i] # walk[j]
  BY DEF SetToSeqs
<1>3. walk \in Injection(1 .. n, M)
  BY <1>2 DEF Injection, IsInjective
<1>4. Cardinality(1 .. n) = n
  BY <1>1, FS_Interval
<1>5. walk \in Surjection(1 .. n, M)
  BY <1>3, <1>4, FS_Injection
<1>6. \A c \in M : \E i \in 1 .. n : walk[i] = c
  BY <1>5 DEF Surjection
<1> HIDE DEF n
<1>7. walk \in Seq(M) /\ Len(walk) = n /\ DOMAIN walk = 1 .. n
  BY <1>1, <1>2
<1> QED BY <1>2, <1>6, <1>7

-----------------------------------------------------------------------------
(* What a caller has still to send *)

\* Nothing of an order that is not among the fills, or not on its way to r.
LEMMA OwedNothing ==
  ASSUME NEW fills, NEW to, NEW r, NEW c, StillToSend(fills, to, r, c) = {}
  PROVE  OwedQty(fills, to, r, c) = 0
BY DEF OwedQty

\* Otherwise its one fill.
LEMMA OwedFill ==
  ASSUME NEW fills, NEW to, NEW r, NEW c, DistinctOrders(fills),
         NEW i \in StillToSend(fills, to, r, c)
  PROVE  OwedQty(fills, to, r, c) = fills[i].qty
<1> DEFINE j == CHOOSE k \in StillToSend(fills, to, r, c) : TRUE
<1>1. j \in StillToSend(fills, to, r, c)
  OBVIOUS
<1>2. j = i
  BY <1>1 DEF StillToSend, DistinctOrders
<1> QED BY <1>2 DEF OwedQty

LEMMA OwedIsNat ==
  ASSUME NEW fills \in Seq(Fills), NEW to, NEW r, NEW c, DistinctOrders(fills)
  PROVE  OwedQty(fills, to, r, c) \in Nat
<1>1. CASE StillToSend(fills, to, r, c) = {}
  BY <1>1, OwedNothing
<1>2. CASE StillToSend(fills, to, r, c) # {}
  <2>1. PICK i \in StillToSend(fills, to, r, c) : TRUE
    BY <1>2
  <2>2. fills[i] \in Fills
    BY DEF StillToSend
  <2> QED BY <2>1, <2>2, OwedFill DEF Fills
<1> QED BY <1>1, <1>2

\* Facts about a state that every step starts from.
LEMMA Start ==
  ASSUME BroadcastInv
  PROVE  /\ Callers = {"submit", "feed"}
         /\ \A t \in Callers :
              /\ outgoing[t] \in Seq(Fills) /\ DistinctOrders(outgoing[t])
              /\ targets[t] \in Seq(Subscribers) \cup {None}
              /\ targets[t] # None => targets[t] \in Seq(Subscribers) /\ outgoing[t] # <<>>
         /\ \A c \in ClientOrderIds : executed[c] \in Nat /\ QueuedFill(c) \in Nat
         /\ \A r \in Subscribers, c \in ClientOrderIds : delivered[r][c] \in Nat
         /\ \A t \in Callers : \A r, c : Owed(t, r, c) \in Nat
<1>1. Callers = {"submit", "feed"}
  BY DEF Callers
<1>2. \A t \in Callers :
         /\ outgoing[t] \in Seq(Fills) /\ DistinctOrders(outgoing[t])
         /\ targets[t] \in Seq(Subscribers) \cup {None}
         /\ targets[t] # None => targets[t] \in Seq(Subscribers) /\ outgoing[t] # <<>>
  BY DEF BroadcastInv, ChannelsTyped, FlowInv, OutgoingInv
<1>3. \A c \in ClientOrderIds : executed[c] \in Nat /\ QueuedFill(c) \in Nat
  BY DEF BroadcastInv, IInv, Typed, FlowInv, QueueInv
<1>4. \A r \in Subscribers, c \in ClientOrderIds : delivered[r][c] \in Nat
  BY DEF BroadcastInv, ChannelsTyped
<1>5. \A t \in Callers : \A r, c : Owed(t, r, c) \in Nat
  BY <1>2, OwedIsNat DEF Owed
<1> QED BY <1>1, <1>2, <1>3, <1>4, <1>5

flowVars == <<fill_subscribers, dropped, outgoing, targets, executed, post_ack_actions,
              delivered, from_start, update_failed>>

\* Steps that neither execute nor send nor subscribe.
LEMMA QuietStep ==
  ASSUME FlowInv, UNCHANGED flowVars,
         phase' # "idle" => phase # "idle" \/ outgoing["submit"] = <<>>
  PROVE  FlowInv'
<1>1. OutgoingInv'
  BY DEF FlowInv, OutgoingInv, flowVars, DistinctOrders
<1>2. SubscriberInv'
  BY DEF FlowInv, SubscriberInv, flowVars, Distinct, Range
<1>3. QueueInv'
  BY DEF FlowInv, QueueInv, flowVars, QueuedFill
<1>4. ASSUME NEW r, NEW c PROVE Balanced(r, c)' = Balanced(r, c)
  BY DEF Balanced, flowVars, Owed, QueuedFill
<1>5. BalanceInv'
  BY <1>4 DEF FlowInv, BalanceInv, flowVars
<1> QED BY <1>1, <1>2, <1>3, <1>5 DEF FlowInv

\* Steps of submit_order up to its commit, cancel_order, the receivers, connect.
LEMMA QuietStepsPreserve ==
  ASSUME BroadcastInv, IInv',
         \/ \E c \in ClientOrderIds : SubmitCached(c) \/ SubmitNew(c) \/ CancelOrder(c)
         \/ ReadBook \/ MatchRefused \/ MatchRestingFOK \/ AbandonAck
         \/ \E r \in Subscribers : ReceiveFill(r)
         \/ Connect \/ Disconnect
         \/ UNCHANGED vars
  PROVE  BroadcastInv'
<1>1. UNCHANGED flowVars
  BY DEF SubmitCached, SubmitNew, CancelOrder, ReadBook, MatchRefused, MatchRestingFOK, AbandonAck,
         ReceiveFill, Connect, Disconnect, SetConnected, vars, flowVars, adapterVars,
         subscriberVars, callerVars, historyVars
<1>2. phase' # "idle" => phase # "idle" \/ outgoing["submit"] = <<>>
  BY DEF SubmitCached, SubmitNew, CancelOrder, ReadBook, MatchRefused, MatchRestingFOK, AbandonAck,
         ReceiveFill, Connect, Disconnect, SetConnected, vars, callerVars, Call, Return
<1>3. FlowInv'
  BY <1>1, <1>2, QuietStep DEF BroadcastInv
<1>4. open_orders' \subseteq open_orders
  BY DEF SubmitCached, SubmitNew, CancelOrder, ReadBook, MatchRefused, MatchRestingFOK, AbandonAck,
         ReceiveFill, Connect, Disconnect, SetConnected, vars, adapterVars
<1>5. IsFiniteSet(open_orders')
  BY <1>4, FS_Subset DEF BroadcastInv
<1>6. connected' \in BOOLEAN
  BY DEF BroadcastInv, ChannelsTyped, SubmitCached, SubmitNew, CancelOrder, ReadBook, MatchRefused,
         MatchRestingFOK, AbandonAck, ReceiveFill, Connect, Disconnect, SetConnected, vars, adapterVars
<1>7. waiting' \in [Subscribers -> 0 .. FILL_CHANNEL_CAPACITY]
  <2>1. CASE \E r \in Subscribers : ReceiveFill(r)
    <3>1. PICK r \in Subscribers : ReceiveFill(r)
      BY <2>1
    <3>2. waiting[r] \in 0 .. FILL_CHANNEL_CAPACITY /\ waiting[r] > 0 /\ FILL_CHANNEL_CAPACITY \in Nat
      BY <3>1, PaperAdapterAssumption DEF ReceiveFill, BroadcastInv, ChannelsTyped
    <3>3. waiting[r] - 1 \in 0 .. FILL_CHANNEL_CAPACITY
      BY <3>2
    <3> QED BY <3>1, <3>3 DEF ReceiveFill, BroadcastInv, ChannelsTyped
  <2>2. CASE ~ \E r \in Subscribers : ReceiveFill(r)
    BY <2>2 DEF BroadcastInv, ChannelsTyped, SubmitCached, SubmitNew, CancelOrder, ReadBook, MatchRefused,
         MatchRestingFOK, AbandonAck, Connect, Disconnect, SetConnected, vars, subscriberVars
  <2> QED BY <2>1, <2>2
<1>8. /\ current' \in ClientOrderIds \cup {None} /\ acked' \subseteq ClientOrderIds
  BY DEF BroadcastInv, ChannelsTyped, SubmitCached, SubmitNew, CancelOrder, ReadBook, MatchRefused,
         MatchRestingFOK, AbandonAck, ReceiveFill, Connect, Disconnect, SetConnected, vars,
         callerVars, historyVars, Call, Return
<1>9. book' \in Snapshots \cup {None}
  <2>1. CASE ReadBook
    <3>1. orderbooks[submission[current].market_id] \in Snapshots \cup {None}
      <4>1. current \in ClientOrderIds /\ submission[current].market_id \in MarketIds
        BY <2>1, SubmissionQty, PaperAdapterAssumption DEF ReadBook, BroadcastInv, IInv, CallOK
      <4> QED BY <4>1 DEF BroadcastInv, IInv, Typed
    <3> QED BY <2>1, <3>1 DEF ReadBook, Return
  <2>2. CASE ~ ReadBook
    BY <2>2 DEF BroadcastInv, ChannelsTyped, SubmitCached, SubmitNew, CancelOrder, MatchRefused,
         MatchRestingFOK, AbandonAck, ReceiveFill, Connect, Disconnect, SetConnected, vars,
         callerVars, Return
  <2> QED BY <2>1, <2>2
<1>10. ChannelsTyped'
  BY <1>1, <1>6, <1>7, <1>8, <1>9 DEF BroadcastInv, ChannelsTyped, flowVars
<1> QED BY <1>3, <1>5, <1>10 DEF BroadcastInv

\* The commit of submit_order queues the fill behind the ack.
LEMMA CommitQueuesTheFill ==
  ASSUME BroadcastInv, IInv', phase = "match", NEW stays_open \in BOOLEAN, NEW cancel \in BOOLEAN,
         Commit(stays_open, cancel)
  PROVE  BroadcastInv'
<1> DEFINE q == Simulated.qty
<1>1. /\ current \in ClientOrderIds /\ book \in Snapshots /\ current \notin idempotency_cache
      /\ Typed
  BY DEF BroadcastInv, IInv, CallOK
<1>2. q \in Nat
  BY <1>1, SubmissionQty, FillIsPart DEF Simulated
<1>3. Fresh(current)
  BY <1>1 DEF BroadcastInv, IInv, OrderOK
<1>4. /\ open_orders' \in {open_orders, open_orders \cup {current}}
      /\ post_ack_actions' = [post_ack_actions EXCEPT ![current] = [fill |-> q, cancel |-> cancel]]
      /\ executed' = [executed EXCEPT ![current] = @ + q]
      /\ acked' = acked \cup {current}
      /\ phase' = "acked" /\ book' = None
      /\ UNCHANGED <<connected, fill_subscribers, waiting, dropped, current, outgoing, targets,
                     delivered, from_start, update_failed>>
  BY DEF Commit, subscriberVars
<1> HIDE DEF q
<1>5. IsFiniteSet(open_orders')
  BY <1>4, FS_AddElement DEF BroadcastInv
<1>6. ChannelsTyped'
  BY <1>1, <1>4 DEF BroadcastInv, ChannelsTyped
<1>7. /\ executed'[current] = q /\ executed[current] = 0
      /\ \A c \in ClientOrderIds : c # current => executed'[c] = executed[c]
      /\ \A c \in ClientOrderIds : executed[c] \in Nat /\ executed'[c] \in Nat /\ (executed[c] > 0 => executed'[c] > 0)
  BY <1>1, <1>2, <1>3, <1>4 DEF Typed, Fresh
<1>8. /\ QueuedFill(current)' = q /\ QueuedFill(current) = 0
      /\ \A c \in ClientOrderIds : c # current => QueuedFill(c)' = QueuedFill(c)
  <2>1. /\ post_ack_actions'[current] = [fill |-> q, cancel |-> cancel]
        /\ \A c \in ClientOrderIds : c # current => post_ack_actions'[c] = post_ack_actions[c]
    BY <1>1, <1>4 DEF Typed
  <2>2. [fill |-> q, cancel |-> cancel] # None
    BY <1>2, PaperAdapterAssumption
  <2>3. current' = current
    BY <1>4
  <2> QED BY <1>3, <2>1, <2>2, <2>3 DEF QueuedFill, Fresh
<1>9. OutgoingInv'
  <2>1. outgoing["submit"] = <<>>
    BY DEF BroadcastInv, FlowInv, OutgoingInv
  <2>2. ASSUME NEW t \in Callers, NEW i \in DOMAIN outgoing[t]
        PROVE  executed'[outgoing[t][i].order] > 0
    <3>1. outgoing[t][i] \in Fills
      BY Start
    <3> QED BY <1>7, <3>1 DEF BroadcastInv, FlowInv, OutgoingInv, Fills
  <2> QED BY <1>4, <2>1, <2>2 DEF BroadcastInv, FlowInv, OutgoingInv, DistinctOrders
<1>10. SubscriberInv'
  BY <1>4 DEF BroadcastInv, FlowInv, SubscriberInv, Distinct, Range
<1>11. QueueInv'
  <2>1. ASSUME NEW c \in ClientOrderIds PROVE QueuedFill(c)' \in 0 .. executed'[c]
    <3>1. CASE c = current
      BY <1>2, <1>4, <1>7, <1>8, <3>1
    <3>2. CASE c # current
      BY <1>7, <1>8, <3>2 DEF BroadcastInv, FlowInv, QueueInv
    <3> QED BY <3>1, <3>2
  <2> QED BY <2>1 DEF QueueInv
<1>12. BalanceInv'
  <2> SUFFICES ASSUME ~ update_failed, NEW r \in from_start \ dropped, NEW c \in ClientOrderIds
               PROVE  Balanced(r, c)'
    BY <1>4 DEF BalanceInv
  <2>1. Balanced(r, c) /\ r \in Subscribers
    BY DEF BroadcastInv, ChannelsTyped, FlowInv, BalanceInv
  <2>2. /\ Owed("submit", r, c)' = Owed("submit", r, c) /\ Owed("feed", r, c)' = Owed("feed", r, c)
        /\ delivered'[r][c] = delivered[r][c]
    BY <1>4 DEF Owed
  <2>3. /\ Owed("submit", r, c) \in Nat /\ Owed("feed", r, c) \in Nat /\ delivered[r][c] \in Nat
    BY <2>1, Start
  <2>4. CASE c = current
    <3>1. QueuedFill(c)' = q /\ QueuedFill(c) = 0 /\ executed'[c] = q /\ executed[c] = 0
      BY <1>4, <1>7, <1>8, <2>4
    <3> QED BY <1>2, <2>1, <2>2, <2>3, <3>1 DEF Balanced
  <2>5. CASE c # current
    <3>1. QueuedFill(c)' = QueuedFill(c) /\ executed'[c] = executed[c]
      BY <1>7, <1>8, <2>5
    <3> QED BY <2>1, <2>2, <3>1 DEF Balanced
  <2> QED BY <2>4, <2>5
<1> QED BY <1>5, <1>6, <1>9, <1>10, <1>11, <1>12 DEF BroadcastInv, FlowInv

\* take_post_ack_actions hands the queued fill to broadcast_fill.
LEMMA TakeHandsOverTheFill ==
  ASSUME BroadcastInv, IInv', TakePostAckActions
  PROVE  BroadcastInv'
<1> DEFINE q == QueuedFill(current)
           sent == IF q = 0 THEN <<>> ELSE <<Fill(current, q)>>
<1>1. /\ current \in ClientOrderIds /\ Typed /\ phase = "acked" /\ outgoing["submit"] = <<>>
  BY DEF TakePostAckActions, BroadcastInv, IInv, CallOK, FlowInv, OutgoingInv
<1>2. /\ outgoing' = [outgoing EXCEPT !["submit"] = sent]
      /\ post_ack_actions' = [post_ack_actions EXCEPT ![current] = None]
      /\ phase' = "idle" /\ current' = None /\ book' = None
      /\ UNCHANGED <<connected, open_orders, fill_subscribers, waiting, dropped, targets, executed,
                     acked, delivered, from_start, update_failed>>
  BY DEF TakePostAckActions, RemoveActions, Return, QueuedFill, subscriberVars
<1>3. q \in Nat /\ q <= executed[current] /\ executed[current] \in Nat /\ Fill(current, q) \in Fills
  BY <1>1, Start DEF BroadcastInv, FlowInv, QueueInv, Fill, Fills
<1>4. /\ outgoing \in [Callers -> Seq(Fills)] /\ "submit" \in Callers /\ "feed" \in Callers
      /\ targets["submit"] = None
  BY <1>1, Start DEF BroadcastInv, ChannelsTyped
<1> HIDE DEF q
<1>5. /\ sent \in Seq(Fills) /\ DistinctOrders(sent)
      /\ \A i \in DOMAIN sent : i = 1 /\ q > 0 /\ sent[i] = Fill(current, q)
  <2>1. CASE q = 0
    <3>1. <<>> \in Seq(Fills) /\ DOMAIN <<>> = {}
      OBVIOUS
    <3> QED BY <2>1, <3>1 DEF DistinctOrders
  <2>2. CASE q # 0
    <3>1. <<Fill(current, q)>> \in Seq(Fills) /\ DOMAIN <<Fill(current, q)>> = {1}
          /\ <<Fill(current, q)>>[1] = Fill(current, q)
      BY <1>3
    <3>2. q > 0
      BY <1>3, <2>2
    <3> QED BY <2>2, <3>1, <3>2 DEF DistinctOrders
  <2> QED BY <2>1, <2>2
<1>6. /\ outgoing'["submit"] = sent /\ outgoing'["feed"] = outgoing["feed"]
      /\ outgoing' \in [Callers -> Seq(Fills)]
  BY <1>2, <1>4, <1>5
<1>7. /\ QueuedFill(current) = q
      /\ post_ack_actions'[current] = None
      /\ \A c \in ClientOrderIds : c # current => post_ack_actions'[c] = post_ack_actions[c]
  BY <1>1, <1>2 DEF Typed, q
<1>8. \A c \in ClientOrderIds : QueuedFill(c)' = IF c = current THEN 0 ELSE QueuedFill(c)
  BY <1>7 DEF QueuedFill
<1>9. \A r, c : OwedQty(sent, None, r, c) = IF c = current THEN q ELSE 0
  <2> SUFFICES ASSUME NEW r, NEW c
               PROVE  OwedQty(sent, None, r, c) = IF c = current THEN q ELSE 0
    OBVIOUS
  <2>1. CASE c = current /\ q > 0
    <3>1. 1 \in DOMAIN sent /\ sent[1] = Fill(current, q)
      BY <1>3, <2>1
    <3>2. 1 \in StillToSend(sent, None, r, c)
      BY <2>1, <3>1 DEF StillToSend, Fill
    <3>3. OwedQty(sent, None, r, c) = sent[1].qty
      BY <1>5, <3>2, OwedFill
    <3> QED BY <2>1, <3>1, <3>3 DEF Fill
  <2>2. CASE c # current \/ q = 0
    <3>1. StillToSend(sent, None, r, c) = {}
      <4> HIDE DEF sent
      <4>1. \A i \in DOMAIN sent : sent[i].order = current /\ q > 0
        BY <1>5 DEF Fill
      <4>2. q = 0 => ~ (q > 0)
        OBVIOUS
      <4> QED BY <2>2, <4>1, <4>2 DEF StillToSend
    <3> QED BY <2>2, <3>1, OwedNothing
  <2> QED BY <1>3, <2>1, <2>2
<1> HIDE DEF sent
<1>10. \A r, c : Owed("submit", r, c) = 0
  <2>1. \A r, c : StillToSend(<<>>, None, r, c) = {}
    BY DEF StillToSend
  <2> QED BY <1>1, <1>4, <2>1, OwedNothing DEF Owed
<1>11. ChannelsTyped'
  BY <1>2, <1>6 DEF BroadcastInv, ChannelsTyped
<1>12. OutgoingInv'
  <2>1. \A i \in DOMAIN sent : executed[sent[i].order] > 0
    BY <1>3, <1>5 DEF Fill
  <2>2. \A t \in Callers : t = "submit" \/ t = "feed"
    BY DEF Callers
  <2>3. ASSUME NEW t \in Callers
        PROVE  /\ targets[t] # None => outgoing'[t] # <<>>
               /\ DistinctOrders(outgoing'[t])
               /\ \A i \in DOMAIN outgoing'[t] : executed[outgoing'[t][i].order] > 0
    <3>1. CASE t = "submit"
      BY <1>4, <1>5, <1>6, <2>1, <3>1
    <3>2. CASE t = "feed"
      BY <1>4, <1>6, <3>2 DEF BroadcastInv, FlowInv, OutgoingInv
    <3> QED BY <2>2, <3>1, <3>2
  <2> QED BY <1>2, <2>3 DEF OutgoingInv, DistinctOrders
<1>13. SubscriberInv'
  BY <1>2 DEF BroadcastInv, FlowInv, SubscriberInv, Distinct, Range
<1>14. QueueInv'
  <2>1. \A c \in ClientOrderIds : QueuedFill(c)' \in 0 .. executed[c]
    BY <1>8, Start DEF BroadcastInv, FlowInv, QueueInv
  <2> QED BY <1>2, <2>1 DEF QueueInv
<1>15. BalanceInv'
  <2> SUFFICES ASSUME ~ update_failed, NEW r \in from_start \ dropped, NEW c \in ClientOrderIds
               PROVE  Balanced(r, c)'
    BY <1>2 DEF BalanceInv
  <2>1. Balanced(r, c) /\ r \in Subscribers
    BY DEF BroadcastInv, ChannelsTyped, FlowInv, BalanceInv
  <2>2. Owed("submit", r, c)' = IF c = current THEN q ELSE 0
    BY <1>2, <1>4, <1>6, <1>9 DEF Owed
  <2>3. /\ Owed("feed", r, c)' = Owed("feed", r, c) /\ delivered'[r][c] = delivered[r][c]
        /\ executed'[c] = executed[c]
    BY <1>2, <1>6 DEF Owed
  <2>4. /\ Owed("feed", r, c) \in Nat /\ delivered[r][c] \in Nat /\ QueuedFill(c) \in Nat
    BY <1>4, <2>1, Start
  <2>5. executed[c] = delivered[r][c] + 0 + Owed("feed", r, c) + QueuedFill(c)
    BY <1>10, <2>1 DEF Balanced
  <2>6. CASE c = current
    <3>1. QueuedFill(c) = q /\ QueuedFill(c)' = 0 /\ Owed("submit", r, c)' = q
      BY <1>7, <1>8, <2>2, <2>6
    <3>2. executed[c] = delivered[r][c] + q + Owed("feed", r, c) + 0
      BY <2>4, <2>5, <3>1
    <3> QED BY <2>3, <3>1, <3>2 DEF Balanced
  <2>7. CASE c # current
    <3>1. QueuedFill(c)' = QueuedFill(c) /\ Owed("submit", r, c)' = 0
      BY <1>8, <2>2, <2>7
    <3> QED BY <2>3, <2>5, <3>1 DEF Balanced
  <2> QED BY <2>6, <2>7
<1>16. IsFiniteSet(open_orders')
  BY <1>2 DEF BroadcastInv
<1> QED BY <1>11, <1>12, <1>13, <1>14, <1>15, <1>16 DEF BroadcastInv, FlowInv

\* broadcast_fill begins: whoever listens from the start is among the senders.
LEMMA ClonePreserves ==
  ASSUME BroadcastInv, IInv', NEW t \in Callers, CloneSubscribers(t)
  PROVE  BroadcastInv'
<1>1. /\ outgoing[t] # <<>> /\ targets[t] = None
      /\ targets' = [targets EXCEPT ![t] = fill_subscribers]
      /\ UNCHANGED <<connected, orderbooks, open_orders, fill_subscribers, waiting, dropped, phase,
                     current, book, outgoing, post_ack_actions, executed, acked, delivered,
                     from_start, update_failed>>
  BY DEF CloneSubscribers, adapterVars, subscriberVars, historyVars
<1>2. /\ targets \in [Callers -> Seq(Subscribers) \cup {None}]
      /\ fill_subscribers \in Seq(Subscribers)
  BY DEF BroadcastInv, ChannelsTyped
<1>3. /\ targets'[t] = fill_subscribers
      /\ \A u \in Callers : u # t => targets'[u] = targets[u]
      /\ targets' \in [Callers -> Seq(Subscribers) \cup {None}]
  BY <1>1, <1>2
<1>4. ChannelsTyped'
  BY <1>1, <1>3 DEF BroadcastInv, ChannelsTyped
<1>5. OutgoingInv'
  BY <1>1, <1>3 DEF BroadcastInv, FlowInv, OutgoingInv, DistinctOrders
<1>6. SubscriberInv'
  <2>1. ASSUME NEW u \in Callers, targets'[u] # None
        PROVE  /\ Distinct(targets'[u])
               /\ Range(targets'[u]) \subseteq Range(fill_subscribers) \cup dropped
    BY <1>3, <2>1 DEF BroadcastInv, FlowInv, SubscriberInv
  <2> QED BY <1>1, <2>1 DEF BroadcastInv, FlowInv, SubscriberInv, Distinct, Range
<1>7. QueueInv'
  BY <1>1 DEF BroadcastInv, FlowInv, QueueInv, QueuedFill
<1>8. BalanceInv'
  <2> SUFFICES ASSUME ~ update_failed, NEW r \in from_start \ dropped, NEW c \in ClientOrderIds
               PROVE  Balanced(r, c)'
    BY <1>1 DEF BalanceInv
  <2>1. Balanced(r, c)
    BY DEF BroadcastInv, FlowInv, BalanceInv
  <2>2. r \in Range(fill_subscribers)
    BY DEF BroadcastInv, FlowInv, SubscriberInv
  <2>3. StillToSend(outgoing[t], fill_subscribers, r, c) = StillToSend(outgoing[t], None, r, c)
    BY <2>2 DEF StillToSend
  <2>4. ASSUME NEW u \in Callers PROVE Owed(u, r, c)' = Owed(u, r, c)
    <3>1. CASE u = t
      <4>1. OwedQty(outgoing[t], fill_subscribers, r, c) = OwedQty(outgoing[t], None, r, c)
        BY <2>3 DEF OwedQty
      <4>2. outgoing'[t] = outgoing[t] /\ targets'[t] = fill_subscribers /\ targets[t] = None
        BY <1>1, <1>3
      <4> QED BY <3>1, <4>1, <4>2 DEF Owed
    <3>2. CASE u # t
      BY <1>1, <1>3, <3>2 DEF Owed
    <3> QED BY <3>1, <3>2
  <2>5. "submit" \in Callers /\ "feed" \in Callers
    BY DEF Callers
  <2>6. QueuedFill(c)' = QueuedFill(c)
    BY <1>1 DEF QueuedFill
  <2> QED BY <1>1, <2>1, <2>4, <2>5, <2>6 DEF Balanced
<1> QED BY <1>1, <1>4, <1>5, <1>6, <1>7, <1>8 DEF BroadcastInv, FlowInv

\* A send puts the first fill into a channel and crosses its receiver off.
LEMMA SendPreserves ==
  ASSUME BroadcastInv, IInv', NEW t \in Callers, SendFill(t)
  PROVE  BroadcastInv'
<1> DEFINE x    == Head(targets[t])
           rest == Tail(targets[t])
           fill == Head(outgoing[t])
<1>1. /\ targets[t] # None /\ targets[t] # <<>>
      /\ \/ x \in dropped /\ waiting' = waiting /\ delivered' = delivered
         \/ /\ x \notin dropped /\ waiting[x] < FILL_CHANNEL_CAPACITY
            /\ waiting' = [waiting EXCEPT ![x] = @ + 1]
            /\ delivered' = [delivered EXCEPT ![x][fill.order] = @ + fill.qty]
      /\ targets' = [targets EXCEPT ![t] = rest]
      /\ UNCHANGED <<connected, orderbooks, open_orders, fill_subscribers, dropped, phase,
                     current, book, outgoing, post_ack_actions, executed, acked,
                     from_start, update_failed>>
  BY DEF SendFill, HasRoom, adapterVars
<1>2. /\ targets \in [Callers -> Seq(Subscribers) \cup {None}]
      /\ targets[t] \in Seq(Subscribers) /\ outgoing[t] \in Seq(Fills) /\ outgoing[t] # <<>>
      /\ DistinctOrders(outgoing[t]) /\ Distinct(targets[t])
      /\ waiting \in [Subscribers -> 0 .. FILL_CHANNEL_CAPACITY]
      /\ delivered \in [Subscribers -> [ClientOrderIds -> Nat]]
  BY <1>1, Start DEF BroadcastInv, ChannelsTyped, FlowInv, SubscriberInv
<1>3. /\ Distinct(rest) /\ rest \in Seq(Subscribers) /\ x \in Subscribers
      /\ Range(rest) = Range(targets[t]) \ {x} /\ x \in Range(targets[t])
  BY <1>1, <1>2, TailOfDistinct
<1>4. /\ fill \in Fills /\ fill = outgoing[t][1] /\ 1 \in DOMAIN outgoing[t]
      /\ fill.order \in ClientOrderIds /\ fill.qty \in Nat
  <2>1. fill \in Fills /\ fill = outgoing[t][1] /\ 1 \in DOMAIN outgoing[t]
    BY <1>2, TailDistinct
  <2> QED BY <2>1 DEF Fills
<1> HIDE DEF x, rest, fill
<1>n. rest # None
  BY <1>3, PaperAdapterAssumption
<1>5. /\ targets'[t] = rest
      /\ \A u \in Callers : u # t => targets'[u] = targets[u]
      /\ targets' \in [Callers -> Seq(Subscribers) \cup {None}]
  BY <1>1, <1>2, <1>3
<1>6. waiting' \in [Subscribers -> 0 .. FILL_CHANNEL_CAPACITY]
  <2>1. CASE x \in dropped
    BY <1>1, <1>2, <2>1
  <2>2. CASE x \notin dropped
    <3>1. waiting[x] + 1 \in 0 .. FILL_CHANNEL_CAPACITY
      BY <1>1, <1>2, <1>3, <2>2, PaperAdapterAssumption
    <3> QED BY <1>1, <1>2, <2>2, <3>1
  <2> QED BY <2>1, <2>2
<1>7. /\ delivered' \in [Subscribers -> [ClientOrderIds -> Nat]]
      /\ \A r \in Subscribers, c \in ClientOrderIds :
           delivered'[r][c] = IF r = x /\ x \notin dropped /\ c = fill.order
                                THEN delivered[r][c] + fill.qty ELSE delivered[r][c]
  <2>1. CASE x \in dropped
    BY <1>1, <1>2, <2>1
  <2>2. CASE x \notin dropped
    <3>1. /\ delivered' = [delivered EXCEPT ![x] = [delivered[x] EXCEPT ![fill.order] = @ + fill.qty]]
          /\ delivered[x] \in [ClientOrderIds -> Nat]
      BY <1>1, <1>2, <1>3, <2>2
    <3>2. [delivered[x] EXCEPT ![fill.order] = @ + fill.qty] \in [ClientOrderIds -> Nat]
      BY <1>4, <3>1
    <3>3. delivered' \in [Subscribers -> [ClientOrderIds -> Nat]]
      BY <1>2, <3>1, <3>2
    <3>4. \A c \in ClientOrderIds : delivered'[x][c] =
            IF c = fill.order THEN delivered[x][c] + fill.qty ELSE delivered[x][c]
      BY <1>2, <1>3, <1>4, <3>1
    <3>5. \A r \in Subscribers : r # x => delivered'[r] = delivered[r]
      BY <1>2, <3>1
    <3> QED BY <2>2, <3>3, <3>4, <3>5
  <2> QED BY <2>1, <2>2
<1>8. ChannelsTyped'
  BY <1>1, <1>5, <1>6, <1>7 DEF BroadcastInv, ChannelsTyped
<1>9. OutgoingInv'
  <2>1. \A u \in Callers : targets'[u] # None => outgoing[u] # <<>>
    BY <1>2, <1>5 DEF BroadcastInv, FlowInv, OutgoingInv
  <2> QED BY <1>1, <2>1 DEF BroadcastInv, FlowInv, OutgoingInv, DistinctOrders
<1>10. Range(targets[t]) \subseteq Range(fill_subscribers) \cup dropped
  BY <1>1 DEF BroadcastInv, FlowInv, SubscriberInv
<1>11. SubscriberInv'
  <2>1. ASSUME NEW u \in Callers, targets'[u] # None
        PROVE  /\ Distinct(targets'[u])
               /\ Range(targets'[u]) \subseteq Range(fill_subscribers) \cup dropped
    <3>1. CASE u = t
      BY <1>3, <1>5, <1>10, <3>1
    <3>2. CASE u # t
      BY <1>5, <2>1, <3>2 DEF BroadcastInv, FlowInv, SubscriberInv
    <3> QED BY <3>1, <3>2
  <2>2. ASSUME NEW r \in Subscribers, r \notin Range(fill_subscribers) \cup dropped,
               NEW c \in ClientOrderIds
        PROVE  delivered'[r][c] = 0
    <3>1. r # x
      BY <1>3, <1>10, <2>2
    <3> QED BY <1>7, <2>2, <3>1 DEF BroadcastInv, FlowInv, SubscriberInv
  <2> QED BY <1>1, <2>1, <2>2 DEF BroadcastInv, FlowInv, SubscriberInv, Distinct, Range
<1>12. QueueInv'
  BY <1>1 DEF BroadcastInv, FlowInv, QueueInv, QueuedFill
<1>13. BalanceInv'
  <2> SUFFICES ASSUME ~ update_failed, NEW r \in from_start \ dropped, NEW c \in ClientOrderIds
               PROVE  Balanced(r, c)'
    BY <1>1 DEF BalanceInv
  <2>1. Balanced(r, c) /\ r \in Subscribers /\ r \notin dropped
    BY DEF BroadcastInv, ChannelsTyped, FlowInv, BalanceInv
  <2>2. \A u \in Callers : u # t => Owed(u, r, c)' = Owed(u, r, c)
    BY <1>1, <1>5 DEF Owed
  <2>3. /\ Owed(t, r, c) = OwedQty(outgoing[t], targets[t], r, c)
        /\ Owed(t, r, c)' = OwedQty(outgoing[t], rest, r, c)
    BY <1>1, <1>5 DEF Owed
  <2>4. delivered'[r][c] + Owed(t, r, c)' = delivered[r][c] + Owed(t, r, c)
    <3>1. CASE r = x /\ c = fill.order
      <4>1. 1 \in StillToSend(outgoing[t], targets[t], r, c)
        BY <1>3, <1>4, <3>1 DEF StillToSend
      <4>2. Owed(t, r, c) = fill.qty
        BY <1>2, <1>4, <2>3, <4>1, OwedFill
      <4>3. StillToSend(outgoing[t], rest, r, c) = {}
        <5> SUFFICES ASSUME NEW i \in StillToSend(outgoing[t], rest, r, c) PROVE FALSE
          OBVIOUS
        <5>1. i \in DOMAIN outgoing[t] /\ outgoing[t][i].order = outgoing[t][1].order
          BY <1>4, <3>1 DEF StillToSend
        <5>2. i = 1
          BY <1>2, <1>4, <5>1 DEF DistinctOrders
        <5> QED BY <1>3, <1>n, <3>1, <5>2 DEF StillToSend
      <4>4. Owed(t, r, c)' = 0
        BY <2>3, <4>3, OwedNothing
      <4>5. delivered'[r][c] = delivered[r][c] + fill.qty /\ delivered[r][c] \in Nat
        BY <1>7, <2>1, <3>1, Start
      <4> QED BY <1>4, <4>2, <4>4, <4>5
    <3>2. CASE ~ (r = x /\ c = fill.order)
      <4>1. delivered'[r][c] = delivered[r][c]
        BY <1>7, <2>1, <3>2
      <4>2. StillToSend(outgoing[t], rest, r, c) = StillToSend(outgoing[t], targets[t], r, c)
        <5>1. CASE r # x
          <6>1. r \in Range(rest) <=> r \in Range(targets[t])
            BY <1>3, <5>1
          <6> QED BY <1>1, <1>n, <6>1 DEF StillToSend
        <5>2. CASE c # fill.order
          <6>1. \A i \in DOMAIN outgoing[t] : outgoing[t][i].order = c => i # 1
            BY <1>4, <5>2
          <6> QED BY <6>1 DEF StillToSend
        <5> QED BY <3>2, <5>1, <5>2
      <4>3. OwedQty(outgoing[t], rest, r, c) = OwedQty(outgoing[t], targets[t], r, c)
        BY <4>2 DEF OwedQty
      <4> QED BY <2>3, <4>1, <4>3
    <3> QED BY <3>1, <3>2
  <2>5. executed'[c] = executed[c] /\ QueuedFill(c)' = QueuedFill(c)
    BY <1>1 DEF QueuedFill
  <2>6. /\ "submit" \in Callers /\ "feed" \in Callers /\ (t = "submit" \/ t = "feed")
        /\ "submit" # "feed"
    BY DEF Callers
  <2>7. /\ Owed("submit", r, c) \in Nat /\ Owed("feed", r, c) \in Nat /\ delivered[r][c] \in Nat
        /\ QueuedFill(c) \in Nat /\ delivered'[r][c] \in Nat
    BY <1>7, <2>1, <2>6, Start
  <2>8. Owed(t, r, c)' \in Nat
    BY <1>2, <2>3, OwedIsNat
  <2>9. executed[c] = delivered'[r][c] + Owed("submit", r, c)' + Owed("feed", r, c)' + QueuedFill(c)
    <3>1. CASE t = "submit"
      <4>1. Owed("feed", r, c)' = Owed("feed", r, c)
        BY <2>2, <2>6, <3>1
      <4>2. /\ delivered'[r][c] + Owed("submit", r, c)' = delivered[r][c] + Owed("submit", r, c)
            /\ Owed("submit", r, c)' \in Nat
        BY <2>4, <2>8, <3>1
      <4>3. executed[c] = delivered[r][c] + Owed("submit", r, c) + Owed("feed", r, c) + QueuedFill(c)
        BY <2>1 DEF Balanced
      <4> QED BY <2>7, <4>1, <4>2, <4>3
    <3>2. CASE t = "feed"
      <4>1. Owed("submit", r, c)' = Owed("submit", r, c)
        BY <2>2, <2>6, <3>2
      <4>2. /\ delivered'[r][c] + Owed("feed", r, c)' = delivered[r][c] + Owed("feed", r, c)
            /\ Owed("feed", r, c)' \in Nat
        BY <2>4, <2>8, <3>2
      <4>3. executed[c] = delivered[r][c] + Owed("submit", r, c) + Owed("feed", r, c) + QueuedFill(c)
        BY <2>1 DEF Balanced
      <4> QED BY <2>7, <4>1, <4>2, <4>3
    <3> QED BY <2>6, <3>1, <3>2
  <2> QED BY <2>5, <2>9 DEF Balanced
<1> QED BY <1>1, <1>8, <1>9, <1>11, <1>12, <1>13 DEF BroadcastInv, FlowInv

\* The end of a broadcast: closed senders are forgotten, the next fill is next.
LEMMA RetainPreserves ==
  ASSUME BroadcastInv, IInv', NEW t \in Callers, RetainOpen(t)
  PROVE  BroadcastInv'
<1> DEFINE rest == Tail(outgoing[t])
<1>1. /\ targets[t] = <<>> /\ fill_subscribers' \in Retained
      /\ targets' = [targets EXCEPT ![t] = None]
      /\ outgoing' = [outgoing EXCEPT ![t] = rest]
      /\ UNCHANGED <<connected, orderbooks, open_orders, waiting, dropped, phase,
                     current, book, post_ack_actions, executed, acked, delivered,
                     from_start, update_failed>>
  BY DEF RetainOpen, adapterVars, historyVars
<1>n. <<>> # None
  <2>1. <<>> \in Seq(Subscribers)
    OBVIOUS
  <2> QED BY <2>1, PaperAdapterAssumption
<1>2. /\ targets \in [Callers -> Seq(Subscribers) \cup {None}]
      /\ outgoing \in [Callers -> Seq(Fills)]
      /\ outgoing[t] \in Seq(Fills) /\ outgoing[t] # <<>>
      /\ DistinctOrders(outgoing[t])
      /\ fill_subscribers \in Seq(Subscribers) /\ Distinct(fill_subscribers)
  BY <1>1, <1>n, Start DEF BroadcastInv, ChannelsTyped, FlowInv, SubscriberInv
<1>3. PICK kept \in Retained : fill_subscribers' = kept
  BY <1>1
<1>4. /\ kept \in Seq(Subscribers) /\ Distinct(kept)
      /\ Range(kept) = Range(fill_subscribers) \ dropped
  BY <1>2, RetainedFacts
<1>5. /\ rest \in Seq(Fills) /\ 1 \in DOMAIN outgoing[t]
      /\ \A i \in DOMAIN rest : i + 1 \in DOMAIN outgoing[t] /\ i \in Nat /\ i > 0
                                /\ rest[i] = outgoing[t][i + 1]
      /\ \A i \in DOMAIN outgoing[t] : i # 1 => i - 1 \in DOMAIN rest /\ rest[i - 1] = outgoing[t][i]
  BY <1>2, TailDistinct
<1> HIDE DEF rest
<1>6. DistinctOrders(rest)
  <2> SUFFICES ASSUME NEW i \in DOMAIN rest, NEW j \in DOMAIN rest, rest[i].order = rest[j].order
               PROVE  i = j
    BY DEF DistinctOrders
  <2>1. i + 1 = j + 1 /\ i \in Nat /\ j \in Nat
    BY <1>2, <1>5 DEF DistinctOrders
  <2> QED BY <2>1
<1>7. /\ targets'[t] = None /\ outgoing'[t] = rest
      /\ \A u \in Callers : u # t => targets'[u] = targets[u] /\ outgoing'[u] = outgoing[u]
      /\ targets' \in [Callers -> Seq(Subscribers) \cup {None}]
      /\ outgoing' \in [Callers -> Seq(Fills)]
  BY <1>1, <1>2, <1>5
<1>8. ChannelsTyped'
  BY <1>1, <1>3, <1>4, <1>7 DEF BroadcastInv, ChannelsTyped
<1>9. OutgoingInv'
  <2>1. "submit" \in Callers
    BY DEF Callers
  <2>2. phase # "idle" => outgoing'["submit"] = <<>>
    BY <1>2, <1>7, <2>1 DEF BroadcastInv, FlowInv, OutgoingInv
  <2>3. ASSUME NEW u \in Callers
        PROVE  /\ targets'[u] # None => outgoing'[u] # <<>>
               /\ DistinctOrders(outgoing'[u])
               /\ \A i \in DOMAIN outgoing'[u] : executed[outgoing'[u][i].order] > 0
    <3>1. CASE u = t
      <4>1. \A i \in DOMAIN rest : executed[rest[i].order] > 0
        BY <1>5 DEF BroadcastInv, FlowInv, OutgoingInv
      <4> QED BY <1>6, <1>7, <3>1, <4>1
    <3>2. CASE u # t
      BY <1>7, <3>2 DEF BroadcastInv, FlowInv, OutgoingInv
    <3> QED BY <3>1, <3>2
  <2> QED BY <1>1, <2>2, <2>3 DEF OutgoingInv, DistinctOrders
<1>10. SubscriberInv'
  <2>1. ASSUME NEW u \in Callers, targets'[u] # None
        PROVE  /\ Distinct(targets'[u])
               /\ Range(targets'[u]) \subseteq Range(kept) \cup dropped
    <3>1. u # t
      BY <1>7, <2>1
    <3> QED BY <1>4, <1>7, <2>1, <3>1 DEF BroadcastInv, FlowInv, SubscriberInv
  <2>2. from_start \ dropped \subseteq Range(kept)
    BY <1>4 DEF BroadcastInv, FlowInv, SubscriberInv
  <2>3. \A r \in Subscribers : r \notin Range(kept) \cup dropped =>
          \A c \in ClientOrderIds : delivered[r][c] = 0
    BY <1>4 DEF BroadcastInv, FlowInv, SubscriberInv
  <2> QED BY <1>1, <1>3, <1>4, <2>1, <2>2, <2>3 DEF SubscriberInv, Distinct, Range
<1>11. QueueInv'
  BY <1>1 DEF BroadcastInv, FlowInv, QueueInv, QueuedFill
<1>12. ASSUME NEW r, NEW c PROVE OwedQty(rest, None, r, c) = OwedQty(outgoing[t], <<>>, r, c)
  <2>1. Range(<<>>) = {}
    BY DEF Range
  <2>2. CASE \E i \in StillToSend(outgoing[t], <<>>, r, c) : TRUE
    <3>1. PICK i \in StillToSend(outgoing[t], <<>>, r, c) : TRUE
      BY <2>2
    <3>2. i \in DOMAIN outgoing[t] /\ outgoing[t][i].order = c /\ i # 1
      BY <1>n, <2>1 DEF StillToSend
    <3>3. i - 1 \in StillToSend(rest, None, r, c) /\ rest[i - 1] = outgoing[t][i]
      BY <1>5, <3>2 DEF StillToSend
    <3>4. OwedQty(rest, None, r, c) = rest[i - 1].qty
      BY <1>6, <3>3, OwedFill
    <3>5. OwedQty(outgoing[t], <<>>, r, c) = outgoing[t][i].qty
      BY <1>2, <3>1, OwedFill
    <3> QED BY <3>3, <3>4, <3>5
  <2>3. CASE StillToSend(outgoing[t], <<>>, r, c) = {}
    <3>1. ASSUME NEW i \in StillToSend(rest, None, r, c) PROVE FALSE
      <4>1. i \in DOMAIN rest /\ rest[i].order = c
        BY DEF StillToSend
      <4>2. i + 1 \in DOMAIN outgoing[t] /\ outgoing[t][i + 1].order = c /\ i + 1 # 1
        BY <1>5, <4>1
      <4> QED BY <2>3, <4>2 DEF StillToSend
    <3>2. StillToSend(rest, None, r, c) = {}
      BY <3>1
    <3> QED BY <2>3, <3>2, OwedNothing
  <2> QED BY <2>2, <2>3
<1>13. BalanceInv'
  <2> SUFFICES ASSUME ~ update_failed, NEW r \in from_start \ dropped, NEW c \in ClientOrderIds
               PROVE  Balanced(r, c)'
    BY <1>1 DEF BalanceInv
  <2>1. Balanced(r, c)
    BY DEF BroadcastInv, FlowInv, BalanceInv
  <2>2. ASSUME NEW u \in Callers PROVE Owed(u, r, c)' = Owed(u, r, c)
    <3>1. CASE u = t
      BY <1>1, <1>7, <1>12, <3>1 DEF Owed
    <3>2. CASE u # t
      BY <1>7, <3>2 DEF Owed
    <3> QED BY <3>1, <3>2
  <2>3. "submit" \in Callers /\ "feed" \in Callers
    BY DEF Callers
  <2>4. QueuedFill(c)' = QueuedFill(c)
    BY <1>1 DEF QueuedFill
  <2> QED BY <1>1, <2>1, <2>2, <2>3, <2>4 DEF Balanced
<1> QED BY <1>1, <1>8, <1>9, <1>10, <1>11, <1>13 DEF BroadcastInv, FlowInv

\* subscribe_fills: a newcomer has got nothing, and is owed nothing as long as
\* nothing was executed.
LEMMA SubscribePreserves ==
  ASSUME BroadcastInv, IInv', NEW x \in Subscribers, SubscribeFills(x)
  PROVE  BroadcastInv'
<1> DEFINE longer == Append(fill_subscribers, x)
<1>1. /\ x \notin Range(fill_subscribers) \cup dropped
      /\ fill_subscribers' = longer
      /\ from_start' = IF \A c \in ClientOrderIds : executed[c] = 0
                         THEN from_start \cup {x} ELSE from_start
      /\ UNCHANGED <<connected, orderbooks, open_orders, waiting, dropped, phase,
                     current, book, outgoing, targets, post_ack_actions, executed, acked, delivered,
                     update_failed>>
  BY DEF SubscribeFills, adapterVars, callerVars
<1>2. fill_subscribers \in Seq(Subscribers) /\ Distinct(fill_subscribers)
  BY DEF BroadcastInv, ChannelsTyped, FlowInv, SubscriberInv
<1>3. /\ longer \in Seq(Subscribers) /\ Len(fill_subscribers) \in Nat
      /\ DOMAIN fill_subscribers = 1 .. Len(fill_subscribers)
      /\ DOMAIN longer = 1 .. Len(fill_subscribers) + 1
      /\ \A i \in 1 .. Len(fill_subscribers) : longer[i] = fill_subscribers[i]
      /\ longer[Len(fill_subscribers) + 1] = x
  BY <1>2
<1>4. /\ \A i \in DOMAIN longer : \/ i \in DOMAIN fill_subscribers /\ longer[i] = fill_subscribers[i]
                                  \/ i = Len(fill_subscribers) + 1 /\ longer[i] = x
      /\ \A i \in DOMAIN fill_subscribers : i \in DOMAIN longer /\ longer[i] = fill_subscribers[i]
      /\ Len(fill_subscribers) + 1 \in DOMAIN longer
  BY <1>3
<1> HIDE DEF longer
<1>5. Range(longer) = Range(fill_subscribers) \cup {x}
  <2>1. \A i \in DOMAIN longer : longer[i] \in Range(fill_subscribers) \cup {x}
    BY <1>4 DEF Range
  <2>2. \A i \in DOMAIN fill_subscribers : fill_subscribers[i] \in Range(longer)
    BY <1>4 DEF Range
  <2>3. x \in Range(longer)
    BY <1>3, <1>4 DEF Range
  <2> QED BY <2>1, <2>2, <2>3 DEF Range
<1>6. Distinct(longer)
  <2>1. \A i \in DOMAIN fill_subscribers : fill_subscribers[i] # x
    BY <1>1 DEF Range
  <2> QED BY <1>2, <1>4, <2>1 DEF Distinct
<1>7. ChannelsTyped'
  BY <1>1, <1>3 DEF BroadcastInv, ChannelsTyped
<1>8. OutgoingInv'
  BY <1>1 DEF BroadcastInv, FlowInv, OutgoingInv, DistinctOrders
<1>9. SubscriberInv'
  <2>1. \A u \in Callers : targets[u] # None =>
          Distinct(targets[u]) /\ Range(targets[u]) \subseteq Range(longer) \cup dropped
    BY <1>5 DEF BroadcastInv, FlowInv, SubscriberInv
  <2>2. from_start' \ dropped \subseteq Range(longer)
    BY <1>1, <1>5 DEF BroadcastInv, FlowInv, SubscriberInv
  <2>3. \A r \in Subscribers : r \notin Range(longer) \cup dropped =>
          \A c \in ClientOrderIds : delivered[r][c] = 0
    BY <1>5 DEF BroadcastInv, FlowInv, SubscriberInv
  <2> QED BY <1>1, <1>6, <2>1, <2>2, <2>3 DEF SubscriberInv, Distinct, Range
<1>10. QueueInv'
  BY <1>1 DEF BroadcastInv, FlowInv, QueueInv, QueuedFill
<1>11. BalanceInv'
  <2> SUFFICES ASSUME ~ update_failed, NEW r \in from_start' \ dropped, NEW c \in ClientOrderIds
               PROVE  Balanced(r, c)
    BY <1>1 DEF BalanceInv, Balanced, Owed, QueuedFill
  <2>1. CASE r \in from_start
    BY <2>1 DEF BroadcastInv, FlowInv, BalanceInv
  <2>2. CASE r = x /\ \A d \in ClientOrderIds : executed[d] = 0
    <3>1. delivered[r][c] = 0
      BY <1>1, <2>2 DEF BroadcastInv, FlowInv, SubscriberInv
    <3>2. ASSUME NEW t \in Callers PROVE Owed(t, r, c) = 0
      <4>1. ASSUME NEW i \in DOMAIN outgoing[t] PROVE FALSE
        <5>1. outgoing[t][i].order \in ClientOrderIds
          <6>1. outgoing[t][i] \in Fills
            BY Start
          <6> QED BY <6>1 DEF Fills
        <5>2. executed[outgoing[t][i].order] > 0
          BY DEF BroadcastInv, FlowInv, OutgoingInv
        <5> QED BY <2>2, <5>1, <5>2
      <4>2. StillToSend(outgoing[t], targets[t], r, c) = {}
        BY <4>1 DEF StillToSend
      <4> QED BY <4>2, OwedNothing DEF Owed
    <3>3. QueuedFill(c) = 0
      BY <2>2 DEF BroadcastInv, FlowInv, QueueInv
    <3>4. "submit" \in Callers /\ "feed" \in Callers
      BY DEF Callers
    <3> QED BY <2>2, <3>1, <3>2, <3>3, <3>4 DEF Balanced
  <2> QED BY <1>1, <2>1, <2>2
<1> QED BY <1>1, <1>7, <1>8, <1>9, <1>10, <1>11 DEF BroadcastInv, FlowInv

\* A receiver goes and what waited in its channel with it.
LEMMA DropPreserves ==
  ASSUME BroadcastInv, IInv', NEW x \in Subscribers, DropReceiver(x)
  PROVE  BroadcastInv'
<1>1. /\ dropped' = dropped \cup {x} /\ waiting' = [waiting EXCEPT ![x] = 0]
      /\ UNCHANGED <<connected, orderbooks, open_orders, fill_subscribers, phase,
                     current, book, outgoing, targets, post_ack_actions, executed, acked, delivered,
                     from_start, update_failed>>
  BY DEF DropReceiver, adapterVars, callerVars, historyVars
<1>2. ChannelsTyped'
  BY <1>1, PaperAdapterAssumption DEF BroadcastInv, ChannelsTyped
<1>3. OutgoingInv'
  BY <1>1 DEF BroadcastInv, FlowInv, OutgoingInv, DistinctOrders
<1>4. SubscriberInv'
  <2>1. \A u \in Callers : targets[u] # None =>
          Distinct(targets[u]) /\ Range(targets[u]) \subseteq Range(fill_subscribers) \cup dropped'
    BY <1>1 DEF BroadcastInv, FlowInv, SubscriberInv
  <2>2. from_start \ dropped' \subseteq Range(fill_subscribers)
    BY <1>1 DEF BroadcastInv, FlowInv, SubscriberInv
  <2>3. \A r \in Subscribers : r \notin Range(fill_subscribers) \cup dropped' =>
          \A c \in ClientOrderIds : delivered[r][c] = 0
    BY <1>1 DEF BroadcastInv, FlowInv, SubscriberInv
  <2>4. Distinct(fill_subscribers)
    BY DEF BroadcastInv, FlowInv, SubscriberInv
  <2> QED BY <1>1, <2>1, <2>2, <2>3, <2>4 DEF SubscriberInv, Distinct, Range
<1>5. QueueInv'
  BY <1>1 DEF BroadcastInv, FlowInv, QueueInv, QueuedFill
<1>6. BalanceInv'
  <2>1. \A r, c : Balanced(r, c)' = Balanced(r, c)
    BY <1>1 DEF Balanced, Owed, QueuedFill
  <2> QED BY <1>1, <2>1 DEF BroadcastInv, FlowInv, BalanceInv
<1> QED BY <1>1, <1>2, <1>3, <1>4, <1>5, <1>6 DEF BroadcastInv, FlowInv

\* What replace_orderbook executes of the orders it gets to.
LEMMA ApplyFillsFacts ==
  ASSUME BroadcastInv, NEW b \in Snapshots, NEW done \in SUBSET Resting(b.market_id),
         ApplyFills(done, b)
  PROVE  /\ open_orders' \subseteq open_orders
         /\ \A c \in done : c \in ClientOrderIds /\ RemainingQty(c) > 0 /\ Reprice(c, b).qty \in Nat
         /\ \A c \in ClientOrderIds :
              executed'[c] = executed[c] + IF c \in done THEN Reprice(c, b).qty ELSE 0
<1>1. Typed /\ IInv
  BY DEF BroadcastInv, IInv
<1>2. ASSUME NEW c \in done
      PROVE  c \in ClientOrderIds /\ RemainingQty(c) > 0 /\ Reprice(c, b).qty \in Nat
  <2>1. c \in ClientOrderIds /\ OrderOK(c) /\ c \in open_orders
    BY <1>1 DEF Resting, IInv, Typed
  <2>2. /\ submission[c].qty \in Nat /\ executed[c] \in Nat
        /\ filled_qty[c] = executed[c]
        /\ executed[c] <= submission[c].qty /\ executed[c] # submission[c].qty
    BY <1>1, <2>1, SubmissionQty DEF OrderOK, Sound, Ended, Typed
  <2>3. RemainingQty(c) \in 0 .. submission[c].qty /\ RemainingQty(c) > 0
    BY <2>2 DEF RemainingQty
  <2>4. Reprice(c, b).qty \in 0 .. RemainingQty(c)
    BY <1>1, <2>1, <2>3, FillIsPart DEF Reprice
  <2> QED BY <2>1, <2>3, <2>4
<1>3. {c \in done : RemainingQty(c) > 0} = done
  BY <1>2
<1>4. /\ open_orders' \subseteq open_orders
      /\ executed' = [c \in ClientOrderIds |->
                        executed[c] + IF c \in done THEN Reprice(c, b).qty ELSE 0]
  BY <1>3 DEF ApplyFills
<1> QED BY <1>2, <1>4

\* replace_orderbook executes and hands all the fills to broadcast_fill; if it
\* fails, some may be lost.
LEMMA ReplacePreserves ==
  ASSUME BroadcastInv, IInv', NEW b \in Snapshots, ReplaceOrderbook(b) \/ ReplaceOrderbookFails(b)
  PROVE  BroadcastInv'
<1>1. PICK done \in SUBSET Resting(b.market_id) :
        /\ ApplyFills(done, b)
        /\ ReplaceOrderbook(b) => done = Resting(b.market_id)
  <2>1. CASE ReplaceOrderbook(b)
    BY <2>1 DEF ReplaceOrderbook
  <2>2. CASE ReplaceOrderbookFails(b) /\ ~ ReplaceOrderbook(b)
    BY <2>2 DEF ReplaceOrderbookFails
  <2> QED BY <2>1, <2>2
<1>2. /\ outgoing["feed"] = <<>> /\ targets["feed"] = None
      /\ UNCHANGED <<connected, post_ack_actions, fill_subscribers, waiting, dropped, phase,
                     current, book, targets, acked, delivered, from_start>>
  <2>1. outgoing["feed"] = <<>>
    BY DEF ReplaceOrderbook, ReplaceOrderbookFails, Accepts
  <2>2. targets["feed"] = None
    BY <2>1 DEF BroadcastInv, FlowInv, OutgoingInv, Callers
  <2> QED BY <2>1, <2>2 DEF ReplaceOrderbook, ReplaceOrderbookFails, subscriberVars, callerVars
<1>3. /\ open_orders' \subseteq open_orders
      /\ \A c \in done : c \in ClientOrderIds /\ RemainingQty(c) > 0 /\ Reprice(c, b).qty \in Nat
      /\ \A c \in ClientOrderIds :
           executed'[c] = executed[c] + IF c \in done THEN Reprice(c, b).qty ELSE 0
  BY <1>1, ApplyFillsFacts
<1>4. IsFiniteSet(open_orders') /\ IsFiniteSet(Resting(b.market_id))
  <2>1. Resting(b.market_id) \subseteq open_orders
    BY DEF Resting
  <2> QED BY <1>3, <2>1, FS_Subset DEF BroadcastInv
<1>5. \A c \in ClientOrderIds : /\ executed[c] \in Nat /\ executed'[c] \in Nat
                                /\ executed[c] <= executed'[c]
  BY <1>3, Start
<1>6. QueueInv'
  <2>1. \A c \in ClientOrderIds : QueuedFill(c) \in 0 .. executed'[c]
    BY <1>5 DEF BroadcastInv, FlowInv, QueueInv
  <2> QED BY <1>2, <2>1 DEF QueueInv, QueuedFill
<1>7. SubscriberInv'
  BY <1>2 DEF BroadcastInv, FlowInv, SubscriberInv, Distinct, Range
<1>c. "submit" \in Callers /\ "feed" \in Callers /\ \A t \in Callers : t = "submit" \/ t = "feed"
  BY DEF Callers
<1>8. ASSUME NEW t \in Callers, NEW i \in DOMAIN outgoing[t]
      PROVE  executed'[outgoing[t][i].order] > 0
  <2>1. outgoing[t][i] \in Fills
    BY Start
  <2>2. outgoing[t][i].order \in ClientOrderIds /\ executed[outgoing[t][i].order] > 0
    BY <2>1 DEF Fills, BroadcastInv, FlowInv, OutgoingInv
  <2> QED BY <1>5, <2>2
<1>9. CASE ReplaceOrderbookFails(b)
  <2>1. outgoing' = outgoing /\ update_failed' = TRUE
    BY <1>9 DEF ReplaceOrderbookFails, callerVars
  <2>2. ChannelsTyped'
    BY <1>2, <2>1 DEF BroadcastInv, ChannelsTyped
  <2>3. OutgoingInv'
    BY <1>2, <1>8, <2>1 DEF BroadcastInv, FlowInv, OutgoingInv, DistinctOrders
  <2>4. BalanceInv'
    BY <2>1 DEF BalanceInv
  <2> QED BY <1>4, <1>6, <1>7, <2>2, <2>3, <2>4 DEF BroadcastInv, FlowInv
<1>10. CASE ReplaceOrderbook(b)
  <2> DEFINE matched == {c \in Resting(b.market_id) : RemainingQty(c) > 0 /\ Reprice(c, b).qty > 0}
  <2>1. PICK walk \in SetToSeqs(matched) :
          outgoing' = [outgoing EXCEPT !["feed"] =
                         [i \in DOMAIN walk |-> Fill(walk[i], Reprice(walk[i], b).qty)]]
    BY <1>10 DEF ReplaceOrderbook
  <2> DEFINE fills == [i \in DOMAIN walk |-> Fill(walk[i], Reprice(walk[i], b).qty)]
  <2>2. update_failed' = update_failed
    BY <1>10 DEF ReplaceOrderbook
  <2>3. /\ \A c \in matched : c \in done /\ c \in ClientOrderIds /\ Reprice(c, b).qty \in Nat /\ Reprice(c, b).qty > 0
        /\ \A c \in done : c \notin matched => Reprice(c, b).qty = 0
    BY <1>1, <1>3, <1>10
  <2>4. IsFiniteSet(matched)
    <3>1. matched \subseteq Resting(b.market_id)
      OBVIOUS
    <3> QED BY <1>4, <3>1, FS_Subset
  <2> HIDE DEF matched
  <2>5. /\ walk \in Seq(matched) /\ DOMAIN walk = 1 .. Len(walk)
        /\ \A i, j \in DOMAIN walk : walk[i] = walk[j] => i = j
        /\ \A i \in DOMAIN walk : walk[i] \in matched
        /\ \A c \in matched : \E i \in DOMAIN walk : walk[i] = c
    BY <2>4, WalkFacts
  <2>6. /\ DOMAIN fills = DOMAIN walk
        /\ \A i \in DOMAIN walk : /\ fills[i] = Fill(walk[i], Reprice(walk[i], b).qty)
                                  /\ fills[i].order = walk[i]
                                  /\ fills[i].qty = Reprice(walk[i], b).qty
                                  /\ fills[i] \in Fills
    BY <2>3, <2>5 DEF Fill, Fills
  <2>7. fills \in Seq(Fills)
    <3>1. Len(walk) \in Nat /\ DOMAIN fills = 1 .. Len(walk)
      BY <2>5
    <3>2. fills \in [1 .. Len(walk) -> Fills]
      BY <2>5, <2>6
    <3> QED BY <3>1, <3>2
  <2> HIDE DEF fills
  <2>8. /\ outgoing'["feed"] = fills /\ outgoing'["submit"] = outgoing["submit"]
        /\ outgoing' \in [Callers -> Seq(Fills)]
    BY <1>c, <2>1, <2>7 DEF BroadcastInv, ChannelsTyped, fills
  <2>9. ChannelsTyped'
    BY <1>2, <2>2, <2>8 DEF BroadcastInv, ChannelsTyped
  <2>10. DistinctOrders(fills)
    BY <2>5, <2>6 DEF DistinctOrders
  <2>11. OutgoingInv'
    <3>1. ASSUME NEW t \in Callers
          PROVE  /\ targets[t] # None => outgoing'[t] # <<>>
                 /\ DistinctOrders(outgoing'[t])
                 /\ \A i \in DOMAIN outgoing'[t] : executed'[outgoing'[t][i].order] > 0
      <4>1. CASE t = "feed"
        <5>1. ASSUME NEW i \in DOMAIN fills PROVE executed'[fills[i].order] > 0
          <6>1. /\ fills[i].order = walk[i] /\ walk[i] \in done /\ walk[i] \in ClientOrderIds
                /\ Reprice(walk[i], b).qty \in Nat /\ Reprice(walk[i], b).qty > 0
            BY <2>3, <2>5, <2>6
          <6>2. executed'[walk[i]] = executed[walk[i]] + Reprice(walk[i], b).qty /\ executed[walk[i]] \in Nat
            BY <1>3, <1>5, <6>1
          <6> QED BY <6>1, <6>2
        <5> QED BY <1>2, <2>8, <2>10, <4>1, <5>1
      <4>2. CASE t = "submit"
        BY <1>8, <2>8, <4>2 DEF BroadcastInv, FlowInv, OutgoingInv
      <4> QED BY <1>c, <4>1, <4>2
    <3>2. phase # "idle" => outgoing'["submit"] = <<>>
      BY <2>8 DEF BroadcastInv, FlowInv, OutgoingInv
    <3> QED BY <1>2, <3>1, <3>2 DEF OutgoingInv, DistinctOrders
  <2>12. BalanceInv'
    <3> SUFFICES ASSUME ~ update_failed, NEW r \in from_start \ dropped, NEW c \in ClientOrderIds
                 PROVE  Balanced(r, c)'
      BY <1>2, <2>2 DEF BalanceInv
    <3>1. Balanced(r, c) /\ r \in Subscribers
      BY DEF BroadcastInv, ChannelsTyped, FlowInv, BalanceInv
    <3>2. Owed("feed", r, c) = 0
      <4>1. StillToSend(<<>>, None, r, c) = {}
        BY DEF StillToSend
      <4> QED BY <1>2, <4>1, OwedNothing DEF Owed
    <3>3. /\ Owed("submit", r, c)' = Owed("submit", r, c)
          /\ Owed("feed", r, c)' = OwedQty(fills, None, r, c)
          /\ delivered'[r][c] = delivered[r][c] /\ QueuedFill(c)' = QueuedFill(c)
      BY <1>2, <2>8 DEF Owed, QueuedFill
    <3>4. executed'[c] = executed[c] + OwedQty(fills, None, r, c) /\ OwedQty(fills, None, r, c) \in Nat
      <4>1. CASE c \in matched
        <5>1. PICK i \in DOMAIN walk : walk[i] = c
          BY <2>5, <4>1
        <5>2. i \in StillToSend(fills, None, r, c)
          BY <2>6, <5>1 DEF StillToSend
        <5>3. OwedQty(fills, None, r, c) = Reprice(c, b).qty
          BY <2>6, <2>10, <5>1, <5>2, OwedFill
        <5> QED BY <1>3, <2>3, <4>1, <5>3
      <4>2. CASE c \notin matched
        <5>1. \A i \in DOMAIN fills : fills[i].order # c
          BY <2>5, <2>6, <4>2
        <5>2. StillToSend(fills, None, r, c) = {}
          BY <5>1 DEF StillToSend
        <5>3. OwedQty(fills, None, r, c) = 0
          BY <5>2, OwedNothing
        <5> QED BY <1>3, <2>3, <4>2, <5>3
      <4> QED BY <4>1, <4>2
    <3>5. /\ Owed("submit", r, c) \in Nat /\ delivered[r][c] \in Nat /\ QueuedFill(c) \in Nat
          /\ executed[c] \in Nat
      BY <1>c, <3>1, Start
    <3>6. executed[c] = delivered[r][c] + Owed("submit", r, c) + 0 + QueuedFill(c)
      BY <3>1, <3>2 DEF Balanced
    <3>7. executed'[c] = delivered[r][c] + Owed("submit", r, c) + OwedQty(fills, None, r, c) + QueuedFill(c)
      BY <3>4, <3>5, <3>6
    <3> QED BY <3>3, <3>7 DEF Balanced
  <2> QED BY <1>4, <1>6, <1>7, <2>9, <2>11, <2>12 DEF BroadcastInv, FlowInv
<1> QED BY <1>9, <1>10

LEMMA BroadcastInvariant == Spec => []BroadcastInv
<1>1. Init => BroadcastInv
  <2> SUFFICES ASSUME Init PROVE BroadcastInv
    OBVIOUS
  <2>1. IInv
    BY InitEstablishes
  <2>2. ChannelsTyped
    <3>1. <<>> \in Seq(Subscribers) /\ <<>> \in Seq(Fills)
      OBVIOUS
    <3>2. 0 \in 0 .. FILL_CHANNEL_CAPACITY
      BY PaperAdapterAssumption
    <3>3. /\ fill_subscribers \in Seq(Subscribers)
          /\ waiting \in [Subscribers -> 0 .. FILL_CHANNEL_CAPACITY]
          /\ outgoing \in [Callers -> Seq(Fills)]
          /\ targets \in [Callers -> Seq(Subscribers) \cup {None}]
          /\ delivered \in [Subscribers -> [ClientOrderIds -> Nat]]
      BY <3>1, <3>2 DEF Init
    <3> QED BY <3>3 DEF Init, ChannelsTyped
  <2>3. IsFiniteSet(open_orders)
    BY FS_EmptySet DEF Init
  <2>4. OutgoingInv
    BY DEF Init, OutgoingInv, DistinctOrders, Callers
  <2>5. SubscriberInv
    BY DEF Init, SubscriberInv, Distinct, Range
  <2>6. QueueInv
    BY DEF Init, QueueInv, QueuedFill
  <2>7. BalanceInv
    BY DEF Init, BalanceInv
  <2> QED BY <2>1, <2>2, <2>3, <2>4, <2>5, <2>6, <2>7 DEF BroadcastInv, FlowInv
<1>2. BroadcastInv /\ [Next]_vars => BroadcastInv'
  <2> SUFFICES ASSUME BroadcastInv, [Next]_vars PROVE BroadcastInv'
    OBVIOUS
  <2>0. IInv'
    BY SubmitTaskPreserves, OthersPreserve DEF BroadcastInv
  <2>1. CASE SubmitTask
    <3>1. CASE MatchComplete \/ MatchGTC \/ MatchIOC
      BY <2>0, <3>1, CommitQueuesTheFill DEF MatchComplete, MatchGTC, MatchIOC
    <3> QED BY <2>0, <2>1, <3>1, QuietStepsPreserve, TakeHandsOverTheFill DEF SubmitTask
  <2>2. CASE \E t \in Callers : Broadcast(t)
    BY <2>0, <2>2, ClonePreserves, SendPreserves, RetainPreserves DEF Broadcast
  <2>3. CASE \E b \in Snapshots : ReplaceOrderbook(b) \/ ReplaceOrderbookFails(b)
    BY <2>0, <2>3, ReplacePreserves
  <2>4. CASE \E r \in Subscribers : SubscribeFills(r) \/ ReceiveFill(r) \/ DropReceiver(r)
    BY <2>0, <2>4, SubscribePreserves, QuietStepsPreserve, DropPreserves
  <2>5. CASE \E c \in ClientOrderIds : CancelOrder(c)
    BY <2>0, <2>5, QuietStepsPreserve
  <2>6. CASE Connect \/ Disconnect \/ UNCHANGED vars
    BY <2>0, <2>6, QuietStepsPreserve
  <2> QED BY <2>1, <2>2, <2>3, <2>4, <2>5, <2>6 DEF Next
<1> QED BY <1>1, <1>2, PTL DEF Spec

\* Type correctness of the adapter and of the calls in progress, for any number of
\* subscribers and any channel capacity: no channel holds more than
\* FILL_CHANNEL_CAPACITY fills (broadcast_fill).
THEOREM AdapterTypeCorrect == Spec => []TypeOK
<1>1. BroadcastInv => TypeOK
  BY TypedTogether DEF BroadcastInv
<1> QED BY <1>1, BroadcastInvariant, PTL

\* Unless a replace_orderbook failed midway, every execution reaches every
\* subscriber that listens from the start exactly once, or is on its way there:
\* queued behind the ack, or with one of the two callers that broadcast
\* (take_post_ack_actions, replace_orderbook, broadcast_fill, subscribe_fills).
THEOREM EveryFillArrivesOnce == Spec => []FillLostOnlyByFailedUpdate
<1>1. BroadcastInv => FillLostOnlyByFailedUpdate
  <2> SUFFICES ASSUME BroadcastInv, ~ update_failed, NEW r \in from_start \ dropped,
                      NEW c \in ClientOrderIds
               PROVE  (\A t \in Callers : OwedOnce(t, r, c)) /\ Balanced(r, c)
    BY DEF FillLostOnlyByFailedUpdate, EveryFillIsBroadcast, Balanced
  <2>1. \A t \in Callers : DistinctOrders(outgoing[t])
    BY Start
  <2>2. \A t \in Callers : OwedOnce(t, r, c)
    BY <2>1 DEF OwedOnce, StillToSend, DistinctOrders
  <2>3. Balanced(r, c)
    BY DEF BroadcastInv, FlowInv, BalanceInv
  <2> QED BY <2>2, <2>3
<1> QED BY <1>1, BroadcastInvariant, PTL

-----------------------------------------------------------------------------
(* The walk over a validated book *)

\* A set of naturals that is not empty has a least element.
LEMMA LeastElement ==
  ASSUME NEW T, T \subseteq Nat, T # {}
  PROVE  \E x \in T : \A y \in T : x <= y
<1>1. \E x \in T : \A y \in T : ~ (<<y, x>> \in OpToRel(<, Nat))
  BY NatLessThanWellFounded, WFMin
<1>2. \A x \in T, y \in T : ~ (<<y, x>> \in OpToRel(<, Nat)) => x <= y
  BY DEF OpToRel
<1> QED BY <1>1, <1>2

\* On a side that validate accepts, no level behind one the limit excludes is
\* within the limit: the walk may break there.
LEMMA NothingBehindTheBreak ==
  ASSUME NEW s, NEW levels, DOMAIN levels = 1 .. Len(levels), Len(levels) \in Nat,
         \A i \in DOMAIN levels : levels[i].price \in Int,
         s.order_type = "Market" \/ s.price \in Int,
         ValidateSide(levels, s.side # "Buy")
  PROVE  FillableLevels(s, levels) = {i \in DOMAIN levels : IsLevelFillable(s, levels[i])}
<1>1. FillableLevels(s, levels) \subseteq {i \in DOMAIN levels : IsLevelFillable(s, levels[i])}
  BY DEF FillableLevels
<1>2. ASSUME NEW i \in DOMAIN levels, IsLevelFillable(s, levels[i]), NEW j \in 1 .. i,
             ~ IsLevelFillable(s, levels[j])
      PROVE  FALSE
  <2> DEFINE T == {k \in j .. i : IsLevelFillable(s, levels[k])}
  <2>1. T \subseteq Nat /\ i \in T
    BY <1>2
  <2>2. PICK k \in T : \A y \in T : k <= y
    BY <2>1, LeastElement
  <2>3. k \in Nat /\ j < k /\ k <= i /\ IsLevelFillable(s, levels[k])
    <3>1. k # j
      BY <1>2, <2>2
    <3> QED BY <2>2, <3>1
  <2>4. k - 1 \in j .. i /\ k - 1 \notin T
    BY <2>2, <2>3
  <2>5. ~ IsLevelFillable(s, levels[k - 1])
    BY <2>4
  <2>6. k \in 2 .. Len(levels) /\ k \in DOMAIN levels /\ k - 1 \in DOMAIN levels
    BY <2>3
  <2>7. IF s.side # "Buy" THEN levels[k - 1].price >= levels[k].price
                          ELSE levels[k - 1].price <= levels[k].price
    BY <2>6 DEF ValidateSide
  <2>8. levels[k].price \in Int /\ levels[k - 1].price \in Int
    BY <2>6
  <2>9. s.price \in Int /\ s.order_type # "Market"
    BY <2>5 DEF IsLevelFillable
  <2>10. CASE s.side = "Buy"
    <3>1. levels[k].price <= s.price /\ ~ (levels[k - 1].price <= s.price)
      BY <2>3, <2>5, <2>9, <2>10 DEF IsLevelFillable
    <3> QED BY <2>7, <2>8, <2>9, <2>10, <3>1
  <2>11. CASE s.side # "Buy"
    <3>1. levels[k].price >= s.price /\ ~ (levels[k - 1].price >= s.price)
      BY <2>3, <2>5, <2>9, <2>11 DEF IsLevelFillable
    <3> QED BY <2>7, <2>8, <2>9, <2>11, <3>1
  <2> QED BY <2>10, <2>11
<1>3. {i \in DOMAIN levels : IsLevelFillable(s, levels[i])} \subseteq FillableLevels(s, levels)
  BY <1>2 DEF FillableLevels
<1> QED BY <1>1, <1>3

\* The order of a call in progress passed validate_submission.
CallValidated == phase # "idle" => ValidateSubmission(submission[current])

(* A sequence is typed by its elements. *)
LEMMA SequenceElements ==
  ASSUME NEW S, NEW u \in Seq(S)
  PROVE  /\ DOMAIN u = 1 .. Len(u)
         /\ Len(u) \in Nat
         /\ \A i \in DOMAIN u : u[i] \in S
OBVIOUS

\* LiveOrderbookFillSimulator stops at the first level beyond the limit, and has
\* then taken all the depth within it: OrderbookSnapshot::validate, which it calls
\* first, lets in sorted sides only (simulate_fill, is_level_fillable).
THEOREM WalkTakesAllDepth ==
  ASSUME UsesLiveOrderbook
  PROVE  Spec => []WalkFillsAllItCan
<1>1. Init => CallValidated
  BY DEF Init, CallValidated
<1>2. IInv /\ CallValidated /\ [Next]_vars => CallValidated'
  <2> SUFFICES ASSUME CallValidated, [Next]_vars PROVE CallValidated'
    OBVIOUS
  <2>1. CASE \E c \in ClientOrderIds : SubmitCached(c) \/ SubmitNew(c)
    BY <2>1 DEF SubmitCached, SubmitNew, Call, CallValidated
  <2>2. CASE ReadBook \/ MatchRefused \/ MatchRestingFOK \/ TakePostAckActions \/ AbandonAck
    BY <2>2 DEF ReadBook, MatchRefused, MatchRestingFOK, TakePostAckActions, AbandonAck, Return,
                CallValidated
  <2>3. CASE MatchComplete \/ MatchGTC \/ MatchIOC
    BY <2>3 DEF MatchComplete, MatchGTC, MatchIOC, Commit, CallValidated
  <2>4. CASE UNCHANGED <<phase, current, submission>>
    BY <2>4 DEF CallValidated
  <2>5. \/ SubmitTask \/ UNCHANGED <<phase, current, submission>>
    BY DEF Next, Broadcast, CloneSubscribers, SendFill, RetainOpen, ReplaceOrderbook,
           ReplaceOrderbookFails, CancelOrder, SubscribeFills, ReceiveFill, DropReceiver, Connect,
           Disconnect, SetConnected, vars, callerVars
  <2> QED BY <2>1, <2>2, <2>3, <2>4, <2>5 DEF SubmitTask
<1>3. IInv /\ CallValidated => WalkFillsAllItCan
  <2> SUFFICES ASSUME IInv, CallValidated, phase = "match", Simulated.ok
               PROVE  Simulated.qty =
                        AllDepthWithinLimit(submission[current], submission[current].qty, book)
    BY DEF WalkFillsAllItCan
  <2> DEFINE s == submission[current]
             levels == Opposite(s, book)
  <2>1. /\ current \in ClientOrderIds /\ book \in Snapshots /\ s \in Submissions /\ s.qty \in Nat
        /\ ValidateSubmission(s)
    BY SubmissionQty DEF IInv, CallOK, CallValidated
  <2>2. Simulated = Simulate(s, s.qty, book)
    BY <2>1 DEF Simulated, UsesLiveOrderbook
  <2>3. Validate(book)
    BY <2>2 DEF Simulate
  <2>4. s.order_type = "Market" \/ s.price \in Int
    BY <2>1 DEF ValidateSubmission, UsesLiveOrderbook
  <2>5. /\ DOMAIN levels = 1 .. Len(levels) /\ Len(levels) \in Nat
        /\ \A i \in DOMAIN levels : levels[i].price \in Int
    <3>1. levels \in Seq([price: Int, qty: Int])
      BY <2>1 DEF Opposite, UsesLiveOrderbook
    <3> HIDE DEF levels
    <3>2. /\ DOMAIN levels = 1 .. Len(levels) /\ Len(levels) \in Nat
          /\ \A i \in DOMAIN levels : levels[i] \in [price: Int, qty: Int]
      BY <3>1, SequenceElements
    <3> QED BY <3>2
  <2>6. ValidateSide(levels, s.side # "Buy")
    BY <2>3 DEF Validate, Opposite
  <2> HIDE DEF s, levels
  <2>7. FillableLevels(s, levels) = {i \in DOMAIN levels : IsLevelFillable(s, levels[i])}
    BY <2>4, <2>5, <2>6, NothingBehindTheBreak
  <2>8. Simulated.qty = LET depth == Depth(levels, FillableLevels(s, levels))
                        IN  IF depth < s.qty THEN depth ELSE s.qty
    BY <2>2 DEF Simulate, levels
  <2>9. AllDepthWithinLimit(s, s.qty, book) =
          LET depth == Depth(levels, {i \in DOMAIN levels : IsLevelFillable(s, levels[i])})
          IN  IF depth < s.qty THEN depth ELSE s.qty
    BY DEF AllDepthWithinLimit, levels
  <2>10. Simulated.qty = AllDepthWithinLimit(s, s.qty, book)
    BY <2>7, <2>8, <2>9
  <2> QED BY <2>10 DEF s
<1> QED BY <1>1, <1>2, <1>3, InductiveInvariant, PTL DEF Spec
=============================================================================
