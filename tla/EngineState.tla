---------------------------- MODULE EngineState ----------------------------
(***************************************************************************)
(* The state the sequencer owns (EngineState, OrderRecord, OrderAck of     *)
(* crates/engine-core/src/lib.rs), the commands it accepts, the events it  *)
(* journals, and the state changes of the EngineCore it drives.            *)
(*                                                                         *)
(* The repository has no production EngineCore: the trait's methods are    *)
(* modelled from the one implementation in the tree, TestCore of           *)
(* sequencer_tests.rs, and where a method may fail or choose (the risk     *)
(* gate, limit changes) every outcome its signature allows is explored.    *)
(* Positions, limits, allocations, the firm book and pending signals are   *)
(* one opaque value, the book.                                             *)
(***************************************************************************)
EXTENDS Naturals, Sequences

CONSTANTS
  OrderIds,          \* order ids clients may submit
  Agents,            \* agents placing orders
  AgentOf,           \* the agent of each order
  Qty,               \* the quantity of each order
  VenueOrderIds,     \* ids a venue may assign
  FillQtys,          \* quantities a fill may carry
  Books,             \* values of the rest of the state
  InitialBook,       \* its value in an empty engine
  None               \* the absent value of an Option

ASSUME EngineStateAssumption ==
  /\ AgentOf \in [OrderIds -> Agents]
  /\ Qty \in [OrderIds -> Nat \ {0}]
  /\ FillQtys \subseteq Nat
  /\ InitialBook \in Books
  /\ None \notin {"risk", "route", "venue_submit"}

OrderState == {"Pending", "Submitted", "PartiallyFilled", "Filled", "Cancelled", "Rejected"}

AgentStatus == {"Active", "Paused", "Halted"}

\* {agent}-{epoch_ms}-{seq}-r{restart_epoch}.  The clock's millisecond is left
\* out: two ids that differ only there count as equal.
ClientOrderId == [agent: Agents, seq: Nat, epoch: Nat]

OrderAck == [order_id: OrderIds, client_order_id: ClientOrderId]

\* The fills of a record are summed: only their total is ever read.
OrderRecord ==
  [state: OrderState, client_order_id: ClientOrderId,
   venue_order_id: VenueOrderIds \cup {None}, filled: Nat]

State ==
  [orders: [OrderIds -> OrderRecord \cup {None}],
   idempotency_cache: SUBSET OrderAck,
   agent_statuses: [Agents -> AgentStatus],
   book: Books,
   last_sequence_id: Nat]

EmptyState ==
  [orders |-> [o \in OrderIds |-> None],
   idempotency_cache |-> {},
   agent_statuses |-> [a \in Agents |-> "Active"],
   book |-> InitialBook,
   last_sequence_id |-> 0]

-----------------------------------------------------------------------------
(* Commands and their channel *)

HighPriorityCommand ==
  [type: {"OnVenueAck"}, order: OrderIds, venue_order_id: VenueOrderIds]
    \cup [type: {"OnVenueSubmitFailed", "OnVenueCancelled"}, order: OrderIds]
    \cup [type: {"OnFill"}, order: OrderIds, qty: FillQtys]
    \cup [type: {"OnReconciliation", "HaltAll", "ResetCircuitBreaker", "Shutdown"}]

NormalCommand ==
  [type: {"SubmitOrder"}, order: OrderIds]
    \cup [type: {"PauseAgent", "ResumeAgent"}, agent: Agents]
    \cup [type: {"SubmitSignal", "MarkToMarket", "AdjustLimits", "Snapshot"}]

Command == HighPriorityCommand \cup NormalCommand

-----------------------------------------------------------------------------
(* Events *)

EventKind ==
  {"OrderReceived", "OrderValidated", "OrderRiskChecked", "OrderRouted",
   "OrderSubmitted", "OrderPartiallyFilled", "OrderFilled", "OrderCancelled",
   "OrderRejected", "PositionCorrected", "ReconciliationCompleted",
   "AgentPaused", "AgentResumed", "EngineHalted", "CircuitBreakerReset"}

Event ==
  [kind: EventKind, of: OrderIds \cup Agents \cup {None},
   stage: {"risk", "route", "venue_submit", None}]

Happened(kind, of) == [kind |-> kind, of |-> of, stage |-> None]

OrderRejected(o, stage) == [kind |-> "OrderRejected", of |-> o, stage |-> stage]

-----------------------------------------------------------------------------
(* State changes *)

\* Mutant: a rejected order may be submitted again.
ExistingAcksUnlessRejected(st, o) ==
  IF st.orders[o] = None \/ st.orders[o].state = "Rejected" THEN {}
  ELSE {a \in st.idempotency_cache : a.client_order_id = st.orders[o].client_order_id}

\* find_existing_ack: the order is known and its client order id is cached.
ExistingAcks(st, o) ==
  IF st.orders[o] = None THEN {}
  ELSE {a \in st.idempotency_cache : a.client_order_id = st.orders[o].client_order_id}

\* HashMap::insert on a cache keyed by client order id.
CacheInsert(cache, ack) ==
  {a \in cache : a.client_order_id # ack.client_order_id} \cup {ack}

\* Mutant: the ack is not cached.
WithUncachedOrder(st, o, cid) ==
  [st EXCEPT !.orders[o] = [state |-> "Pending", client_order_id |-> cid,
                            venue_order_id |-> None, filled |-> 0]]

\* The order record and the cached ack of an accepted order.
WithOrder(st, o, cid) ==
  [st EXCEPT
     !.orders[o] = [state |-> "Pending", client_order_id |-> cid,
                    venue_order_id |-> None, filled |-> 0],
     !.idempotency_cache =
        CacheInsert(@, [order_id |-> o, client_order_id |-> cid])]

InState(st, o, allowed) ==
  /\ st.orders[o] # None
  /\ st.orders[o].state \in allowed

\* EngineCore::on_fill accepts the fill: the order exists, the quantity is
\* positive and the order is not overfilled.
FillAccepted(st, o, qty) ==
  /\ st.orders[o] # None
  /\ qty > 0
  /\ st.orders[o].filled + qty <= Qty[o]

\* EngineCore::on_fill.  It looks at quantities only, never at the order's state.
WithFill(st, o, qty) ==
  LET total == st.orders[o].filled + qty
  IN  [st EXCEPT !.orders[o] =
         [@ EXCEPT !.filled = total,
                   !.state = IF total = Qty[o] THEN "Filled" ELSE "PartiallyFilled"]]

\* EngineCore::halt_all: every agent the engine knows.
AllHalted(statuses) == [a \in DOMAIN statuses |-> "Halted"]
=============================================================================
