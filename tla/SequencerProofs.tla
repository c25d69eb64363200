-------------------------- MODULE SequencerProofs --------------------------
(***************************************************************************)
(* Proofs about the sequencer and its journal, for every set of orders,    *)
(* agents and commands, every channel capacity and any number of restarts. *)
(*                                                                         *)
(* None of the properties is inductive by itself: that memory matches the  *)
(* disk depends on sequence ids only going up, which over a restart        *)
(* depends on Sequencer::new refusing a journal with an unapplied tail.    *)
(* IInv is the strengthening.                                              *)
(***************************************************************************)
EXTENDS Sequencer, TLAPS, SequenceTheorems

\* Pruning leaves one snapshot at most.
OneSnapshot == \A s, t \in snapshots : s = t

\* Readers see what a restart would find.
CacheIsDurable == mode # "stopped" => snapshot_cache = Recovered

\* Between commands the core holds what readers see.
CoreIsCached == mode # "stopped" /\ commit = None => core = snapshot_cache.state

\* Ids not handed out yet are beyond everything durable.
SequenceIsAhead == mode # "stopped" => snapshot_cache.sequence_id < sequence_gen

\* A commit in progress is about the core as it is now, beyond everything
\* durable, and with the trait's default commit its events may be in already.
CommitIsNext ==
  commit # None =>
    /\ mode # "stopped"
    /\ snapshot_cache.sequence_id < commit.snapshot.sequence_id
    /\ commit.snapshot.sequence_id < sequence_gen
    /\ commit.snapshot.state
         = [core EXCEPT !.last_sequence_id = commit.snapshot.sequence_id]
    /\ commit.appended => ~ AtomicCommit /\ CommitRows \subseteq events

\* The journal holds nothing beyond the snapshot but the events of the commit in
\* progress, if they were appended.
JournalIsCovered ==
  mode # "stopped" =>
    \A r \in events :
      \/ r.sequence_id <= snapshot_cache.sequence_id
      \/ /\ commit # None /\ commit.appended
         /\ r.sequence_id = commit.snapshot.sequence_id

IInv ==
  /\ TypeOK
  /\ OneSnapshot
  /\ CacheIsDurable
  /\ CoreIsCached
  /\ SequenceIsAhead
  /\ CommitIsNext
  /\ JournalIsCovered

-----------------------------------------------------------------------------
(* The durable state *)

\* The state of a new engine is a state.
LEMMA EmptyStateType == EmptyState \in State
BY EngineStateAssumption DEF EmptyState, State, AgentStatus

\* What a restart finds: the one snapshot, or the empty state if there is none.
LEMMA RecoveredFacts ==
  ASSUME snapshots \subseteq SnapshotRow, OneSnapshot
  PROVE  /\ snapshots = {} => Recovered = [sequence_id |-> 0, state |-> EmptyState]
         /\ \A s \in snapshots : Recovered = s /\ LatestSnapshot = s
         /\ snapshots = {} => LatestSnapshot = None
         /\ Recovered \in SnapshotRow
<1>1. snapshots = {} => /\ LatestSnapshot = None
                        /\ Recovered = [sequence_id |-> 0, state |-> EmptyState]
  BY DEF LatestSnapshot, Recovered, EmptyState
<1>2. ASSUME NEW s \in snapshots
      PROVE  Recovered = s /\ LatestSnapshot = s
  <2>1. \A t \in snapshots : t = s
    BY DEF OneSnapshot
  <2>2. s.sequence_id \in Nat
    BY DEF SnapshotRow
  <2>3. \A t \in snapshots : t.sequence_id <= s.sequence_id
    BY <2>1, <2>2
  <2>4. (CHOOSE x \in snapshots : \A t \in snapshots : t.sequence_id <= x.sequence_id)
          \in snapshots
    BY <2>3
  <2>5. LatestSnapshot = s
    BY <2>1, <2>4 DEF LatestSnapshot
  <2>6. s # None
    BY SequencerAssumption
  <2> QED BY <2>5, <2>6 DEF Recovered
<1>3. [sequence_id |-> 0, state |-> EmptyState] \in SnapshotRow
  BY EmptyStateType DEF SnapshotRow
<1> QED BY <1>1, <1>2, <1>3

\* Steps that leave the snapshots alone leave what a restart finds alone.
LEMMA RecoveredUnchanged ==
  ASSUME snapshots' = snapshots
  PROVE  Recovered' = Recovered /\ LatestSnapshot' = LatestSnapshot
BY DEF Recovered, LatestSnapshot

\* A snapshot beyond the durable one replaces it.
LEMMA SnapshotReplaced ==
  ASSUME snapshots \subseteq SnapshotRow, OneSnapshot, NEW row \in SnapshotRow,
         Recovered.sequence_id < row.sequence_id,
         snapshots' = ReplaceAndPrune(snapshots, row)
  PROVE  snapshots' = {row} /\ OneSnapshot' /\ Recovered' = row
<1>1. \A t \in snapshots : ~ (t.sequence_id > row.sequence_id)
  <2> SUFFICES ASSUME NEW t \in snapshots
               PROVE  ~ (t.sequence_id > row.sequence_id)
    OBVIOUS
  <2>1. Recovered = t
    BY RecoveredFacts
  <2>2. t.sequence_id \in Nat /\ row.sequence_id \in Nat
    BY DEF SnapshotRow
  <2> QED BY <2>1, <2>2
<1>2. snapshots' = {row}
  BY <1>1 DEF ReplaceAndPrune
<1>3. row.sequence_id \in Nat /\ row # None
  BY SequencerAssumption DEF SnapshotRow
<1>4. LatestSnapshot' = row
  BY <1>2, <1>3 DEF LatestSnapshot
<1>5. Recovered' = row
  BY <1>3, <1>4 DEF Recovered
<1> QED BY <1>2, <1>5 DEF OneSnapshot

-----------------------------------------------------------------------------
(* State changes of the core keep its type *)

\* Replacing the record of one order gives a state.
LEMMA OrderUpdateType ==
  ASSUME NEW st \in State, NEW o \in OrderIds, NEW r \in OrderRecord
  PROVE  [st EXCEPT !.orders[o] = r] \in State
BY DEF State

\* Recording an accepted order and caching its ack gives a state.
LEMMA WithOrderType ==
  ASSUME NEW st \in State, NEW o \in OrderIds, NEW cid \in ClientOrderId
  PROVE  WithOrder(st, o, cid) \in State
<1> DEFINE r == [state |-> "Pending", client_order_id |-> cid, venue_order_id |-> None,
                 filled |-> 0]
           cache == CacheInsert(st.idempotency_cache, [order_id |-> o, client_order_id |-> cid])
<1>1. r \in OrderRecord
  BY DEF OrderRecord, OrderState
<1>2. cache \in SUBSET OrderAck
  BY DEF CacheInsert, OrderAck, State
<1> HIDE DEF r, cache
<1>3. [st EXCEPT !.orders[o] = r, !.idempotency_cache = cache] \in State
  BY <1>1, <1>2 DEF State
<1>4. WithOrder(st, o, cid) = [st EXCEPT !.orders[o] = r, !.idempotency_cache = cache]
  BY DEF WithOrder, r, cache
<1> QED BY <1>3, <1>4

\* An accepted fill gives a state, with the order filled wholly or in part.
LEMMA WithFillType ==
  ASSUME NEW st \in State, NEW o \in OrderIds, NEW qty \in FillQtys, FillAccepted(st, o, qty)
  PROVE  /\ WithFill(st, o, qty) \in State
         /\ WithFill(st, o, qty).orders[o].state \in {"Filled", "PartiallyFilled"}
<1> DEFINE total == st.orders[o].filled + qty
           state == IF total = Qty[o] THEN "Filled" ELSE "PartiallyFilled"
           r     == [st.orders[o] EXCEPT !.filled = total, !.state = state]
<1>1. st.orders[o] \in OrderRecord /\ qty \in Nat
  BY EngineStateAssumption DEF FillAccepted, State
<1>2. state \in OrderState /\ state \in {"Filled", "PartiallyFilled"}
  BY DEF OrderState
<1>3. total \in Nat
  BY <1>1 DEF OrderRecord
<1> HIDE DEF total, state
<1>4. r \in OrderRecord
  BY <1>1, <1>2, <1>3 DEF OrderRecord
<1>5. r.state = state
  BY <1>1 DEF OrderRecord
<1>6. WithFill(st, o, qty) = [st EXCEPT !.orders[o] = r]
  BY DEF WithFill, total, state
<1> HIDE DEF r
<1>7. [st EXCEPT !.orders[o] = r].orders[o] = r
  BY DEF State
<1> QED BY <1>2, <1>4, <1>5, <1>6, <1>7, OrderUpdateType

-----------------------------------------------------------------------------
(* Handlers *)

\* The two ways to build an event build events.
LEMMA EventType ==
  /\ \A kind \in EventKind, of \in OrderIds \cup Agents \cup {None} : Happened(kind, of) \in Event
  /\ \A o \in OrderIds, stage \in {"risk", "route", "venue_submit"} :
       OrderRejected(o, stage) \in Event
BY DEF Event, EventKind, Happened, OrderRejected

\* The batches of events a handler emits are sequences of events.
LEMMA EventSeqType ==
  /\ <<>> \in Seq(Event)
  /\ \A e \in Event : <<e>> \in Seq(Event)
  /\ \A e, f \in Event : <<e, f>> \in Seq(Event)
  /\ \A e, f, g, h \in Event : <<e, f, g, h>> \in Seq(Event)
OBVIOUS

\* What every handler amounts to, whatever its command: the command is taken and
\* given an id, and either nothing is committed or the new core is.
HandlerStep ==
  /\ Idle
  /\ mode' \in {"running", "draining"}
  /\ high_priority' \in Seq(HighPriorityCommand)
  /\ commands' \in Seq(NormalCommand)
  /\ polled' = FALSE
  /\ sequence_gen' = sequence_gen + 1
  /\ UNCHANGED <<stop_cause, snapshot_cache, restart_epoch, journalVars, sent, incarnation>>
  /\ \/ NoCommit
     \/ \E st \in State, evs \in Seq(Event) : Commit(st, evs)
  /\ generators' \in [Agents -> Nat]
  /\ venue_submit' \in Seq(OrderAck)
  /\ venue_submit_tx' = venue_submit_tx
  /\ dispatched' \subseteq OrderAck
  /\ acked' \subseteq OrderAck

\* The part of it that Take is about.
LEMMA TakeFacts ==
  ASSUME TypeOK, NEW cmd, Take(cmd)
  PROVE  /\ Idle
         /\ mode \in {"running", "draining"}
         /\ high_priority' \in Seq(HighPriorityCommand)
         /\ commands' \in Seq(NormalCommand)
         /\ polled' = FALSE
         /\ sequence_gen' = sequence_gen + 1
         /\ UNCHANGED <<stop_cause, snapshot_cache, restart_epoch, journalVars, sent, incarnation>>
<1>1. Idle /\ mode \in {"running", "draining"}
  BY DEF Take, NextCommand, Idle
<1>2. high_priority' \in Seq(HighPriorityCommand)
  <2>1. CASE polled
    BY <2>1 DEF Take, TypeOK
  <2>2. CASE ~ polled
    <3>1. high_priority # <<>> /\ high_priority' = Tail(high_priority)
      BY <2>2 DEF Take, NextCommand
    <3> QED BY <3>1, HeadTailProperties DEF TypeOK
  <2> QED BY <2>1, <2>2
<1>3. commands' \in Seq(NormalCommand)
  <2>1. CASE ~ polled
    BY <2>1 DEF Take, TypeOK
  <2>2. CASE polled
    <3>1. commands # <<>> /\ commands' = Tail(commands)
      BY <2>2 DEF Take, NextCommand
    <3> QED BY <3>1, HeadTailProperties DEF TypeOK
  <2> QED BY <2>1, <2>2
<1> QED BY <1>1, <1>2, <1>3 DEF Take

\* A handler that leaves generators, routing and acks alone.
LEMMA UntouchedHandler ==
  ASSUME TypeOK, NEW cmd, Take(cmd), Untouched, mode' \in {mode, "draining"},
         NoCommit \/ \E st \in State, evs \in Seq(Event) : Commit(st, evs)
  PROVE  HandlerStep
<1>1. /\ generators' \in [Agents -> Nat] /\ venue_submit' \in Seq(OrderAck)
      /\ venue_submit_tx' = venue_submit_tx
      /\ dispatched' \subseteq OrderAck /\ acked' \subseteq OrderAck
  BY DEF Untouched, TypeOK
<1>2. mode' \in {"running", "draining"}
  BY TakeFacts
<1> QED BY <1>1, <1>2, TakeFacts DEF HandlerStep

\* handle_submit_order, by each of its four ways out, is a handler step.
LEMMA SubmitOrderStep ==
  ASSUME TypeOK, NEW o \in OrderIds, HandleSubmitOrder(o)
  PROVE  HandlerStep
<1>1. /\ Take([type |-> "SubmitOrder", order |-> o])
      /\ mode' = mode /\ venue_submit_tx' = venue_submit_tx
  BY DEF HandleSubmitOrder
<1>2. mode' \in {"running", "draining"}
  BY <1>1, TakeFacts
<1> DEFINE cid    == NextClientOrderId(AgentOf[o])
           routed == [order_id |-> o, client_order_id |-> cid]
<1>3. cid \in ClientOrderId
  BY EngineStateAssumption DEF NextClientOrderId, ClientOrderId, TypeOK
<1>4. routed \in OrderAck
  BY <1>3 DEF OrderAck
<1>5. [generators EXCEPT ![AgentOf[o]] = @ + 1] \in [Agents -> Nat]
  <2>1. AgentOf[o] \in Agents
    BY EngineStateAssumption
  <2>2. generators \in [Agents -> Nat]
    BY DEF TypeOK
  <2> QED BY <2>1, <2>2
<1>6. SUFFICES /\ NoCommit \/ \E st \in State, evs \in Seq(Event) : Commit(st, evs)
               /\ generators' \in [Agents -> Nat]
               /\ venue_submit' \in Seq(OrderAck)
               /\ dispatched' \subseteq OrderAck
               /\ acked' \subseteq OrderAck
  BY <1>1, <1>2, TakeFacts DEF HandlerStep
<1>7. CASE ReturnCachedAck(o)
  <2>1. PICK ack \in ExistingAcks(core, o) : acked' = acked \cup {ack}
    BY <1>7 DEF ReturnCachedAck
  <2>2. ack \in OrderAck
    BY DEF ExistingAcks, TypeOK, State
  <2> QED BY <1>7, <2>1, <2>2 DEF ReturnCachedAck, TypeOK
<1>8. CASE RejectByRisk(o)
  <2>1. <<OrderRejected(o, "risk")>> \in Seq(Event)
    BY EventType, EventSeqType
  <2> QED BY <1>8, <2>1 DEF RejectByRisk, TypeOK
<1>9. CASE RejectByRoute(o)
  <2>1. <<OrderRejected(o, "route")>> \in Seq(Event)
    BY EventType, EventSeqType
  <2>2. generators' = [generators EXCEPT ![AgentOf[o]] = @ + 1]
    BY <1>9 DEF RejectByRoute
  <2> QED BY <1>5, <1>9, <2>1, <2>2 DEF RejectByRoute, TypeOK
<1>10. CASE AcceptAndRoute(o)
  <2> DEFINE evs == <<Happened("OrderReceived", o), Happened("OrderValidated", o),
                      Happened("OrderRiskChecked", o), Happened("OrderRouted", o)>>
  <2>1. evs \in Seq(Event)
    <3>1. \A kind \in {"OrderReceived", "OrderValidated", "OrderRiskChecked", "OrderRouted"} :
            Happened(kind, o) \in Event
      BY EventType DEF EventKind
    <3> QED BY <3>1, EventSeqType
  <2>2. WithOrder(core, o, cid) \in State
    BY <1>3, WithOrderType DEF TypeOK
  <2>3. Commit(WithOrder(core, o, cid), evs)
    BY <1>10 DEF AcceptAndRoute
  <2>4. generators' = [generators EXCEPT ![AgentOf[o]] = @ + 1] /\ acked' = acked \cup {routed}
    BY <1>10 DEF AcceptAndRoute
  <2>5. \/ venue_submit' = venue_submit /\ dispatched' = dispatched
        \/ venue_submit' = Append(venue_submit, routed) /\ dispatched' = dispatched \cup {routed}
    BY <1>10 DEF AcceptAndRoute
  <2> HIDE DEF cid, routed, evs
  <2>6. venue_submit' \in Seq(OrderAck) /\ dispatched' \subseteq OrderAck
    <3>1. Append(venue_submit, routed) \in Seq(OrderAck)
      BY <1>4, AppendProperties DEF TypeOK
    <3>2. venue_submit' \in Seq(OrderAck)
      BY <2>5, <3>1 DEF TypeOK
    <3>3. dispatched' \subseteq OrderAck
      BY <1>4, <2>5 DEF TypeOK
    <3> QED BY <3>2, <3>3
  <2> QED BY <1>4, <1>5, <2>1, <2>2, <2>3, <2>4, <2>6 DEF TypeOK
<1> QED BY <1>7, <1>8, <1>9, <1>10 DEF HandleSubmitOrder

\* The handlers of venue events are handler steps.
LEMMA VenueEventStep ==
  ASSUME TypeOK, HandleVenueEvent
  PROVE  HandlerStep
<1> SUFFICES ASSUME NEW o \in OrderIds,
                    \/ \E v \in VenueOrderIds : HandleVenueAck(o, v)
                    \/ HandleVenueSubmitFailed(o)
                    \/ HandleVenueCancelled(o)
                    \/ \E qty \in FillQtys : HandleFill(o, qty)
             PROVE  HandlerStep
  BY DEF HandleVenueEvent
<1>t. core \in State
  BY DEF TypeOK
<1>r. ASSUME NEW allowed, InState(core, o, allowed) PROVE core.orders[o] \in OrderRecord
  BY <1>t, <1>r DEF InState, State
<1>e. \A kind \in EventKind : <<Happened(kind, o)>> \in Seq(Event)
  BY EventType, EventSeqType
<1>1. CASE \E v \in VenueOrderIds : HandleVenueAck(o, v)
  <2>1. PICK v \in VenueOrderIds : HandleVenueAck(o, v)
    BY <1>1
  <2> DEFINE r == [core.orders[o] EXCEPT !.state = "Submitted", !.venue_order_id = v]
  <2>2. core.orders[o] \in OrderRecord
    BY <1>r, <2>1 DEF HandleVenueAck
  <2>3. r \in OrderRecord
    BY <2>2 DEF OrderRecord, OrderState
  <2>4. Commit([core EXCEPT !.orders[o] = r], <<Happened("OrderSubmitted", o)>>)
    BY <2>1 DEF HandleVenueAck
  <2> HIDE DEF r
  <2>5. [core EXCEPT !.orders[o] = r] \in State
    BY <1>t, <2>3, OrderUpdateType
  <2>6. <<Happened("OrderSubmitted", o)>> \in Seq(Event)
    BY <1>e DEF EventKind
  <2> QED BY <2>1, <2>4, <2>5, <2>6, UntouchedHandler DEF HandleVenueAck
<1>2. CASE HandleVenueSubmitFailed(o)
  <2> DEFINE st == [core EXCEPT !.orders[o].state = "Rejected"]
  <2>1. core.orders[o] \in OrderRecord
    BY <1>r, <1>2 DEF HandleVenueSubmitFailed
  <2>2. [core.orders[o] EXCEPT !.state = "Rejected"] \in OrderRecord
    BY <2>1 DEF OrderRecord, OrderState
  <2>3. st \in State
    BY <1>t, <2>2, OrderUpdateType
  <2>4. <<OrderRejected(o, "venue_submit")>> \in Seq(Event)
    BY EventType, EventSeqType
  <2> QED BY <1>2, <2>3, <2>4, UntouchedHandler DEF HandleVenueSubmitFailed
<1>3. CASE HandleVenueCancelled(o)
  <2> DEFINE st == [core EXCEPT !.orders[o].state = "Cancelled"]
  <2>1. core.orders[o] \in OrderRecord
    BY <1>r, <1>3 DEF HandleVenueCancelled
  <2>2. [core.orders[o] EXCEPT !.state = "Cancelled"] \in OrderRecord
    BY <2>1 DEF OrderRecord, OrderState
  <2>3. st \in State
    BY <1>t, <2>2, OrderUpdateType
  <2>4. <<Happened("OrderCancelled", o)>> \in Seq(Event)
    BY <1>e DEF EventKind
  <2> QED BY <1>3, <2>3, <2>4, UntouchedHandler DEF HandleVenueCancelled
<1>4. CASE \E qty \in FillQtys : HandleFill(o, qty)
  <2>1. PICK qty \in FillQtys : HandleFill(o, qty)
    BY <1>4
  <2>2. FillAccepted(core, o, qty)
    BY <2>1 DEF HandleFill
  <2> DEFINE st   == WithFill(core, o, qty)
             kind == IF st.orders[o].state = "Filled" THEN "OrderFilled"
                     ELSE "OrderPartiallyFilled"
  <2>3. st \in State
    BY <1>t, <2>2, WithFillType
  <2>4. kind \in EventKind
    BY DEF EventKind
  <2>5. <<Happened(kind, o)>> \in Seq(Event)
    BY <1>e, <2>4
  <2>6. Commit(st, <<Happened(kind, o)>>)
    BY <2>1 DEF HandleFill
  <2> HIDE DEF st, kind
  <2> QED BY <2>1, <2>3, <2>5, <2>6, UntouchedHandler DEF HandleFill
<1> QED BY <1>1, <1>2, <1>3, <1>4

\* The handlers of operator commands are handler steps.
LEMMA OperatorCommandStep ==
  ASSUME TypeOK, HandleOperatorCommand
  PROVE  HandlerStep
<1>t. core \in State
  BY DEF TypeOK
<1>e. \A kind \in EventKind, of \in Agents \cup {None} : <<Happened(kind, of)>> \in Seq(Event)
  BY EventType, EventSeqType
<1>b. \A b \in Books : [core EXCEPT !.book = b] \in State
  BY <1>t DEF State
<1>a. \A a \in Agents, status \in AgentStatus :
        [core EXCEPT !.agent_statuses[a] = status] \in State
  BY <1>t DEF State
<1>1. CASE HandleReconciliation
  <2>1. <<Happened("ReconciliationCompleted", None)>> \in Seq(Event)
    BY <1>e DEF EventKind
  <2>2. <<Happened("PositionCorrected", None), Happened("ReconciliationCompleted", None)>>
          \in Seq(Event)
    BY EventType, EventSeqType DEF EventKind
  <2> QED BY <1>1, <1>t, <1>b, <2>1, <2>2, UntouchedHandler DEF HandleReconciliation
<1>2. CASE HandleUnjournaled
  <2>1. PICK cmd : Take(cmd)
    BY <1>2 DEF HandleUnjournaled
  <2> QED BY <1>2, <1>b, <2>1, EventSeqType, UntouchedHandler DEF HandleUnjournaled
<1>3. CASE \E a \in Agents : HandlePauseAgent(a) \/ HandleResumeAgent(a)
  <2>1. PICK a \in Agents : HandlePauseAgent(a) \/ HandleResumeAgent(a)
    BY <1>3
  <2>2. /\ [core EXCEPT !.agent_statuses[a] = "Paused"] \in State
        /\ [core EXCEPT !.agent_statuses[a] = "Active"] \in State
    BY <1>a DEF AgentStatus
  <2>3. <<Happened("AgentPaused", a)>> \in Seq(Event) /\ <<Happened("AgentResumed", a)>> \in Seq(Event)
    BY <1>e DEF EventKind
  <2> QED BY <2>1, <2>2, <2>3, UntouchedHandler DEF HandlePauseAgent, HandleResumeAgent
<1>4. CASE HandleHaltAll
  <2>1. AllHalted(core.agent_statuses) \in [Agents -> AgentStatus]
    BY <1>t DEF State, AllHalted, AgentStatus
  <2>2. [core EXCEPT !.agent_statuses = AllHalted(core.agent_statuses)] \in State
    BY <1>t, <2>1 DEF State
  <2>3. <<Happened("EngineHalted", None)>> \in Seq(Event)
    BY <1>e DEF EventKind
  <2> QED BY <1>4, <2>2, <2>3, UntouchedHandler DEF HandleHaltAll
<1>5. CASE HandleResetCircuitBreaker
  <2>1. <<Happened("CircuitBreakerReset", None)>> \in Seq(Event)
    BY <1>e DEF EventKind
  <2> QED BY <1>5, <1>t, <2>1, UntouchedHandler DEF HandleResetCircuitBreaker
<1>6. CASE HandleWithoutCommit
  BY <1>6, UntouchedHandler DEF HandleWithoutCommit
<1>7. CASE HandleShutdown
  BY <1>7, UntouchedHandler DEF HandleShutdown
<1> QED BY <1>1, <1>2, <1>3, <1>4, <1>5, <1>6, <1>7 DEF HandleOperatorCommand

\* So every handler is one.
LEMMA HandleStep == TypeOK /\ Handle => HandlerStep
BY SubmitOrderStep, VenueEventStep, OperatorCommandStep DEF Handle

-----------------------------------------------------------------------------
(* Every step keeps the invariant *)

\* A commit handed to the journal is well formed and is not None.
LEMMA PendingCommitType ==
  ASSUME NEW st \in State, NEW evs \in Seq(Event), NEW n \in Nat
  PROVE  LET c == [events |-> evs, appended |-> FALSE,
                   snapshot |-> [sequence_id |-> n,
                                 state |-> [st EXCEPT !.last_sequence_id = n]]]
         IN  c \in PendingCommit /\ c # None
<1> DEFINE s == [st EXCEPT !.last_sequence_id = n]
           row == [sequence_id |-> n, state |-> s]
<1>1. s \in State
  BY DEF State
<1> HIDE DEF s
<1>2. row \in SnapshotRow
  BY <1>1 DEF SnapshotRow
<1> HIDE DEF row
<1>3. [events |-> evs, appended |-> FALSE, snapshot |-> row] \in PendingCommit
  BY <1>2 DEF PendingCommit
<1>4. [events |-> evs, appended |-> FALSE, snapshot |-> row] # None
  BY <1>3, SequencerAssumption
<1> QED BY <1>3, <1>4 DEF row, s

\* A handler step, which ends with at most a commit on its way, keeps the invariant.
LEMMA HandlerKeepsInvariant ==
  ASSUME IInv, HandlerStep
  PROVE  IInv'
<1>1. /\ mode # "stopped" /\ mode' # "stopped" /\ commit = None
      /\ snapshot_cache' = snapshot_cache /\ sequence_gen' = sequence_gen + 1
      /\ events' = events /\ snapshots' = snapshots
  BY DEF HandlerStep, Idle, journalVars
<1>2. Recovered' = Recovered
  BY <1>1, RecoveredUnchanged
<1>3. /\ sequence_gen \in Nat /\ snapshot_cache \in SnapshotRow
      /\ snapshot_cache.sequence_id \in Nat /\ snapshot_cache.sequence_id < sequence_gen
      /\ core = snapshot_cache.state /\ snapshot_cache = Recovered
  BY <1>1 DEF IInv, TypeOK, SnapshotRow, SequenceIsAhead, CoreIsCached, CacheIsDurable
<1>4. \A r \in events : r.sequence_id <= snapshot_cache.sequence_id
  BY <1>1 DEF IInv, JournalIsCovered
<1>5. OneSnapshot' /\ CacheIsDurable' /\ SequenceIsAhead'
  <2>1. OneSnapshot'
    BY <1>1 DEF IInv, OneSnapshot
  <2>2. CacheIsDurable'
    BY <1>1, <1>2, <1>3 DEF CacheIsDurable
  <2>3. SequenceIsAhead'
    BY <1>1, <1>3 DEF SequenceIsAhead
  <2> QED BY <2>1, <2>2, <2>3
<1>6. JournalIsCovered'
  BY <1>1, <1>4 DEF JournalIsCovered
<1>7. core' \in State /\ commit' \in PendingCommit \cup {None} => TypeOK'
  <2> SUFFICES ASSUME core' \in State, commit' \in PendingCommit \cup {None}
               PROVE  TypeOK'
    OBVIOUS
  <2>1. TypeOK
    BY DEF IInv
  <2>2. sequence_gen' \in Nat
    BY <1>1, <1>3
  <2>6. mode' \in {"running", "draining", "stopped"} /\ polled' \in BOOLEAN
    BY DEF HandlerStep
  <2>3. venue_submit_tx' \in {"open", "closed", "none"}
    BY <2>1 DEF HandlerStep, TypeOK
  <2>4. /\ stop_cause' = stop_cause /\ restart_epoch' = restart_epoch /\ sent' = sent
        /\ incarnation' = incarnation
    BY DEF HandlerStep
  <2>5. /\ generators' \in [Agents -> Nat] /\ venue_submit' \in Seq(OrderAck)
        /\ high_priority' \in Seq(HighPriorityCommand) /\ commands' \in Seq(NormalCommand)
        /\ dispatched' \subseteq OrderAck /\ acked' \subseteq OrderAck
    BY DEF HandlerStep
  <2> QED BY <1>1, <1>3, <2>1, <2>2, <2>3, <2>4, <2>5, <2>6 DEF TypeOK
<1>8. CASE NoCommit
  <2>1. core' = core /\ commit' = None
    BY <1>1, <1>8 DEF NoCommit
  <2>2. TypeOK'
    BY <1>7, <2>1 DEF IInv, TypeOK
  <2>3. CoreIsCached' /\ CommitIsNext'
    BY <1>1, <1>3, <2>1 DEF CoreIsCached, CommitIsNext
  <2> QED BY <1>5, <1>6, <2>2, <2>3 DEF IInv
<1>9. CASE \E st \in State, evs \in Seq(Event) : Commit(st, evs)
  <2>1. PICK st \in State, evs \in Seq(Event) : Commit(st, evs)
    BY <1>9
  <2> DEFINE snap == [sequence_id |-> sequence_gen,
                      state |-> [st EXCEPT !.last_sequence_id = sequence_gen]]
             c    == [events |-> evs, appended |-> FALSE, snapshot |-> snap]
  <2>2. core' = st /\ commit' = c
    BY <2>1 DEF Commit
  <2>3. c \in PendingCommit /\ c # None
    BY <1>3, PendingCommitType
  <2>4. TypeOK'
    BY <1>7, <2>2, <2>3
  <2>5. /\ c.appended = FALSE /\ c.snapshot.sequence_id = sequence_gen
        /\ c.snapshot.state = [st EXCEPT !.last_sequence_id = sequence_gen]
    OBVIOUS
  <2> HIDE DEF c, snap
  <2>6. CoreIsCached'
    BY <2>2, <2>3 DEF CoreIsCached
  <2>7. CommitIsNext'
    BY <1>1, <1>3, <2>2, <2>3, <2>5 DEF CommitIsNext
  <2> QED BY <1>5, <1>6, <2>4, <2>6, <2>7 DEF IInv
<1> QED BY <1>8, <1>9 DEF HandlerStep

\* The commit in progress: its rows, and where the journal stands before it.
LEMMA CommitRowFacts ==
  ASSUME IInv, commit # None
  PROVE  /\ commit \in PendingCommit /\ commit.snapshot \in SnapshotRow /\ commit.snapshot # None
         /\ CommitRows \subseteq EventRow
         /\ \A r \in CommitRows : r.sequence_id = commit.snapshot.sequence_id
         /\ ~ commit.appended =>
              \A r \in CommitRows, t \in events : t.sequence_id < r.sequence_id
<1>1. /\ commit \in PendingCommit /\ commit.snapshot \in SnapshotRow
      /\ commit.events \in Seq(Event) /\ commit.snapshot.sequence_id \in Nat
  BY DEF IInv, TypeOK, PendingCommit, SnapshotRow
<1>2. commit.snapshot # None
  BY <1>1, SequencerAssumption
<1>3. /\ CommitRows \subseteq EventRow
      /\ \A r \in CommitRows : r.sequence_id = commit.snapshot.sequence_id
  <2> SUFFICES ASSUME NEW i \in DOMAIN commit.events
               PROVE  [sequence_id |-> commit.snapshot.sequence_id, event_index |-> i - 1,
                       event |-> commit.events[i]] \in EventRow
    BY DEF CommitRows, EncodeEventRows
  <2>1. i - 1 \in Nat /\ commit.events[i] \in Event
    BY <1>1
  <2> QED BY <1>1, <2>1 DEF EventRow
<1>4. ASSUME ~ commit.appended, NEW r \in CommitRows, NEW t \in events
      PROVE  t.sequence_id < r.sequence_id
  <2>1. /\ mode # "stopped" /\ snapshot_cache.sequence_id < commit.snapshot.sequence_id
    BY DEF IInv, CommitIsNext
  <2>2. t.sequence_id <= snapshot_cache.sequence_id
    BY <1>4, <2>1 DEF IInv, JournalIsCovered
  <2>3. t.sequence_id \in Nat /\ snapshot_cache.sequence_id \in Nat
    BY DEF IInv, TypeOK, EventRow, SnapshotRow
  <2> QED BY <1>1, <1>3, <2>1, <2>2, <2>3
<1> QED BY <1>1, <1>2, <1>3, <1>4

\* The journal's answer: the commit becomes the durable state and the cache.
LEMMA CommittedKeepsInvariant ==
  ASSUME IInv, commit # None,
         snapshots' = ReplaceAndPrune(snapshots, commit.snapshot),
         events' = InsertOrIgnore(events, CommitRows) \/ events' = events,
         Committed
  PROVE  IInv'
<1>1. commit \in PendingCommit /\ commit.snapshot \in SnapshotRow
  BY CommitRowFacts
<1>2. /\ mode # "stopped" /\ snapshot_cache = Recovered
      /\ snapshot_cache.sequence_id < commit.snapshot.sequence_id
      /\ commit.snapshot.sequence_id < sequence_gen
      /\ commit.snapshot.state = [core EXCEPT !.last_sequence_id = commit.snapshot.sequence_id]
  BY DEF IInv, CommitIsNext, CacheIsDurable
<1>3. /\ core' = commit.snapshot.state /\ snapshot_cache' = commit.snapshot /\ commit' = None
      /\ mode' = mode /\ sequence_gen' = sequence_gen
  BY <1>2 DEF Committed
<1>4. OneSnapshot' /\ Recovered' = commit.snapshot /\ snapshots' = {commit.snapshot}
  BY <1>1, <1>2, SnapshotReplaced DEF IInv, TypeOK
<1>5. /\ CommitRows \subseteq EventRow
      /\ \A r \in CommitRows : r.sequence_id = commit.snapshot.sequence_id
  BY CommitRowFacts
<1>6. events' \subseteq EventRow /\ events' \subseteq events \cup CommitRows
  BY <1>5 DEF InsertOrIgnore, IInv, TypeOK
<1>7. TypeOK'
  <2>1. commit.snapshot.state \in State
    BY <1>1 DEF SnapshotRow
  <2> QED BY <1>1, <1>3, <1>4, <1>6, <2>1 DEF IInv, TypeOK, Committed, channelVars, historyVars
<1>8. CacheIsDurable' /\ CoreIsCached' /\ CommitIsNext' /\ SequenceIsAhead'
  BY <1>2, <1>3, <1>4 DEF CacheIsDurable, CoreIsCached, CommitIsNext, SequenceIsAhead
<1>9. JournalIsCovered'
  <2> SUFFICES ASSUME NEW r \in events'
               PROVE  r.sequence_id <= commit.snapshot.sequence_id
    BY <1>3 DEF JournalIsCovered
  <2>1. r.sequence_id \in Nat /\ commit.snapshot.sequence_id \in Nat
        /\ snapshot_cache.sequence_id \in Nat
    BY <1>1, <1>6 DEF EventRow, SnapshotRow, IInv, TypeOK
  <2>2. CASE r \in CommitRows
    BY <1>5, <2>1, <2>2
  <2>3. CASE r \in events
    BY <1>2, <2>1, <2>3 DEF IInv, JournalIsCovered
  <2> QED BY <1>6, <2>2, <2>3
<1> QED BY <1>4, <1>7, <1>8, <1>9 DEF IInv

\* A step that touches only channels, polling and history.
LEMMA FrameKeepsInvariant ==
  ASSUME IInv, TypeOK',
         UNCHANGED <<mode, core, sequence_gen, snapshot_cache, commit, journalVars>>
  PROVE  IInv'
<1>1. /\ mode' = mode /\ core' = core /\ sequence_gen' = sequence_gen
      /\ snapshot_cache' = snapshot_cache /\ commit' = commit
      /\ events' = events /\ snapshots' = snapshots
  BY DEF journalVars
<1>2. Recovered' = Recovered
  BY <1>1, RecoveredUnchanged
<1>3. CommitRows' = CommitRows
  BY <1>1 DEF CommitRows
<1>4. OneSnapshot' /\ CacheIsDurable' /\ CoreIsCached' /\ SequenceIsAhead'
  BY <1>1, <1>2 DEF IInv, OneSnapshot, CacheIsDurable, CoreIsCached, SequenceIsAhead
<1>5. CommitIsNext'
  BY <1>1, <1>3 DEF IInv, CommitIsNext
<1>6. JournalIsCovered'
  BY <1>1 DEF IInv, JournalIsCovered
<1> QED BY <1>4, <1>5, <1>6 DEF IInv

\* A step that ends the incarnation: nothing is left to relate to the disk.
LEMMA StoppedKeepsInvariant ==
  ASSUME IInv, TypeOK', mode' = "stopped", commit' = None, UNCHANGED journalVars
  PROVE  IInv'
<1>1. OneSnapshot'
  BY DEF IInv, OneSnapshot, journalVars
<1> QED
  BY <1>1 DEF IInv, CacheIsDurable, CoreIsCached, SequenceIsAhead, CommitIsNext, JournalIsCovered

\* Ending an incarnation keeps the types.
LEMMA StopType ==
  ASSUME TypeOK, NEW cause, Stop(cause), UNCHANGED journalVars, sequence_gen' \in Nat,
         cause \in {"illegal command", "core failure", "shutdown", "handles dropped",
                   "journal failure"}
  PROVE  TypeOK'
<1>1. high_priority' \in Seq(HighPriorityCommand) /\ commands' \in Seq(NormalCommand)
  <2>1. high_priority' = <<>> /\ commands' = <<>>
    BY DEF Stop
  <2> QED BY ONLY <2>1
<1>2. polled' \in BOOLEAN /\ commit' \in PendingCommit \cup {None}
  BY DEF Stop
<1> QED BY <1>1, <1>2 DEF TypeOK, Stop, historyVars, journalVars

\* Failures, crashes and the end of a drain keep the invariant.
LEMMA FaultKeepsInvariant ==
  ASSUME IInv, Fault \/ FinishShutdown
  PROVE  IInv'
<1>1. TypeOK /\ sequence_gen \in Nat /\ sequence_gen + 1 \in Nat
  <2>1. TypeOK /\ sequence_gen \in Nat
    BY DEF IInv, TypeOK
  <2> QED BY <2>1
<1>2. CASE CommandFails
  <2>1. PICK cause \in {"illegal command", "core failure"} : Stop(cause)
    BY <1>2 DEF CommandFails
  <2>2. UNCHANGED journalVars /\ sequence_gen' \in Nat
    BY <1>1, <1>2 DEF CommandFails
  <2>3. TypeOK'
    BY <1>1, <2>1, <2>2, StopType
  <2> QED BY <2>1, <2>2, <2>3, StoppedKeepsInvariant DEF Stop
<1>3. ASSUME NEW cause \in {"shutdown", "handles dropped", "journal failure"},
             Stop(cause), UNCHANGED <<sequence_gen, journalVars>>
      PROVE  IInv'
  <2>1. TypeOK'
    BY <1>1, <1>3, StopType
  <2> QED BY <1>3, <2>1, StoppedKeepsInvariant DEF Stop
<1>4. CASE Crash
  <2>1. /\ high_priority' \in Seq(HighPriorityCommand) /\ commands' \in Seq(NormalCommand)
        /\ venue_submit' \in Seq(OrderAck)
    BY <1>4 DEF Crash
  <2>2. polled' \in BOOLEAN /\ commit' \in PendingCommit \cup {None}
    BY <1>4 DEF Crash
  <2>3. TypeOK'
    BY <1>1, <1>4, <2>1, <2>2 DEF TypeOK, Crash, historyVars, journalVars
  <2> QED BY <1>4, <2>3, StoppedKeepsInvariant DEF Crash
<1> QED BY <1>2, <1>3, <1>4 DEF Fault, PersistFails, HandlesDropped, FinishShutdown

\* Polling and waiting keep the invariant.
LEMMA PollKeepsInvariant ==
  ASSUME IInv, PollHighPriority \/ WaitForCommand
  PROVE  IInv'
<1>1. polled' \in BOOLEAN
  BY DEF PollHighPriority, WaitForCommand
<1>2. UNCHANGED <<mode, stop_cause, core, sequence_gen, snapshot_cache, generators,
                  restart_epoch, commit, channelVars, journalVars, historyVars>>
  BY DEF PollHighPriority, WaitForCommand
<1>3. TypeOK'
  BY <1>1, <1>2 DEF IInv, TypeOK, channelVars, journalVars, historyVars
<1> QED BY <1>2, <1>3, FrameKeepsInvariant

\* A command sent ends up on a channel of its own type.
LEMMA SendType ==
  ASSUME TypeOK, NEW cmd \in Command, Send(cmd), sent' \in Nat
  PROVE  TypeOK'
<1>1. high_priority \in Seq(HighPriorityCommand) /\ commands \in Seq(NormalCommand)
  BY DEF TypeOK
<1>2. high_priority' \in Seq(HighPriorityCommand) /\ commands' \in Seq(NormalCommand)
  <2>1. CASE cmd \in HighPriorityCommand
    BY <1>1, <2>1, AppendProperties DEF Send
  <2>2. CASE cmd \notin HighPriorityCommand
    <3>1. cmd \in NormalCommand
      BY <2>2 DEF Command
    <3> QED BY <1>1, <2>2, <3>1, AppendProperties DEF Send
  <2> QED BY <2>1, <2>2
<1> QED BY <1>2 DEF TypeOK, Send, engineVars, journalVars

\* Clients and the submit task keep the invariant.
LEMMA EnvironmentKeepsInvariant ==
  ASSUME IInv, Environment
  PROVE  IInv'
<1>1. TypeOK
  BY DEF IInv
<1>2. UNCHANGED engineVars /\ UNCHANGED journalVars
  BY DEF Environment, SendOffered, Send, TakeRouted, DropReceiver
<1>3. TypeOK'
  <2>1. CASE SendOffered
    <3>1. PICK cmd \in Offered : Send(cmd)
      BY <2>1 DEF SendOffered
    <3>2. cmd \in Command
      BY SequencerAssumption
    <3>3. sent' \in Nat
      <4>1. sent \in Nat
        BY <1>1 DEF TypeOK
      <4> QED BY <2>1, <4>1 DEF SendOffered
    <3> QED BY <1>1, <3>1, <3>2, <3>3, SendType
  <2>2. CASE TakeRouted
    <3>1. venue_submit' \in Seq(OrderAck)
      BY <1>1, <2>2, HeadTailProperties DEF TakeRouted, TypeOK
    <3> QED BY <1>1, <1>2, <2>2, <3>1
            DEF TakeRouted, TypeOK, engineVars, journalVars, historyVars
  <2>3. CASE DropReceiver
    <3>1. venue_submit' \in Seq(OrderAck)
      BY <2>3 DEF DropReceiver
    <3> QED BY <1>1, <1>2, <2>3, <3>1
            DEF DropReceiver, TypeOK, engineVars, journalVars, historyVars
  <2> QED BY <2>1, <2>2, <2>3 DEF Environment
<1> QED BY <1>2, <1>3, FrameKeepsInvariant DEF engineVars

\* A completed start: memory is what the disk holds, which has no tail.
LEMMA BootstrapKeepsInvariant ==
  ASSUME IInv, Bootstrap
  PROVE  IInv'
<1>1. TypeOK /\ OneSnapshot /\ snapshots \subseteq SnapshotRow /\ events \subseteq EventRow
  BY DEF IInv, TypeOK
<1>2. events' = events /\ snapshots' = snapshots
  BY DEF Bootstrap, journalVars
<1>3. Recovered' = Recovered /\ OneSnapshot'
  BY <1>1, <1>2, RecoveredUnchanged DEF OneSnapshot
<1>4. Recovered \in SnapshotRow /\ Recovered.state \in State /\ Recovered.sequence_id \in Nat
  BY <1>1, RecoveredFacts DEF SnapshotRow
<1>5. /\ mode' = "running" /\ commit' = None /\ core' = Recovered.state
      /\ snapshot_cache' = Recovered /\ sequence_gen' = Recovered.sequence_id + 1
  BY DEF Bootstrap, NextSequenceId
<1>6. CacheIsDurable' /\ CoreIsCached' /\ CommitIsNext' /\ SequenceIsAhead'
  <2>1. CacheIsDurable' /\ CoreIsCached' /\ CommitIsNext'
    BY <1>3, <1>5 DEF CacheIsDurable, CoreIsCached, CommitIsNext
  <2>2. SequenceIsAhead'
    BY <1>4, <1>5 DEF SequenceIsAhead
  <2> QED BY <2>1, <2>2
<1>7. JournalIsCovered'
  <2> SUFFICES ASSUME NEW r \in events
               PROVE  r.sequence_id <= Recovered.sequence_id
    BY <1>2, <1>5 DEF JournalIsCovered
  <2>1. ~ HasUnappliedTail
    BY DEF Bootstrap
  <2>2. r.sequence_id \in Nat
    BY <1>1 DEF EventRow
  <2>3. CASE snapshots = {}
    <3>1. LatestSnapshot = None
      BY <1>1, <2>3, RecoveredFacts
    <3>2. ReplayFrom(0) = {}
      BY <2>1, <3>1 DEF HasUnappliedTail
    <3>3. r \in ReplayFrom(0)
      BY <2>2 DEF ReplayFrom
    <3> QED BY <3>2, <3>3
  <2>4. CASE snapshots # {}
    <3>1. PICK s \in snapshots : TRUE
      BY <2>4
    <3>2. Recovered = s /\ LatestSnapshot = s /\ s # None
      BY <1>1, RecoveredFacts, SequencerAssumption
    <3>3. ~ LatestSequenceIdAfter(s.sequence_id)
      BY <2>1, <3>2 DEF HasUnappliedTail
    <3> QED BY <1>4, <2>2, <3>2, <3>3 DEF LatestSequenceIdAfter
  <2> QED BY <2>3, <2>4
<1>8. TypeOK'
  <2>1. generators' \in [Agents -> Nat]
    <3>1. generators' \in [Agents -> 0 .. Recovered.sequence_id]
      BY DEF Bootstrap, RestoredGenerators
    <3> QED BY <1>4, <3>1
  <2>2. restart_epoch' \in Nat
    <3>1. restart_epoch \in Nat
      BY <1>1 DEF TypeOK
    <3>2. restart_epoch' = restart_epoch + 1 \/ restart_epoch' \in 0 .. restart_epoch + 1
      BY DEF Bootstrap
    <3> QED BY <3>1, <3>2
  <2>3. sequence_gen' \in Nat /\ commit' \in PendingCommit \cup {None}
    BY <1>4, <1>5
  <2>4. incarnation' \in Nat
    <3>1. incarnation \in Nat
      BY <1>1 DEF TypeOK
    <3> QED BY <3>1 DEF Bootstrap
  <2>5. venue_submit_tx' \in {"open", "closed", "none"}
    BY SequencerAssumption DEF Bootstrap
  <2>6. /\ high_priority' \in Seq(HighPriorityCommand) /\ commands' \in Seq(NormalCommand)
        /\ venue_submit' \in Seq(OrderAck)
    <3>1. high_priority' = <<>> /\ commands' = <<>> /\ venue_submit' = <<>>
      BY DEF Bootstrap
    <3> QED BY <3>1
  <2>7. polled' \in BOOLEAN
    BY DEF Bootstrap
  <2>8. UNCHANGED <<stop_cause, dispatched, acked, sent>>
    BY DEF Bootstrap
  <2> QED BY <1>1, <1>2, <1>4, <1>5, <2>1, <2>2, <2>3, <2>4, <2>5, <2>6, <2>7, <2>8 DEF TypeOK
<1> QED BY <1>3, <1>6, <1>7, <1>8 DEF IInv

\* Rows beyond the journal are all inserted.
LEMMA NewRowsInserted ==
  ASSUME NEW table, NEW rows, table \subseteq EventRow, rows \subseteq EventRow,
         \A r \in rows, t \in table : t.sequence_id < r.sequence_id
  PROVE  InsertOrIgnore(table, rows) = table \cup rows
<1>1. \A r \in rows, t \in table : ~ SameKey(r, t)
  BY DEF SameKey, EventRow
<1> QED BY <1>1 DEF InsertOrIgnore

\* The journal's answers, in one step or in two, keep the invariant.
LEMMA PersistKeepsInvariant ==
  ASSUME IInv, Persist
  PROVE  IInv'
<1>1. commit # None
  BY DEF Persist, PersistCommit, PersistEvents, PersistSnapshot
<1>2. commit.snapshot # None
  BY <1>1, CommitRowFacts
<1>3. CASE PersistCommit
  BY <1>1, <1>2, <1>3, CommittedKeepsInvariant DEF PersistCommit, PersistRows
<1>4. CASE PersistSnapshot
  <2>1. events' = InsertOrIgnore(events, {}) /\ snapshots' = ReplaceAndPrune(snapshots, commit.snapshot)
    BY <1>2, <1>4 DEF PersistSnapshot, SaveSnapshot, PersistRows
  <2>2. events' = events
    BY <2>1 DEF InsertOrIgnore
  <2> QED BY <1>1, <1>4, <2>1, <2>2, CommittedKeepsInvariant DEF PersistSnapshot
<1>5. CASE PersistEvents
  <2>1. /\ ~ commit.appended /\ ~ AtomicCommit /\ commit' = [commit EXCEPT !.appended = TRUE]
        /\ events' = InsertOrIgnore(events, CommitRows) /\ snapshots' = snapshots
    BY <1>5 DEF PersistEvents, AppendBatch, PersistRows
  <2>2. UNCHANGED <<mode, stop_cause, core, sequence_gen, snapshot_cache, generators,
                    restart_epoch, polled, channelVars, historyVars>>
    BY <1>5 DEF PersistEvents
  <2>3. /\ CommitRows \subseteq EventRow /\ events \subseteq EventRow
        /\ \A r \in CommitRows, t \in events : t.sequence_id < r.sequence_id
        /\ \A r \in CommitRows : r.sequence_id = commit.snapshot.sequence_id
    BY <1>1, <2>1, CommitRowFacts DEF IInv, TypeOK
  <2>4. events' = events \cup CommitRows
    BY <2>1, <2>3, NewRowsInserted
  <2>5. /\ commit' \in PendingCommit /\ commit'.appended = TRUE
        /\ commit'.snapshot = commit.snapshot /\ commit'.events = commit.events
    <3>1. commit \in PendingCommit
      BY <1>1, CommitRowFacts
    <3> QED BY <2>1, <3>1 DEF PendingCommit
  <2>6. CommitRows' = CommitRows
    BY <2>5 DEF CommitRows
  <2>7. TypeOK'
    BY <2>1, <2>2, <2>3, <2>4, <2>5 DEF IInv, TypeOK, channelVars, historyVars
  <2>8. Recovered' = Recovered
    BY <2>1, RecoveredUnchanged
  <2>9. commit' # None
    BY <2>5, SequencerAssumption
  <2>10. OneSnapshot' /\ CacheIsDurable' /\ SequenceIsAhead' /\ CoreIsCached'
    BY <2>1, <2>2, <2>8, <2>9 DEF IInv, OneSnapshot, CacheIsDurable, SequenceIsAhead, CoreIsCached
  <2>11. CommitIsNext'
    BY <1>1, <2>1, <2>2, <2>4, <2>5, <2>6 DEF IInv, CommitIsNext
  <2>12. JournalIsCovered'
    BY <1>1, <2>1, <2>2, <2>3, <2>4, <2>5, <2>9 DEF IInv, JournalIsCovered
  <2> QED BY <2>7, <2>10, <2>11, <2>12 DEF IInv
<1> QED BY <1>3, <1>4, <1>5 DEF Persist

-----------------------------------------------------------------------------
(* The theorems *)

\* The invariant holds before the first start.
LEMMA InitInvariant == Init => IInv
<1> SUFFICES ASSUME Init PROVE IInv
  OBVIOUS
<1>1. EmptyState \in State /\ [sequence_id |-> 0, state |-> EmptyState] \in SnapshotRow
  BY EmptyStateType DEF SnapshotRow
<1>2. events = {} /\ snapshots = {} /\ mode = "stopped" /\ commit = None
  BY DEF Init, JournalInit
<1>3. /\ high_priority \in Seq(HighPriorityCommand) /\ commands \in Seq(NormalCommand)
      /\ venue_submit \in Seq(OrderAck)
  <2>1. high_priority = <<>> /\ commands = <<>> /\ venue_submit = <<>>
    BY DEF Init
  <2> QED BY ONLY <2>1
<1>4. generators \in [Agents -> Nat]
  BY DEF Init
<1>5. core \in State /\ snapshot_cache \in SnapshotRow
  BY <1>1 DEF Init
<1>6. /\ stop_cause = "none" /\ venue_submit_tx = "none" /\ dispatched = {} /\ acked = {}
      /\ sequence_gen = 1 /\ restart_epoch = 0 /\ sent = 0 /\ incarnation = 0 /\ polled = FALSE
  BY DEF Init
<1>7. TypeOK
  BY <1>2, <1>3, <1>4, <1>5, <1>6 DEF TypeOK
<1> QED
  BY <1>2, <1>7 DEF IInv, OneSnapshot, CacheIsDurable, CoreIsCached, SequenceIsAhead, CommitIsNext,
                   JournalIsCovered

\* Every step keeps the invariant.
LEMMA NextInvariant == IInv /\ [Next]_vars => IInv'
<1> SUFFICES ASSUME IInv, [Next]_vars PROVE IInv'
  OBVIOUS
<1>1. CASE Bootstrap
  BY <1>1, BootstrapKeepsInvariant
<1>2. CASE Step
  <2>1. CASE Handle
    BY <2>1, HandleStep, HandlerKeepsInvariant DEF IInv
  <2> QED BY <1>2, <2>1, PollKeepsInvariant, PersistKeepsInvariant, FaultKeepsInvariant DEF Step
<1>3. CASE Fault
  BY <1>3, FaultKeepsInvariant
<1>4. CASE Environment
  BY <1>4, EnvironmentKeepsInvariant
<1>5. CASE UNCHANGED vars
  <2>1. TypeOK'
    BY <1>5 DEF IInv, TypeOK, vars, engineVars, channelVars, journalVars, historyVars
  <2> QED BY <1>5, <2>1, FrameKeepsInvariant DEF vars, engineVars
<1> QED BY <1>1, <1>2, <1>3, <1>4, <1>5 DEF Next

\* The invariant holds throughout every behaviour.
LEMMA Invariant == Spec => []IInv
BY InitInvariant, NextInvariant, PTL DEF Spec

\* Memory, channels and tables of the sequencer keep their types, for every set
\* of orders, agents and commands.
THEOREM TypeCorrect == Spec => []TypeOK
<1>1. IInv => TypeOK
  BY DEF IInv
<1> QED BY <1>1, Invariant, PTL

\* process_command never lets memory and disk drift apart, over any number of
\* crashes, failed commits and restarts, with either form of persist_commit.
THEOREM MemoryIsDurable == Spec => []MemoryMatchesDisk
<1>1. IInv => MemoryMatchesDisk
  BY DEF IInv, CacheIsDurable, CoreIsCached, MemoryMatchesDisk, Durable
<1> QED BY <1>1, Invariant, PTL

\* A commit that completes has put all its rows into the journal.
LEMMA CommitStepJournals ==
  ASSUME IInv, Next, snapshot_cache' # snapshot_cache, commit # None
  PROVE  CommitRows \subseteq events'
<1>1. mode # "stopped"
  BY DEF IInv, CommitIsNext
<1>2. PersistCommit \/ PersistSnapshot
  <2>1. ~ Bootstrap
    BY <1>1 DEF Bootstrap
  <2>2. ~ Handle
    BY HandleStep DEF IInv, HandlerStep, Idle
  <2>3. ~ (PollHighPriority \/ WaitForCommand \/ PersistEvents \/ FinishShutdown)
    BY DEF PollHighPriority, WaitForCommand, PersistEvents, FinishShutdown, Stop
  <2>4. ~ Fault
    BY DEF Fault, CommandFails, PersistFails, HandlesDropped, Crash, Stop
  <2>5. ~ Environment
    BY DEF Environment, SendOffered, Send, TakeRouted, DropReceiver, engineVars
  <2> QED BY <2>1, <2>2, <2>3, <2>4, <2>5 DEF Next, Step, Persist
<1>3. events \subseteq EventRow
  BY DEF IInv, TypeOK
<1>4. CASE PersistCommit
  <2>1. ~ commit.appended
    BY <1>4 DEF IInv, CommitIsNext, PersistCommit
  <2>2. InsertOrIgnore(events, CommitRows) = events \cup CommitRows
    BY <1>3, <2>1, CommitRowFacts, NewRowsInserted
  <2> QED BY <1>4, <2>2 DEF PersistCommit, PersistRows
<1>5. CASE PersistSnapshot
  <2>1. events' = events
    BY <1>5 DEF PersistSnapshot, SaveSnapshot, PersistRows, InsertOrIgnore
  <2>2. CASE commit.appended
    BY <2>1, <2>2 DEF IInv, CommitIsNext
  <2>3. CASE commit.events = <<>>
    BY <2>3 DEF CommitRows, EncodeEventRows
  <2> QED BY <1>5, <2>2, <2>3 DEF PersistSnapshot
<1> QED BY <1>2, <1>4, <1>5

\* No event of a completed commit is lost to INSERT OR IGNORE.
THEOREM CommitsAreJournaled == Spec => CommitIsJournaled
<1>1. IInv /\ [Next]_vars =>
        [snapshot_cache' # snapshot_cache /\ commit # None => CommitRows \subseteq events']_vars
  BY CommitStepJournals
<1> QED BY <1>1, Invariant, PTL DEF Spec, CommitIsJournaled

\* A step that changes the journal appends to it.
LEMMA JournalStepAppends ==
  ASSUME IInv, Next, events' # events
  PROVE  /\ events \subseteq events'
         /\ \A r \in events' \ events : \A t \in events : t.sequence_id < r.sequence_id
<1>1. PersistCommit \/ PersistEvents
  <2>1. ~ (Bootstrap \/ PollHighPriority \/ WaitForCommand \/ FinishShutdown)
    BY DEF Bootstrap, PollHighPriority, WaitForCommand, FinishShutdown, journalVars
  <2>2. ~ Handle
    BY HandleStep DEF IInv, HandlerStep, journalVars
  <2>3. ~ PersistSnapshot
    BY DEF PersistSnapshot, SaveSnapshot, PersistRows, InsertOrIgnore
  <2>4. ~ Fault
    BY DEF Fault, CommandFails, PersistFails, HandlesDropped, Crash, journalVars
  <2>5. ~ Environment
    BY DEF Environment, SendOffered, Send, TakeRouted, DropReceiver, journalVars
  <2> QED BY <2>1, <2>2, <2>3, <2>4, <2>5 DEF Next, Step, Persist
<1>2. commit # None /\ ~ commit.appended
  BY <1>1 DEF PersistCommit, PersistEvents, IInv, CommitIsNext
<1>3. \A r \in CommitRows, t \in events : t.sequence_id < r.sequence_id
  BY <1>2, CommitRowFacts
<1>4. events' = InsertOrIgnore(events, CommitRows)
  BY <1>1 DEF PersistCommit, PersistEvents, AppendBatch, PersistRows
<1> QED BY <1>3, <1>4 DEF InsertOrIgnore

\* The journal only ever grows at its end.
THEOREM JournalGrowsAtItsEnd == Spec => JournalAppendOnly
<1>1. IInv /\ [Next]_vars =>
        [/\ events \subseteq events'
         /\ \A r \in events' \ events : \A t \in events : t.sequence_id < r.sequence_id]_events
  <2>1. UNCHANGED vars => events' = events
    BY DEF vars, journalVars
  <2> QED BY JournalStepAppends, <2>1
<1> QED BY <1>1, Invariant, PTL DEF Spec, JournalAppendOnly
-----------------------------------------------------------------------------
(* Client order ids: they name one order over all restarts when every start    *)
(* brings a new epoch; whatever epochs are passed, a fresh id never evicts the  *)
(* cached ack of another order.                                                 *)

\* Ids of this epoch were handed out by the counters of this process, ids of
\* other epochs belong to earlier ones.
IdsAreSpent ==
  \A d \in dispatched :
    /\ d.client_order_id.epoch <= restart_epoch
    /\ d.client_order_id.epoch = restart_epoch =>
         d.client_order_id.seq < generators[d.client_order_id.agent]

IdInv == IInv /\ IdsAreSpent /\ ClientOrderIdNamesOneOrder

\* Only a start and an order submission touch counters, epoch or dispatches.
LEMMA IdFrame ==
  ASSUME [Next]_vars, ~ Bootstrap, ~ \E o \in OrderIds : HandleSubmitOrder(o)
  PROVE  UNCHANGED <<generators, restart_epoch, dispatched>>
<1>1. CASE UNCHANGED vars
  BY <1>1 DEF vars, engineVars, historyVars
<1>2. CASE HandleVenueEvent
  BY <1>2 DEF HandleVenueEvent, HandleVenueAck, HandleVenueSubmitFailed, HandleVenueCancelled,
              HandleFill, Take, Untouched
<1>3. CASE HandleOperatorCommand
  BY <1>3 DEF HandleOperatorCommand, HandleReconciliation, HandleUnjournaled, HandlePauseAgent,
              HandleResumeAgent, HandleHaltAll, HandleResetCircuitBreaker, HandleWithoutCommit,
              HandleShutdown, Take, Untouched
<1>4. CASE PollHighPriority \/ WaitForCommand \/ Persist \/ FinishShutdown
  BY <1>4 DEF PollHighPriority, WaitForCommand, Persist, PersistCommit, PersistEvents,
              PersistSnapshot, Committed, FinishShutdown, Stop, historyVars
<1>5. CASE Fault
  BY <1>5 DEF Fault, CommandFails, PersistFails, HandlesDropped, Crash, Stop, historyVars
<1>6. CASE Environment
  BY <1>6 DEF Environment, SendOffered, Send, TakeRouted, DropReceiver, engineVars, historyVars
<1> QED BY <1>1, <1>2, <1>3, <1>4, <1>5, <1>6 DEF Next, Step, Handle

\* An order submission spends at most one counter value, on its own order.
LEMMA SubmitSpendsOneId ==
  ASSUME TypeOK, NEW o \in OrderIds, HandleSubmitOrder(o)
  PROVE  LET cid == NextClientOrderId(AgentOf[o]) IN
         /\ restart_epoch' = restart_epoch
         /\ \/ generators' = generators /\ dispatched' = dispatched
            \/ /\ generators' = [generators EXCEPT ![AgentOf[o]] = @ + 1]
               /\ dispatched' \subseteq dispatched \cup {[order_id |-> o, client_order_id |-> cid]}
<1>1. restart_epoch' = restart_epoch
  BY DEF HandleSubmitOrder, Take
<1>2. CASE ReturnCachedAck(o) \/ RejectByRisk(o)
  BY <1>1, <1>2 DEF ReturnCachedAck, RejectByRisk
<1>3. CASE RejectByRoute(o)
  BY <1>1, <1>3 DEF RejectByRoute
<1>4. CASE AcceptAndRoute(o)
  <2>1. generators' = [generators EXCEPT ![AgentOf[o]] = @ + 1]
    BY <1>4 DEF AcceptAndRoute
  <2>2. dispatched' \subseteq dispatched \cup
          {[order_id |-> o, client_order_id |-> NextClientOrderId(AgentOf[o])]}
    BY <1>4 DEF AcceptAndRoute
  <2> QED BY <1>1, <2>1, <2>2
<1> QED BY <1>2, <1>3, <1>4 DEF HandleSubmitOrder

\* With fresh epochs, every step keeps spent ids spent and unique.
LEMMA IdsKept ==
  ASSUME FreshEpoch, IdInv, [Next]_vars
  PROVE  IdsAreSpent' /\ ClientOrderIdNamesOneOrder'
<1>1. TypeOK /\ restart_epoch \in Nat /\ generators \in [Agents -> Nat] /\ dispatched \subseteq OrderAck
  BY DEF IdInv, IInv, TypeOK
<1>2. ASSUME NEW d \in OrderAck
      PROVE  /\ d.order_id \in OrderIds /\ d.client_order_id \in ClientOrderId
             /\ d.client_order_id.epoch \in Nat /\ d.client_order_id.seq \in Nat
             /\ d.client_order_id.agent \in Agents
  BY DEF OrderAck, ClientOrderId
<1>3. CASE Bootstrap
  <2>1. restart_epoch' = restart_epoch + 1 /\ dispatched' = dispatched
    BY <1>3 DEF Bootstrap
  <2>2. IdsAreSpent'
    <3> SUFFICES ASSUME NEW d \in dispatched
                 PROVE  d.client_order_id.epoch < restart_epoch + 1
      BY <1>1, <1>2, <2>1 DEF IdsAreSpent
    <3>1. d.client_order_id.epoch <= restart_epoch /\ d.client_order_id.epoch \in Nat
      BY <1>1, <1>2 DEF IdInv, IdsAreSpent
    <3> QED BY <1>1, <3>1
  <2> QED BY <2>1, <2>2 DEF IdInv, ClientOrderIdNamesOneOrder
<1>4. CASE \E o \in OrderIds : HandleSubmitOrder(o)
  <2>1. PICK o \in OrderIds : HandleSubmitOrder(o)
    BY <1>4
  <2> DEFINE cid    == NextClientOrderId(AgentOf[o])
             routed == [order_id |-> o, client_order_id |-> cid]
  <2>2. restart_epoch' = restart_epoch
    BY <1>1, <2>1, SubmitSpendsOneId
  <2>3. CASE generators' = generators /\ dispatched' = dispatched
    BY <2>2, <2>3 DEF IdInv, IdsAreSpent, ClientOrderIdNamesOneOrder
  <2>4. CASE /\ generators' = [generators EXCEPT ![AgentOf[o]] = @ + 1]
             /\ dispatched' \subseteq dispatched \cup {routed}
    <3>1. AgentOf[o] \in Agents
      BY EngineStateAssumption
    <3>2. /\ cid.agent = AgentOf[o] /\ cid.seq = generators[AgentOf[o]] /\ cid.epoch = restart_epoch
          /\ routed.order_id = o /\ routed.client_order_id = cid
      BY DEF NextClientOrderId
    <3> HIDE DEF cid, routed
    <3>3. \A a \in Agents : /\ generators[a] \in Nat /\ generators'[a] \in Nat
                            /\ generators[a] <= generators'[a]
      BY <1>1, <2>4, <3>1
    <3>4. generators'[AgentOf[o]] = generators[AgentOf[o]] + 1
      BY <1>1, <2>4, <3>1
    <3>5. ASSUME NEW d \in dispatched
          PROVE  /\ d.client_order_id.epoch <= restart_epoch
                 /\ d.client_order_id.epoch = restart_epoch =>
                      d.client_order_id.seq < generators'[d.client_order_id.agent]
                 /\ d.client_order_id # cid
      <4>1. /\ d.client_order_id.epoch \in Nat /\ d.client_order_id.seq \in Nat
            /\ d.client_order_id.agent \in Agents
        BY <1>1, <1>2
      <4>2. /\ d.client_order_id.epoch <= restart_epoch
            /\ d.client_order_id.epoch = restart_epoch =>
                 d.client_order_id.seq < generators[d.client_order_id.agent]
        BY DEF IdInv, IdsAreSpent
      <4>3. d.client_order_id # cid
        BY <3>1, <3>2, <3>3, <4>1, <4>2
      <4> QED BY <3>3, <4>1, <4>2, <4>3
    <3>6. cid.epoch <= restart_epoch /\ cid.seq < generators'[cid.agent]
      BY <1>1, <3>1, <3>2, <3>3, <3>4
    <3>7. IdsAreSpent'
      BY <2>2, <2>4, <3>2, <3>5, <3>6 DEF IdsAreSpent
    <3>8. ClientOrderIdNamesOneOrder'
      BY <2>4, <3>2, <3>5 DEF IdInv, ClientOrderIdNamesOneOrder
    <3> QED BY <3>7, <3>8
  <2> QED BY <1>1, <2>1, <2>3, <2>4, SubmitSpendsOneId
<1>5. CASE ~ Bootstrap /\ ~ \E o \in OrderIds : HandleSubmitOrder(o)
  BY <1>5, IdFrame DEF IdInv, IdsAreSpent, ClientOrderIdNamesOneOrder
<1> QED BY <1>3, <1>4, <1>5

\* If every process start brings a new epoch, a client order id never stands
\* for two orders, over any number of restarts, burnt counters included.
THEOREM ClientOrderIdsNameOneOrder ==
  ASSUME FreshEpoch
  PROVE  Spec => []ClientOrderIdNamesOneOrder
<1>1. Init => IdInv
  BY InitInvariant DEF Init, IdInv, IdsAreSpent, ClientOrderIdNamesOneOrder
<1>2. IdInv /\ [Next]_vars => IdInv'
  BY IdsKept, NextInvariant DEF IdInv
<1>3. IdInv => ClientOrderIdNamesOneOrder
  BY DEF IdInv
<1> QED BY <1>1, <1>2, <1>3, PTL DEF Spec

-----------------------------------------------------------------------------
(* The cached acks *)

\* Every order has its ack in the cache, and no two acks share an id.
AcksAreFiled(st) ==
  /\ \A o \in OrderIds : st.orders[o] # None =>
       [order_id |-> o, client_order_id |-> st.orders[o].client_order_id] \in st.idempotency_cache
  /\ \A a, b \in st.idempotency_cache : a.client_order_id = b.client_order_id => a = b

CoreIsFiled == AcksAreFiled(core)

DurableIsFiled == AcksAreFiled(Recovered.state)

\* No cached id has a counter value that can still be handed out.
CountersAhead ==
  mode # "stopped" =>
    \A a \in core.idempotency_cache : a.client_order_id.seq < generators[a.client_order_id.agent]

AckInv == IInv /\ CoreIsFiled /\ DurableIsFiled /\ CountersAhead

\* A change of state that keeps orders, their ids and the cache.
SameIds(st, new) ==
  /\ new.idempotency_cache = st.idempotency_cache
  /\ \A o \in OrderIds :
       /\ new.orders[o] = None <=> st.orders[o] = None
       /\ new.orders[o] # None => new.orders[o].client_order_id = st.orders[o].client_order_id

\* In a filed state a lookup finds the ack of the order it asks for, and only it.
LEMMA FiledMeansOwnAck ==
  ASSUME NEW st \in State, AcksAreFiled(st), NEW o \in OrderIds, st.orders[o] # None
  PROVE  ExistingAcks(st, o) = {[order_id |-> o, client_order_id |-> st.orders[o].client_order_id]}
<1> DEFINE ack == [order_id |-> o, client_order_id |-> st.orders[o].client_order_id]
<1>1. ack \in st.idempotency_cache /\ ack.client_order_id = st.orders[o].client_order_id
  BY DEF AcksAreFiled
<1> HIDE DEF ack
<1>2. \A a \in st.idempotency_cache :
        a.client_order_id = st.orders[o].client_order_id => a = ack
  BY <1>1 DEF AcksAreFiled
<1>3. ExistingAcks(st, o) = {ack}
  BY <1>1, <1>2 DEF ExistingAcks
<1> QED BY <1>3 DEF ack

\* A change that leaves ids and cache alone leaves the acks filed.
LEMMA SameIdsFiled ==
  ASSUME NEW st, NEW new, SameIds(st, new), AcksAreFiled(st)
  PROVE  AcksAreFiled(new)
BY DEF SameIds, AcksAreFiled

\* An update of one known order that keeps its id.
LEMMA OrderUpdateKeepsIds ==
  ASSUME NEW st \in State, NEW o \in OrderIds, NEW r \in OrderRecord,
         st.orders[o] # None, r.client_order_id = st.orders[o].client_order_id
  PROVE  SameIds(st, [st EXCEPT !.orders[o] = r])
<1> DEFINE new == [st EXCEPT !.orders[o] = r]
<1>1. r # None
  BY SequencerAssumption
<1>2. new.idempotency_cache = st.idempotency_cache
  BY DEF State
<1>3. \A p \in OrderIds : new.orders[p] = IF p = o THEN r ELSE st.orders[p]
  BY DEF State
<1> HIDE DEF new
<1>4. SameIds(st, new)
  BY <1>1, <1>2, <1>3 DEF SameIds
<1> QED BY <1>4 DEF new

\* A fresh id extends the cache and evicts nothing.
LEMMA WithOrderFiled ==
  ASSUME NEW st \in State, NEW o \in OrderIds, NEW cid \in ClientOrderId, AcksAreFiled(st),
         \A a \in st.idempotency_cache : a.client_order_id # cid
  PROVE  /\ AcksAreFiled(WithOrder(st, o, cid))
         /\ WithOrder(st, o, cid).idempotency_cache
              = st.idempotency_cache \cup {[order_id |-> o, client_order_id |-> cid]}
<1> DEFINE r   == [state |-> "Pending", client_order_id |-> cid, venue_order_id |-> None,
                   filled |-> 0]
           ack == [order_id |-> o, client_order_id |-> cid]
           new == WithOrder(st, o, cid)
<1>1. r.client_order_id = cid /\ ack.client_order_id = cid
  OBVIOUS
<1>2. CacheInsert(st.idempotency_cache, ack) = st.idempotency_cache \cup {ack}
  BY DEF CacheInsert
<1>3. new = [st EXCEPT !.orders[o] = r, !.idempotency_cache = CacheInsert(@, ack)]
  BY DEF WithOrder
<1> HIDE DEF r
<1>4. new.idempotency_cache = st.idempotency_cache \cup {ack}
  BY <1>2, <1>3 DEF State
<1>5. \A p \in OrderIds : new.orders[p] = IF p = o THEN r ELSE st.orders[p]
  BY <1>3 DEF State
<1> HIDE DEF new
<1>6. \A p \in OrderIds : new.orders[p] # None =>
        [order_id |-> p, client_order_id |-> new.orders[p].client_order_id]
          \in new.idempotency_cache
  BY <1>1, <1>4, <1>5 DEF AcksAreFiled
<1>7. \A a, b \in new.idempotency_cache : a.client_order_id = b.client_order_id => a = b
  BY <1>1, <1>4 DEF AcksAreFiled
<1>8. AcksAreFiled(new)
  BY <1>6, <1>7 DEF AcksAreFiled
<1> QED BY <1>4, <1>8 DEF new

\* No venue event changes an order's client order id or the cache.
LEMMA VenueEventKeepsIds ==
  ASSUME TypeOK, HandleVenueEvent
  PROVE  SameIds(core, core')
<1> SUFFICES ASSUME NEW o \in OrderIds,
                    \/ \E v \in VenueOrderIds : HandleVenueAck(o, v)
                    \/ HandleVenueSubmitFailed(o)
                    \/ HandleVenueCancelled(o)
                    \/ \E qty \in FillQtys : HandleFill(o, qty)
             PROVE  SameIds(core, core')
  BY DEF HandleVenueEvent
<1>t. core \in State
  BY DEF TypeOK
<1>o. core.orders[o] # None /\ core.orders[o] \in OrderRecord
  <2>1. core.orders[o] # None
    BY DEF HandleVenueAck, HandleVenueSubmitFailed, HandleVenueCancelled, HandleFill, InState,
           FillAccepted
  <2> QED BY <1>t, <2>1 DEF State
<1>1. CASE \E v \in VenueOrderIds : HandleVenueAck(o, v)
  <2>1. PICK v \in VenueOrderIds : HandleVenueAck(o, v)
    BY <1>1
  <2> DEFINE r == [core.orders[o] EXCEPT !.state = "Submitted", !.venue_order_id = v]
  <2>2. r \in OrderRecord /\ r.client_order_id = core.orders[o].client_order_id
    BY <1>o DEF OrderRecord, OrderState
  <2>3. core' = [core EXCEPT !.orders[o] = r]
    BY <2>1 DEF HandleVenueAck, Commit
  <2> HIDE DEF r
  <2> QED BY <1>t, <1>o, <2>2, <2>3, OrderUpdateKeepsIds
<1>2. ASSUME NEW state \in OrderState, core' = [core EXCEPT !.orders[o].state = state]
      PROVE  SameIds(core, core')
  <2> DEFINE r == [core.orders[o] EXCEPT !.state = state]
  <2>1. r \in OrderRecord /\ r.client_order_id = core.orders[o].client_order_id
    BY <1>o DEF OrderRecord
  <2>2. core' = [core EXCEPT !.orders[o] = r]
    BY <1>2
  <2> HIDE DEF r
  <2> QED BY <1>t, <1>o, <2>1, <2>2, OrderUpdateKeepsIds
<1>3. CASE HandleVenueSubmitFailed(o) \/ HandleVenueCancelled(o)
  BY <1>2, <1>3 DEF HandleVenueSubmitFailed, HandleVenueCancelled, Commit, OrderState
<1>4. CASE \E qty \in FillQtys : HandleFill(o, qty)
  <2>1. PICK qty \in FillQtys : HandleFill(o, qty)
    BY <1>4
  <2> DEFINE total == core.orders[o].filled + qty
             state == IF total = Qty[o] THEN "Filled" ELSE "PartiallyFilled"
             r     == [core.orders[o] EXCEPT !.filled = total, !.state = state]
  <2>2. total \in Nat
    BY <1>o, EngineStateAssumption DEF OrderRecord
  <2>3. state \in OrderState
    BY DEF OrderState
  <2>4. core' = [core EXCEPT !.orders[o] = r]
    BY <2>1 DEF HandleFill, Commit, WithFill
  <2> HIDE DEF total, state
  <2>5. r \in OrderRecord /\ r.client_order_id = core.orders[o].client_order_id
    BY <1>o, <2>2, <2>3 DEF OrderRecord
  <2> HIDE DEF r
  <2> QED BY <1>t, <1>o, <2>4, <2>5, OrderUpdateKeepsIds
<1> QED BY <1>1, <1>3, <1>4

\* No operator command does.
LEMMA OperatorCommandKeepsIds ==
  ASSUME TypeOK, HandleOperatorCommand
  PROVE  SameIds(core, core')
<1>t. core \in State
  BY DEF TypeOK
<1>1. ASSUME core' = core \/ \E b : core' = [core EXCEPT !.book = b]
      PROVE  SameIds(core, core')
  BY <1>1, <1>t DEF SameIds, State
<1>2. ASSUME \E statuses : core' = [core EXCEPT !.agent_statuses = statuses]
      PROVE  SameIds(core, core')
  BY <1>2, <1>t DEF SameIds, State
<1>3. CASE HandleReconciliation \/ HandleUnjournaled
  BY <1>1, <1>3 DEF HandleReconciliation, HandleUnjournaled, Commit
<1>4. CASE HandleResetCircuitBreaker \/ HandleWithoutCommit \/ HandleShutdown
  BY <1>1, <1>4 DEF HandleResetCircuitBreaker, HandleWithoutCommit, HandleShutdown, Commit, NoCommit
<1>5. CASE HandleHaltAll
  BY <1>2, <1>5 DEF HandleHaltAll, Commit
<1>6. CASE \E a \in Agents : HandlePauseAgent(a) \/ HandleResumeAgent(a)
  BY <1>2, <1>6 DEF HandlePauseAgent, HandleResumeAgent, Commit
<1> QED BY <1>3, <1>4, <1>5, <1>6 DEF HandleOperatorCommand

\* An order submission files the ack of its order, if it accepts it.
LEMMA SubmitFilesAck ==
  ASSUME AckInv, NEW o \in OrderIds, HandleSubmitOrder(o)
  PROVE  CoreIsFiled' /\ CountersAhead'
<1>1. /\ TypeOK /\ core \in State /\ generators \in [Agents -> Nat] /\ restart_epoch \in Nat
      /\ core.idempotency_cache \subseteq OrderAck
  BY DEF AckInv, IInv, TypeOK, State
<1>2. mode' = mode /\ mode # "stopped"
  BY DEF HandleSubmitOrder, Take, NextCommand, Idle
<1>3. /\ AcksAreFiled(core)
      /\ \A a \in core.idempotency_cache : a.client_order_id.seq < generators[a.client_order_id.agent]
  BY <1>2 DEF AckInv, CoreIsFiled, CountersAhead
<1>4. AgentOf[o] \in Agents
  BY EngineStateAssumption
<1>5. \A a \in core.idempotency_cache :
        /\ a.client_order_id \in ClientOrderId /\ a.client_order_id.seq \in Nat
        /\ a.client_order_id.agent \in Agents
  BY <1>1 DEF OrderAck, ClientOrderId
<1>6. CASE ReturnCachedAck(o) \/ RejectByRisk(o)
  <2>1. core' = core /\ generators' = generators
    BY <1>6 DEF ReturnCachedAck, RejectByRisk, Commit, NoCommit
  <2> QED BY <1>3, <2>1 DEF CoreIsFiled, CountersAhead
<1>7. ASSUME generators' = [generators EXCEPT ![AgentOf[o]] = @ + 1]
      PROVE  /\ \A a \in core.idempotency_cache :
                   a.client_order_id.seq < generators'[a.client_order_id.agent]
             /\ generators'[AgentOf[o]] = generators[AgentOf[o]] + 1
  <2>1. \A a \in Agents : /\ generators[a] \in Nat /\ generators'[a] \in Nat
                          /\ generators[a] <= generators'[a]
    BY <1>1, <1>4, <1>7
  <2>2. generators'[AgentOf[o]] = generators[AgentOf[o]] + 1
    BY <1>1, <1>4, <1>7
  <2>3. ASSUME NEW a \in core.idempotency_cache
        PROVE  a.client_order_id.seq < generators'[a.client_order_id.agent]
    BY <1>3, <1>5, <2>1
  <2> QED BY <2>2, <2>3
<1>8. CASE RejectByRoute(o)
  <2>1. core' = core /\ generators' = [generators EXCEPT ![AgentOf[o]] = @ + 1]
    BY <1>8 DEF RejectByRoute, Commit
  <2> QED BY <1>3, <1>7, <2>1 DEF CoreIsFiled, CountersAhead
<1>9. CASE AcceptAndRoute(o)
  <2> DEFINE cid == NextClientOrderId(AgentOf[o])
             ack == [order_id |-> o, client_order_id |-> cid]
  <2>1. core' = WithOrder(core, o, cid) /\ generators' = [generators EXCEPT ![AgentOf[o]] = @ + 1]
    BY <1>9 DEF AcceptAndRoute, Commit
  <2>2. cid.agent = AgentOf[o] /\ cid.seq = generators[AgentOf[o]] /\ cid \in ClientOrderId
    BY <1>1, <1>4 DEF NextClientOrderId, ClientOrderId
  <2>3. ack.client_order_id = cid
    OBVIOUS
  <2> HIDE DEF cid, ack
  <2>4. \A a \in core.idempotency_cache : a.client_order_id # cid
    <3> SUFFICES ASSUME NEW a \in core.idempotency_cache, a.client_order_id = cid
                 PROVE  FALSE
      OBVIOUS
    <3>1. cid.seq < generators[cid.agent] /\ cid.seq \in Nat
      BY <1>3, <1>5
    <3> QED BY <2>2, <3>1
  <2>5. AcksAreFiled(core') /\ core'.idempotency_cache = core.idempotency_cache \cup {ack}
    BY <1>1, <1>3, <2>1, <2>2, <2>4, WithOrderFiled DEF ack
  <2>6. ack.client_order_id.seq < generators'[ack.client_order_id.agent]
    <3>1. generators'[AgentOf[o]] = generators[AgentOf[o]] + 1 /\ generators[AgentOf[o]] \in Nat
      BY <1>1, <1>4, <1>7, <2>1
    <3> QED BY <2>2, <2>3, <3>1
  <2> QED BY <1>7, <2>1, <2>5, <2>6 DEF CoreIsFiled, CountersAhead
<1> QED BY <1>6, <1>8, <1>9 DEF HandleSubmitOrder

\* Steps other than a start, a submission and a completed commit.
LEMMA AckFrame ==
  ASSUME TypeOK, [Next]_vars, ~ Bootstrap, ~ \E o \in OrderIds : HandleSubmitOrder(o),
         ~ PersistCommit, ~ PersistSnapshot
  PROVE  /\ SameIds(core, core') /\ snapshots' = snapshots
         /\ mode' # "stopped" => mode # "stopped"
<1>1. ASSUME core' = core PROVE SameIds(core, core')
  BY <1>1 DEF SameIds
<1>2. CASE UNCHANGED vars
  BY <1>1, <1>2 DEF vars, engineVars, journalVars
<1>3. CASE HandleVenueEvent
  <2>1. Handle
    BY <1>3 DEF Handle
  <2> QED BY <1>3, <2>1, HandleStep, VenueEventKeepsIds DEF HandlerStep, journalVars, Idle
<1>4. CASE HandleOperatorCommand
  <2>1. Handle
    BY <1>4 DEF Handle
  <2> QED BY <1>4, <2>1, HandleStep, OperatorCommandKeepsIds DEF HandlerStep, journalVars, Idle
<1>5. CASE PollHighPriority \/ WaitForCommand \/ FinishShutdown \/ PersistEvents
  BY <1>1, <1>5 DEF PollHighPriority, WaitForCommand, PersistEvents, AppendBatch, PersistRows,
                    FinishShutdown, Stop, journalVars
<1>6. CASE Fault
  BY <1>1, <1>6 DEF Fault, CommandFails, PersistFails, HandlesDropped, Crash, Stop, journalVars
<1>7. CASE Environment
  BY <1>1, <1>7 DEF Environment, SendOffered, Send, TakeRouted, DropReceiver, engineVars, journalVars
<1> QED BY <1>2, <1>3, <1>4, <1>5, <1>6, <1>7 DEF Next, Step, Handle, Persist

\* Every step keeps the acks filed, in memory and on disk, and the counters ahead of them.
LEMMA AcksKept ==
  ASSUME AckInv, [Next]_vars, IInv'
  PROVE  CoreIsFiled' /\ DurableIsFiled' /\ CountersAhead'
<1>1. IInv /\ TypeOK /\ AcksAreFiled(core) /\ AcksAreFiled(Recovered.state)
  BY DEF AckInv, IInv, CoreIsFiled, DurableIsFiled
<1>2. snapshots' = snapshots => DurableIsFiled'
  BY <1>1, RecoveredUnchanged DEF DurableIsFiled
<1>3. CASE Bootstrap
  <2>1. /\ core' = Recovered.state /\ snapshots' = snapshots
        /\ generators' \in RestoredGenerators(Recovered)
    BY <1>3 DEF Bootstrap, journalVars
  <2>2. core' \in State
    BY DEF IInv, TypeOK
  <2>3. ASSUME NEW a \in core'.idempotency_cache
        PROVE  a.client_order_id.seq < generators'[a.client_order_id.agent]
    <3>1. a \in OrderAck
      BY <2>2 DEF State
    <3>2. a.client_order_id.agent \in Agents
      BY <3>1 DEF OrderAck, ClientOrderId
    <3>3. NextAfterCached(generators'[a.client_order_id.agent], a.client_order_id.agent,
                          core'.idempotency_cache)
      BY <2>1, <3>2 DEF RestoredGenerators
    <3> QED BY <3>3 DEF NextAfterCached
  <2> QED BY <1>1, <1>2, <2>1, <2>3 DEF CoreIsFiled, CountersAhead
<1>4. CASE \E o \in OrderIds : HandleSubmitOrder(o)
  <2>1. snapshots' = snapshots
    BY <1>4 DEF HandleSubmitOrder, Take, journalVars
  <2> QED BY <1>2, <1>4, <2>1, SubmitFilesAck
<1>5. CASE PersistCommit \/ PersistSnapshot
  <2>1. /\ commit # None /\ core' = [core EXCEPT !.last_sequence_id = commit.snapshot.sequence_id]
        /\ commit' = None /\ mode' = mode /\ generators' = generators
    BY <1>5 DEF PersistCommit, PersistSnapshot, Committed
  <2>2. mode # "stopped"
    BY <1>1, <2>1 DEF IInv, CommitIsNext
  <2>3. core' = Recovered'.state
    BY <2>1, <2>2 DEF IInv, CacheIsDurable, CoreIsCached
  <2>4. core \in State
    BY <1>1 DEF TypeOK
  <2>5. SameIds(core, core')
    BY <2>1, <2>4 DEF SameIds, State
  <2>6. AcksAreFiled(core')
    BY <1>1, <2>5, SameIdsFiled
  <2> QED BY <2>1, <2>2, <2>3, <2>5, <2>6
          DEF AckInv, CoreIsFiled, DurableIsFiled, CountersAhead, SameIds
<1>6. CASE /\ ~ Bootstrap /\ ~ \E o \in OrderIds : HandleSubmitOrder(o)
           /\ ~ PersistCommit /\ ~ PersistSnapshot
  <2>1. /\ SameIds(core, core') /\ snapshots' = snapshots /\ generators' = generators
        /\ mode' # "stopped" => mode # "stopped"
    BY <1>1, <1>6, AckFrame, IdFrame
  <2>2. AcksAreFiled(core')
    BY <1>1, <2>1, SameIdsFiled
  <2> QED BY <1>2, <2>1, <2>2 DEF AckInv, CoreIsFiled, CountersAhead, SameIds
<1> QED BY <1>3, <1>4, <1>5, <1>6

\* The invariant of the acks holds before the first start.
LEMMA InitAckInvariant == Init => AckInv
<1> SUFFICES ASSUME Init PROVE AckInv
  OBVIOUS
<1>1. IInv
  BY InitInvariant
<1>2. AcksAreFiled(EmptyState)
  BY DEF AcksAreFiled, EmptyState
<1>3. snapshots = {} /\ core = EmptyState /\ mode = "stopped"
  BY DEF Init, JournalInit
<1>4. Recovered.state = EmptyState
  <2>1. snapshots \subseteq SnapshotRow /\ OneSnapshot
    BY <1>1 DEF IInv, TypeOK
  <2>2. Recovered = [sequence_id |-> 0, state |-> EmptyState]
    BY <1>3, <2>1, RecoveredFacts
  <2> QED BY <2>2
<1>5. CoreIsFiled /\ DurableIsFiled
  BY <1>2, <1>3, <1>4 DEF CoreIsFiled, DurableIsFiled
<1> QED BY <1>1, <1>3, <1>5 DEF AckInv, CountersAhead

\* It holds throughout every behaviour.
LEMMA AckInvariant == Spec => []AckInv
<1>1. AckInv /\ [Next]_vars => AckInv'
  BY AcksKept, NextInvariant DEF AckInv
<1> QED BY InitAckInvariant, <1>1, PTL DEF Spec

\* Whatever epochs the starts pass, every known order finds its own ack in the
\* idempotency cache and no other: a resubmission is answered with the id the
\* order was dispatched under, and never evicts another order's ack.
THEOREM OrdersKeepTheirAcks == Spec => []EveryOrderKeepsItsAck
<1>1. AckInv => EveryOrderKeepsItsAck
  BY FiledMeansOwnAck DEF AckInv, IInv, TypeOK, CoreIsFiled, EveryOrderKeepsItsAck
<1> QED BY <1>1, AckInvariant, PTL

\* A step that puts an order on the submit channel finds it not durable yet.
LEMMA DispatchStepIsFirst ==
  ASSUME AckInv, [Next]_vars, NEW r \in dispatched' \ dispatched
  PROVE  Durable.state.orders[r.order_id] = None
<1>1. ~ Bootstrap
  BY DEF Bootstrap
<1>2. PICK o \in OrderIds : HandleSubmitOrder(o)
  BY <1>1, IdFrame
<1>3. AcceptAndRoute(o)
  BY <1>2 DEF HandleSubmitOrder, ReturnCachedAck, RejectByRisk, RejectByRoute
<1>4. r.order_id = o
  BY <1>3 DEF AcceptAndRoute
<1>5. mode # "stopped" /\ commit = None
  BY <1>2 DEF HandleSubmitOrder, Take, NextCommand, Idle
<1>6. core = Recovered.state /\ core \in State /\ AcksAreFiled(core)
  BY <1>5 DEF AckInv, IInv, TypeOK, CoreIsCached, CacheIsDurable, CoreIsFiled
<1>7. ExistingAcks(core, o) = {}
  BY <1>3 DEF AcceptAndRoute
<1>8. core.orders[o] = None
  BY <1>6, <1>7, FiledMeansOwnAck
<1> QED BY <1>4, <1>6, <1>8 DEF Durable

\* A durable order is never sent to the submit channel again, however often it is
\* resubmitted and however often the engine restarts.
THEOREM DurableOrdersNotRedispatched == Spec => DurableOrderNotRedispatched
<1>1. AckInv /\ [Next]_vars =>
        [\A r \in dispatched' \ dispatched : Durable.state.orders[r.order_id] = None]_vars
  BY DispatchStepIsFirst
<1> QED BY <1>1, AckInvariant, PTL DEF Spec, DurableOrderNotRedispatched

-----------------------------------------------------------------------------
(* No order goes to the submit channel twice between two starts *)

\* While an epoch lasts, an order is dispatched once.
DispatchedOncePerEpoch ==
  \A d, e \in dispatched :
    d.order_id = e.order_id /\ d.client_order_id.epoch = e.client_order_id.epoch => d = e

\* What this incarnation dispatched is in its memory.
DispatchedAreKnown ==
  mode # "stopped" =>
    \A d \in dispatched : d.client_order_id.epoch = restart_epoch => core.orders[d.order_id] # None

\* A record names the latest dispatch of its order: any other is from an earlier epoch.
RecordIsLatest(st) ==
  \A d \in dispatched : st.orders[d.order_id] # None =>
    \/ d.client_order_id = st.orders[d.order_id].client_order_id
    \/ d.client_order_id.epoch < st.orders[d.order_id].client_order_id.epoch

CoreIsLatest == RecordIsLatest(core)

DurableIsLatest == RecordIsLatest(Recovered.state)

OnceInv ==
  AckInv /\ IdInv /\ DispatchedAreKnown /\ DispatchedOncePerEpoch /\ CoreIsLatest /\ DurableIsLatest

\* Every step keeps dispatched orders known, and so dispatched once.
LEMMA OnceKept ==
  ASSUME FreshEpoch, OnceInv, [Next]_vars
  PROVE  DispatchedAreKnown' /\ DispatchedOncePerEpoch'
<1>1. /\ IInv /\ TypeOK /\ restart_epoch \in Nat /\ dispatched \subseteq OrderAck /\ core \in State
      /\ AcksAreFiled(core)
  BY DEF OnceInv, AckInv, IInv, TypeOK, CoreIsFiled
<1>2. \A d \in OrderAck : d.order_id \in OrderIds /\ d.client_order_id.epoch \in Nat
  BY DEF OrderAck, ClientOrderId
<1>3. CASE Bootstrap
  <2>1. restart_epoch' = restart_epoch + 1 /\ dispatched' = dispatched
    BY <1>3 DEF Bootstrap
  <2>2. ASSUME NEW d \in dispatched
        PROVE  d.client_order_id.epoch # restart_epoch + 1
    <3>1. d.client_order_id.epoch <= restart_epoch /\ d.client_order_id.epoch \in Nat
      BY <1>1, <1>2 DEF OnceInv, IdInv, IdsAreSpent
    <3> QED BY <1>1, <3>1
  <2> QED BY <2>1, <2>2 DEF OnceInv, DispatchedAreKnown, DispatchedOncePerEpoch
<1>4. CASE \E o \in OrderIds : HandleSubmitOrder(o)
  <2>1. PICK o \in OrderIds : HandleSubmitOrder(o)
    BY <1>4
  <2>2. restart_epoch' = restart_epoch /\ mode' = mode /\ mode # "stopped"
    BY <1>1, <2>1, SubmitSpendsOneId DEF HandleSubmitOrder, Take, NextCommand, Idle
  <2>3. CASE ReturnCachedAck(o) \/ RejectByRisk(o) \/ RejectByRoute(o)
    <3>1. core' = core /\ dispatched' = dispatched
      BY <2>3 DEF ReturnCachedAck, RejectByRisk, RejectByRoute, Commit, NoCommit
    <3> QED BY <2>2, <3>1 DEF OnceInv, DispatchedAreKnown, DispatchedOncePerEpoch
  <2>4. CASE AcceptAndRoute(o)
    <3> DEFINE cid    == NextClientOrderId(AgentOf[o])
               routed == [order_id |-> o, client_order_id |-> cid]
    <3>1. /\ dispatched' \subseteq dispatched \cup {routed}
          /\ core' = WithOrder(core, o, cid) /\ ExistingAcks(core, o) = {}
      BY <2>4 DEF AcceptAndRoute, Commit
    <3>2. core.orders[o] = None
      BY <1>1, <3>1, FiledMeansOwnAck
    <3>3. /\ core'.orders[o] # None
          /\ \A p \in OrderIds : core.orders[p] # None => core'.orders[p] # None
      <4>1. cid \in ClientOrderId
        BY <1>1, EngineStateAssumption DEF NextClientOrderId, ClientOrderId, TypeOK
      <4> DEFINE r == [state |-> "Pending", client_order_id |-> cid, venue_order_id |-> None,
                       filled |-> 0]
      <4>2. r # None
        BY <4>1, SequencerAssumption DEF OrderRecord, OrderState
      <4>3. \A p \in OrderIds : core'.orders[p] = IF p = o THEN r ELSE core.orders[p]
        <5> HIDE DEF cid
        <5> QED BY <1>1, <3>1 DEF WithOrder, State
      <4> HIDE DEF r
      <4> QED BY <4>2, <4>3
    <3>4. routed.order_id = o /\ routed.client_order_id.epoch = restart_epoch
      BY DEF NextClientOrderId
    <3> HIDE DEF cid, routed
    <3>5. \A d \in dispatched : d.order_id = o => d.client_order_id.epoch # restart_epoch
      BY <2>2, <3>2 DEF OnceInv, DispatchedAreKnown
    <3>6. DispatchedAreKnown'
      BY <1>1, <1>2, <2>2, <3>1, <3>3, <3>4 DEF OnceInv, DispatchedAreKnown
    <3>7. DispatchedOncePerEpoch'
      BY <3>1, <3>4, <3>5 DEF OnceInv, DispatchedOncePerEpoch
    <3> QED BY <3>6, <3>7
  <2> QED BY <2>1, <2>3, <2>4 DEF HandleSubmitOrder
<1>5. CASE ~ Bootstrap /\ ~ \E o \in OrderIds : HandleSubmitOrder(o)
  <2>1. UNCHANGED <<restart_epoch, dispatched>>
    BY <1>5, IdFrame
  <2>2. /\ \A p \in OrderIds : core.orders[p] # None => core'.orders[p] # None
        /\ mode' # "stopped" => mode # "stopped"
    <3>1. CASE PersistCommit \/ PersistSnapshot
      <4>1. core' = [core EXCEPT !.last_sequence_id = commit.snapshot.sequence_id] /\ mode' = mode
        BY <3>1 DEF PersistCommit, PersistSnapshot, Committed
      <4> QED BY <1>1, <4>1 DEF State
    <3>2. CASE ~ PersistCommit /\ ~ PersistSnapshot
      BY <1>1, <1>5, <3>2, AckFrame DEF SameIds
    <3> QED BY <3>1, <3>2
  <2> QED BY <1>1, <1>2, <2>1, <2>2 DEF OnceInv, DispatchedAreKnown, DispatchedOncePerEpoch
<1> QED BY <1>3, <1>4, <1>5

\* Every step keeps records the latest, in memory and on disk.
LEMMA LatestKept ==
  ASSUME FreshEpoch, OnceInv, [Next]_vars, IInv'
  PROVE  CoreIsLatest' /\ DurableIsLatest'
<1>1. /\ IInv /\ AckInv /\ TypeOK /\ dispatched \subseteq OrderAck /\ dispatched' \subseteq OrderAck
      /\ core \in State /\ AcksAreFiled(core) /\ RecordIsLatest(core) /\ RecordIsLatest(Recovered.state)
  BY DEF OnceInv, AckInv, IInv, TypeOK, CoreIsFiled, CoreIsLatest, DurableIsLatest
<1>2. \A d \in OrderAck : d.order_id \in OrderIds /\ d.client_order_id.epoch \in Nat
  BY DEF OrderAck, ClientOrderId
<1>3. snapshots' = snapshots => DurableIsLatest'
  <2> SUFFICES ASSUME snapshots' = snapshots, NEW d \in dispatched', Recovered.state.orders[d.order_id] # None
               PROVE  d \in dispatched
    BY <1>1, RecoveredUnchanged DEF DurableIsLatest, RecordIsLatest
  <2> QED BY <1>1, DispatchStepIsFirst DEF Durable
<1>4. CASE Bootstrap
  <2>1. core' = Recovered.state /\ snapshots' = snapshots /\ dispatched' = dispatched
    BY <1>4 DEF Bootstrap, journalVars
  <2> QED BY <1>1, <1>3, <2>1 DEF CoreIsLatest, RecordIsLatest
<1>5. CASE \E o \in OrderIds : HandleSubmitOrder(o)
  <2>1. PICK o \in OrderIds : HandleSubmitOrder(o)
    BY <1>5
  <2>2. snapshots' = snapshots /\ mode # "stopped"
    BY <2>1 DEF HandleSubmitOrder, Take, journalVars, NextCommand, Idle
  <2>3. CASE ReturnCachedAck(o) \/ RejectByRisk(o) \/ RejectByRoute(o)
    <3>1. core' = core /\ dispatched' = dispatched
      BY <2>3 DEF ReturnCachedAck, RejectByRisk, RejectByRoute, Commit, NoCommit
    <3> QED BY <1>1, <1>3, <2>2, <3>1 DEF CoreIsLatest, RecordIsLatest
  <2>4. CASE AcceptAndRoute(o)
    <3> DEFINE cid    == NextClientOrderId(AgentOf[o])
               routed == [order_id |-> o, client_order_id |-> cid]
    <3>1. /\ dispatched' \subseteq dispatched \cup {routed}
          /\ core' = WithOrder(core, o, cid) /\ ExistingAcks(core, o) = {}
      BY <2>4 DEF AcceptAndRoute, Commit
    <3>2. core.orders[o] = None
      BY <1>1, <3>1, FiledMeansOwnAck
    <3>3. /\ core'.orders[o].client_order_id = cid
          /\ \A p \in OrderIds : p # o => core'.orders[p] = core.orders[p]
      <4> HIDE DEF cid
      <4> QED BY <1>1, <3>1 DEF WithOrder, State
    <3>4. routed.order_id = o /\ routed.client_order_id = cid /\ cid.epoch = restart_epoch
      BY DEF NextClientOrderId
    <3> HIDE DEF cid, routed
    <3>5. \A d \in dispatched : d.order_id = o => d.client_order_id.epoch < cid.epoch
      <4>1. \A d \in dispatched : d.order_id = o => d.client_order_id.epoch # restart_epoch
        BY <2>2, <3>2 DEF OnceInv, DispatchedAreKnown
      <4>2. restart_epoch \in Nat
        BY <1>1 DEF TypeOK
      <4>3. \A d \in dispatched : d.client_order_id.epoch <= restart_epoch
        BY DEF OnceInv, IdInv, IdsAreSpent
      <4> QED BY <1>1, <1>2, <3>4, <4>1, <4>2, <4>3
    <3>6. CoreIsLatest'
      BY <1>1, <1>2, <3>1, <3>3, <3>4, <3>5 DEF CoreIsLatest, RecordIsLatest
    <3> QED BY <1>3, <2>2, <3>6
  <2> QED BY <2>1, <2>3, <2>4 DEF HandleSubmitOrder
<1>6. CASE ~ Bootstrap /\ ~ \E o \in OrderIds : HandleSubmitOrder(o)
  <2>1. dispatched' = dispatched
    BY <1>6, IdFrame
  <2>2. CASE PersistCommit \/ PersistSnapshot
    <3>1. /\ commit # None /\ core' = [core EXCEPT !.last_sequence_id = commit.snapshot.sequence_id]
          /\ commit' = None /\ mode' = mode
      BY <2>2 DEF PersistCommit, PersistSnapshot, Committed
    <3>2. core' = Recovered'.state
      <4>1. mode # "stopped"
        BY <1>1, <3>1 DEF IInv, CommitIsNext
      <4> QED BY <3>1, <4>1 DEF IInv, CacheIsDurable, CoreIsCached
    <3>3. SameIds(core, core')
      BY <1>1, <3>1 DEF SameIds, State, TypeOK
    <3>4. RecordIsLatest(core)' 
      BY <1>1, <1>2, <2>1, <3>3 DEF RecordIsLatest, SameIds
    <3> QED BY <3>2, <3>4 DEF CoreIsLatest, DurableIsLatest, RecordIsLatest
  <2>3. CASE ~ PersistCommit /\ ~ PersistSnapshot
    <3>1. SameIds(core, core') /\ snapshots' = snapshots
      BY <1>1, <1>6, <2>3, AckFrame
    <3> QED BY <1>1, <1>2, <1>3, <2>1, <3>1 DEF CoreIsLatest, RecordIsLatest, SameIds
  <2> QED BY <2>2, <2>3
<1> QED BY <1>4, <1>5, <1>6

\* It holds before the first start.
LEMMA InitOnceInvariant == Init => OnceInv
BY InitAckInvariant, InitInvariant
   DEF Init, OnceInv, IdInv, IdsAreSpent, ClientOrderIdNamesOneOrder, DispatchedAreKnown,
       DispatchedOncePerEpoch, CoreIsLatest, DurableIsLatest, RecordIsLatest

\* It holds throughout every behaviour.
LEMMA OnceInvariant ==
  ASSUME FreshEpoch
  PROVE  Spec => []OnceInv
<1>1. OnceInv /\ [Next]_vars => OnceInv'
  BY OnceKept, LatestKept, IdsKept, AcksKept, NextInvariant DEF OnceInv, IdInv, AckInv
<1> QED BY <1>1, InitOnceInvariant, PTL DEF Spec

\* An order that clients submit again and again goes to the submit channel once
\* while a process lives.  It is dispatched a second time only after a restart
\* that does not know it, under a later epoch, and the record then names the
\* later dispatch.
THEOREM RecordsNameTheLatestDispatch ==
  ASSUME FreshEpoch
  PROVE  Spec => [](DispatchedOncePerEpoch /\ RecordIsLatest(Durable.state))
<1>1. OnceInv => DispatchedOncePerEpoch /\ RecordIsLatest(Durable.state)
  BY DEF OnceInv, DurableIsLatest, Durable
<1> QED BY <1>1, OnceInvariant, PTL

-----------------------------------------------------------------------------
(* Recorded orders were dispatched *)

\* A running sequencer has a submit channel.
ChannelIsWired == mode # "stopped" => venue_submit_tx # "none"

\* Every order of the state was put on the submit channel under its id.
WasDispatched(st) ==
  \A o \in OrderIds : st.orders[o] # None =>
    [order_id |-> o, client_order_id |-> st.orders[o].client_order_id] \in dispatched

CoreWasDispatched == WasDispatched(core)

DurableWasDispatched == WasDispatched(Recovered.state)

DispatchInv == IInv /\ ChannelIsWired /\ CoreWasDispatched /\ DurableWasDispatched

\* Dispatches are never forgotten.
LEMMA DispatchesStay ==
  ASSUME TypeOK, [Next]_vars
  PROVE  dispatched \subseteq dispatched'
<1>1. CASE Bootstrap
  BY <1>1 DEF Bootstrap
<1>2. CASE \E o \in OrderIds : HandleSubmitOrder(o)
  BY <1>2 DEF HandleSubmitOrder, ReturnCachedAck, RejectByRisk, RejectByRoute, AcceptAndRoute
<1> QED BY <1>1, <1>2, IdFrame

\* Only a start and the end of the submit task change the wiring.
LEMMA WiringKept ==
  ASSUME "none" \notin Wirings, TypeOK, ChannelIsWired, [Next]_vars
  PROVE  ChannelIsWired'
<1>1. CASE Bootstrap
  BY <1>1 DEF Bootstrap, ChannelIsWired
<1>2. CASE Handle
  BY <1>2, HandleStep DEF HandlerStep, Idle, ChannelIsWired
<1>3. CASE PollHighPriority \/ WaitForCommand \/ Persist \/ FinishShutdown
  BY <1>3 DEF PollHighPriority, WaitForCommand, Persist, PersistCommit, PersistEvents,
              PersistSnapshot, Committed, FinishShutdown, Stop, channelVars, ChannelIsWired
<1>4. CASE Fault
  BY <1>4 DEF Fault, CommandFails, PersistFails, HandlesDropped, Crash, Stop, ChannelIsWired
<1>5. CASE Environment
  BY <1>5 DEF Environment, SendOffered, Send, TakeRouted, DropReceiver, engineVars, ChannelIsWired
<1>6. CASE UNCHANGED vars
  BY <1>6 DEF vars, engineVars, channelVars, ChannelIsWired
<1> QED BY <1>1, <1>2, <1>3, <1>4, <1>5, <1>6 DEF Next, Step

\* A submission records an order only once it is on the channel.
LEMMA SubmitDispatches ==
  ASSUME DispatchInv, NEW o \in OrderIds, HandleSubmitOrder(o)
  PROVE  CoreWasDispatched'
<1>1. core \in State /\ venue_submit_tx # "none" /\ WasDispatched(core)
  BY DEF DispatchInv, IInv, TypeOK, ChannelIsWired, CoreWasDispatched, HandleSubmitOrder, Take,
         NextCommand, Idle
<1>2. CASE ReturnCachedAck(o) \/ RejectByRisk(o) \/ RejectByRoute(o)
  <2>1. core' = core /\ dispatched' = dispatched
    BY <1>2 DEF ReturnCachedAck, RejectByRisk, RejectByRoute, Commit, NoCommit
  <2> QED BY <1>1, <2>1 DEF CoreWasDispatched, WasDispatched
<1>3. CASE AcceptAndRoute(o)
  <2> DEFINE cid == NextClientOrderId(AgentOf[o])
             r   == [state |-> "Pending", client_order_id |-> cid, venue_order_id |-> None,
                     filled |-> 0]
  <2>1. dispatched' = dispatched \cup {[order_id |-> o, client_order_id |-> cid]}
    BY <1>1, <1>3 DEF AcceptAndRoute
  <2>2. core' = WithOrder(core, o, cid)
    BY <1>3 DEF AcceptAndRoute, Commit
  <2>3. r.client_order_id = cid
    OBVIOUS
  <2>4. \A p \in OrderIds : core'.orders[p] = IF p = o THEN r ELSE core.orders[p]
    BY <1>1, <2>2 DEF WithOrder, State
  <2> HIDE DEF cid, r
  <2> QED BY <1>1, <2>1, <2>3, <2>4 DEF CoreWasDispatched, WasDispatched
<1> QED BY <1>2, <1>3 DEF HandleSubmitOrder

\* Every step keeps recorded orders dispatched, in memory and on disk.
LEMMA DispatchKept ==
  ASSUME "none" \notin Wirings, DispatchInv, [Next]_vars, IInv'
  PROVE  DispatchInv'
<1>1. IInv /\ TypeOK /\ WasDispatched(core) /\ WasDispatched(Recovered.state)
  BY DEF DispatchInv, IInv, CoreWasDispatched, DurableWasDispatched
<1>2. ChannelIsWired' /\ dispatched \subseteq dispatched'
  BY <1>1, WiringKept, DispatchesStay DEF DispatchInv
<1>3. snapshots' = snapshots => DurableWasDispatched'
  BY <1>1, <1>2, RecoveredUnchanged DEF DurableWasDispatched, WasDispatched
<1>4. CASE Bootstrap
  <2>1. core' = Recovered.state /\ snapshots' = snapshots /\ dispatched' = dispatched
    BY <1>4 DEF Bootstrap, journalVars
  <2>2. CoreWasDispatched'
    BY <1>1, <2>1 DEF CoreWasDispatched, WasDispatched
  <2> QED BY <1>2, <1>3, <2>1, <2>2 DEF DispatchInv
<1>5. CASE \E o \in OrderIds : HandleSubmitOrder(o)
  <2>1. snapshots' = snapshots
    BY <1>5 DEF HandleSubmitOrder, Take, journalVars
  <2> QED BY <1>2, <1>3, <1>5, <2>1, SubmitDispatches DEF DispatchInv
<1>6. CASE PersistCommit \/ PersistSnapshot
  <2>1. /\ commit # None /\ core' = [core EXCEPT !.last_sequence_id = commit.snapshot.sequence_id]
        /\ commit' = None /\ mode' = mode
    BY <1>6 DEF PersistCommit, PersistSnapshot, Committed
  <2>2. mode # "stopped"
    BY <1>1, <2>1 DEF IInv, CommitIsNext
  <2>3. core' = Recovered'.state
    BY <2>1, <2>2 DEF IInv, CacheIsDurable, CoreIsCached
  <2>4. SameIds(core, core')
    BY <1>1, <2>1 DEF SameIds, State, TypeOK
  <2>5. CoreWasDispatched'
    BY <1>1, <1>2, <2>4 DEF SameIds, WasDispatched, CoreWasDispatched
  <2> QED BY <1>2, <2>3, <2>5 DEF DispatchInv, CoreWasDispatched, DurableWasDispatched
<1>7. CASE /\ ~ Bootstrap /\ ~ \E o \in OrderIds : HandleSubmitOrder(o)
           /\ ~ PersistCommit /\ ~ PersistSnapshot
  <2>1. SameIds(core, core') /\ snapshots' = snapshots
    BY <1>1, <1>7, AckFrame
  <2>2. CoreWasDispatched'
    BY <1>1, <1>2, <2>1 DEF SameIds, WasDispatched, CoreWasDispatched
  <2> QED BY <1>2, <1>3, <2>1, <2>2 DEF DispatchInv
<1> QED BY <1>4, <1>5, <1>6, <1>7

\* Nothing is recorded before the first start.
LEMMA InitDispatchInvariant == Init => DispatchInv
<1> SUFFICES ASSUME Init PROVE DispatchInv
  OBVIOUS
<1>1. IInv /\ snapshots = {} /\ core = EmptyState /\ mode = "stopped"
  BY InitInvariant DEF Init, JournalInit
<1>2. Recovered = [sequence_id |-> 0, state |-> EmptyState]
  BY <1>1, RecoveredFacts DEF IInv, TypeOK
<1>3. WasDispatched(EmptyState)
  BY DEF WasDispatched, EmptyState
<1> QED BY <1>1, <1>2, <1>3
        DEF DispatchInv, ChannelIsWired, CoreWasDispatched, DurableWasDispatched

\* When the sequencer is always given its submit channel, no order becomes
\* durable that was not handed to that channel first, under the id it is
\* recorded with.
THEOREM DurableOrdersWereDispatched == Spec => []DurableOrderWasDispatched
<1>1. CASE "none" \in Wirings
  <2>1. DurableOrderWasDispatched
    BY <1>1 DEF DurableOrderWasDispatched
  <2> QED BY <2>1, PTL
<1>2. CASE "none" \notin Wirings
  <2>2. DispatchInv /\ [Next]_vars => DispatchInv'
    <3>1. DispatchInv /\ [Next]_vars => IInv'
      BY NextInvariant DEF DispatchInv
    <3> QED BY <1>2, <3>1, DispatchKept
  <2>3. DispatchInv => DurableOrderWasDispatched
    BY DEF DispatchInv, DurableWasDispatched, WasDispatched, DurableOrderWasDispatched, Durable
  <2> QED BY InitDispatchInvariant, <2>2, <2>3, PTL DEF Spec
<1> QED BY <1>1, <1>2

-----------------------------------------------------------------------------
(* The journal explains the orders *)

\* A batch of events accounts for a change of state: an order it has no
\* lifecycle event for stays where it was, any other is where the event says.
Accounts(evs, st, new) ==
  \A o \in OrderIds :
    /\ (\A i \in DOMAIN evs : ~ IsLifecycle(evs[i], o)) =>
         /\ new.orders[o] = None <=> st.orders[o] = None
         /\ new.orders[o] # None => new.orders[o].state = st.orders[o].state
    /\ \A i \in DOMAIN evs : IsLifecycle(evs[i], o) =>
         /\ new.orders[o] # None
         /\ new.orders[o].state = EnteredState[evs[i].kind]

\* The commit in progress accounts for what it adds to the durable state.
CommitAccounts == commit # None => Accounts(commit.events, Recovered.state, core)

\* Rows beyond the snapshot are those of the commit in progress.
TailIsCommit ==
  mode # "stopped" =>
    \A r \in events : \/ r.sequence_id <= snapshot_cache.sequence_id
                      \/ commit # None /\ r \in CommitRows

ExplainInv == IInv /\ CommitAccounts /\ TailIsCommit /\ JournalExplainsOrders

\* The states the lifecycle events stand for, and the events that are none.
LEMMA LifecycleEvents ==
  /\ EnteredState["OrderRouted"] = "Pending" /\ EnteredState["OrderSubmitted"] = "Submitted"
  /\ EnteredState["OrderPartiallyFilled"] = "PartiallyFilled" /\ EnteredState["OrderFilled"] = "Filled"
  /\ EnteredState["OrderCancelled"] = "Cancelled" /\ EnteredState["OrderRejected"] = "Rejected"
  /\ \A o, of, kind : IsLifecycle(Happened(kind, of), o) <=>
       of = o /\ kind \in {"OrderRouted", "OrderSubmitted", "OrderPartiallyFilled", "OrderFilled",
                           "OrderCancelled", "OrderRejected"}
  /\ \A o, p : /\ ~ IsLifecycle(OrderRejected(p, "risk"), o)
               /\ ~ IsLifecycle(OrderRejected(p, "route"), o)
               /\ IsLifecycle(OrderRejected(p, "venue_submit"), o) <=> p = o
BY EngineStateAssumption DEF EnteredState, IsLifecycle, Happened, OrderRejected

\* The only event of a batch names the state of the one order that changed.
LEMMA OneOrderAccounted ==
  ASSUME NEW st \in State, NEW o \in OrderIds, NEW r \in OrderRecord, NEW e,
         IsLifecycle(e, o), r.state = EnteredState[e.kind]
  PROVE  Accounts(<<e>>, st, [st EXCEPT !.orders[o] = r])
<1> DEFINE new == [st EXCEPT !.orders[o] = r]
<1>1. \A p \in OrderIds : new.orders[p] = IF p = o THEN r ELSE st.orders[p]
  BY DEF State
<1>2. r # None
  BY SequencerAssumption
<1>3. DOMAIN <<e>> = {1} /\ <<e>>[1] = e
  OBVIOUS
<1>4. \A p \in OrderIds : IsLifecycle(e, p) => p = o
  BY DEF IsLifecycle
<1> HIDE DEF new
<1>5. Accounts(<<e>>, st, new)
  BY <1>1, <1>2, <1>3, <1>4 DEF Accounts
<1> QED BY <1>5 DEF new

\* A batch without lifecycle events accounts for a change that leaves the orders alone.
LEMMA NoOrderAccounted ==
  ASSUME NEW st, NEW new, new.orders = st.orders, NEW evs,
         \A i \in DOMAIN evs, o \in OrderIds : ~ IsLifecycle(evs[i], o)
  PROVE  Accounts(evs, st, new)
BY DEF Accounts

\* A submission journals that it routed the order, if it did.
LEMMA SubmitAccounts ==
  ASSUME TypeOK, NEW o \in OrderIds, HandleSubmitOrder(o), commit' # None
  PROVE  Accounts(commit'.events, core, core')
<1>1. core \in State
  BY DEF TypeOK
<1>2. commit = None
  BY DEF HandleSubmitOrder, Take, NextCommand, Idle
<1>3. CASE ReturnCachedAck(o)
  BY <1>2, <1>3 DEF ReturnCachedAck, NoCommit
<1>4. CASE RejectByRisk(o) \/ RejectByRoute(o)
  <2>1. PICK stage \in {"risk", "route"} : Commit(core, <<OrderRejected(o, stage)>>)
    BY <1>4 DEF RejectByRisk, RejectByRoute
  <2>2. core' = core /\ commit'.events = <<OrderRejected(o, stage)>>
    BY <2>1 DEF Commit
  <2>3. \A i \in DOMAIN <<OrderRejected(o, stage)>>, p \in OrderIds :
          ~ IsLifecycle(<<OrderRejected(o, stage)>>[i], p)
    BY <2>1, LifecycleEvents
  <2> QED BY <2>2, <2>3, NoOrderAccounted
<1>5. CASE AcceptAndRoute(o)
  <2> DEFINE cid == NextClientOrderId(AgentOf[o])
             r   == [state |-> "Pending", client_order_id |-> cid, venue_order_id |-> None,
                     filled |-> 0]
             evs == <<Happened("OrderReceived", o), Happened("OrderValidated", o),
                      Happened("OrderRiskChecked", o), Happened("OrderRouted", o)>>
  <2>1. Commit(WithOrder(core, o, cid), evs)
    BY <1>5 DEF AcceptAndRoute
  <2>2. core' = WithOrder(core, o, cid) /\ commit'.events = evs
    BY <2>1 DEF Commit
  <2>3. r.state = "Pending" /\ r \in OrderRecord
    <3>1. cid \in ClientOrderId
      BY EngineStateAssumption DEF NextClientOrderId, ClientOrderId, TypeOK
    <3> HIDE DEF cid
    <3> QED BY <3>1 DEF OrderRecord, OrderState
  <2>4. \A p \in OrderIds : core'.orders[p] = IF p = o THEN r ELSE core.orders[p]
    BY <1>1, <2>2 DEF WithOrder, State
  <2>5. r # None
    BY <2>3, SequencerAssumption
  <2>6. /\ DOMAIN evs = 1 .. 4
        /\ evs[1] = Happened("OrderReceived", o) /\ evs[2] = Happened("OrderValidated", o)
        /\ evs[3] = Happened("OrderRiskChecked", o) /\ evs[4] = Happened("OrderRouted", o)
    OBVIOUS
  <2>7. Happened("OrderRouted", o).kind = "OrderRouted"
    BY DEF Happened
  <2> HIDE DEF cid, r, evs
  <2>8. \A i \in DOMAIN evs, p \in OrderIds : IsLifecycle(evs[i], p) <=> i = 4 /\ p = o
    <3>1. ASSUME NEW p \in OrderIds
          PROVE  /\ ~ IsLifecycle(evs[1], p) /\ ~ IsLifecycle(evs[2], p)
                 /\ ~ IsLifecycle(evs[3], p) /\ (IsLifecycle(evs[4], p) <=> p = o)
      BY <2>6, LifecycleEvents
    <3>2. \A i \in 1 .. 4 : i = 1 \/ i = 2 \/ i = 3 \/ i = 4
      OBVIOUS
    <3> QED BY <2>6, <3>1, <3>2
  <2>9. 4 \in DOMAIN evs /\ evs[4].kind = "OrderRouted"
    BY <2>6, <2>7
  <2>10. Accounts(evs, core, core')
    BY <2>3, <2>4, <2>5, <2>8, <2>9, LifecycleEvents DEF Accounts
  <2> QED BY <2>2, <2>10
<1> QED BY <1>3, <1>4, <1>5 DEF HandleSubmitOrder

\* The handlers of venue events journal the state the order enters.
LEMMA VenueEventAccounts ==
  ASSUME TypeOK, HandleVenueEvent
  PROVE  Accounts(commit'.events, core, core')
<1> SUFFICES ASSUME NEW o \in OrderIds,
                    \/ \E v \in VenueOrderIds : HandleVenueAck(o, v)
                    \/ HandleVenueSubmitFailed(o)
                    \/ HandleVenueCancelled(o)
                    \/ \E qty \in FillQtys : HandleFill(o, qty)
             PROVE  Accounts(commit'.events, core, core')
  BY DEF HandleVenueEvent
<1>t. core \in State
  BY DEF TypeOK
<1>o. core.orders[o] \in OrderRecord
  <2>1. core.orders[o] # None
    BY DEF HandleVenueAck, HandleVenueSubmitFailed, HandleVenueCancelled, HandleFill, InState,
           FillAccepted
  <2> QED BY <1>t, <2>1 DEF State
<1>1. ASSUME NEW r \in OrderRecord, NEW e, Commit([core EXCEPT !.orders[o] = r], <<e>>),
             IsLifecycle(e, o), r.state = EnteredState[e.kind]
      PROVE  Accounts(commit'.events, core, core')
  <2>1. core' = [core EXCEPT !.orders[o] = r] /\ commit'.events = <<e>>
    BY <1>1 DEF Commit
  <2> QED BY <1>1, <1>t, <2>1, OneOrderAccounted
<1>2. \A kind \in {"OrderSubmitted", "OrderPartiallyFilled", "OrderFilled", "OrderCancelled"} :
        IsLifecycle(Happened(kind, o), o) /\ Happened(kind, o).kind = kind
  BY LifecycleEvents DEF Happened
<1>3. CASE \E v \in VenueOrderIds : HandleVenueAck(o, v)
  <2>1. PICK v \in VenueOrderIds : HandleVenueAck(o, v)
    BY <1>3
  <2> DEFINE r == [core.orders[o] EXCEPT !.state = "Submitted", !.venue_order_id = v]
  <2>2. r \in OrderRecord /\ r.state = "Submitted"
    BY <1>o DEF OrderRecord, OrderState
  <2>3. Commit([core EXCEPT !.orders[o] = r], <<Happened("OrderSubmitted", o)>>)
    BY <2>1 DEF HandleVenueAck
  <2> HIDE DEF r
  <2> QED BY <1>1, <1>2, <2>2, <2>3, LifecycleEvents
<1>4. CASE HandleVenueSubmitFailed(o)
  <2> DEFINE r == [core.orders[o] EXCEPT !.state = "Rejected"]
  <2>1. r \in OrderRecord /\ r.state = "Rejected"
    BY <1>o DEF OrderRecord, OrderState
  <2>2. Commit([core EXCEPT !.orders[o] = r], <<OrderRejected(o, "venue_submit")>>)
    BY <1>4 DEF HandleVenueSubmitFailed
  <2>3. OrderRejected(o, "venue_submit").kind = "OrderRejected"
    BY DEF OrderRejected
  <2> HIDE DEF r
  <2> QED BY <1>1, <2>1, <2>2, <2>3, LifecycleEvents
<1>5. CASE HandleVenueCancelled(o)
  <2> DEFINE r == [core.orders[o] EXCEPT !.state = "Cancelled"]
  <2>1. r \in OrderRecord /\ r.state = "Cancelled"
    BY <1>o DEF OrderRecord, OrderState
  <2>2. Commit([core EXCEPT !.orders[o] = r], <<Happened("OrderCancelled", o)>>)
    BY <1>5 DEF HandleVenueCancelled
  <2> HIDE DEF r
  <2> QED BY <1>1, <1>2, <2>1, <2>2, LifecycleEvents
<1>6. CASE \E qty \in FillQtys : HandleFill(o, qty)
  <2>1. PICK qty \in FillQtys : HandleFill(o, qty)
    BY <1>6
  <2> DEFINE total == core.orders[o].filled + qty
             state == IF total = Qty[o] THEN "Filled" ELSE "PartiallyFilled"
             kind  == IF WithFill(core, o, qty).orders[o].state = "Filled" THEN "OrderFilled"
                      ELSE "OrderPartiallyFilled"
             r     == [core.orders[o] EXCEPT !.filled = total, !.state = state]
  <2>2. total \in Nat
    BY <1>o, EngineStateAssumption DEF OrderRecord
  <2>3. state \in OrderState
    BY DEF OrderState
  <2>4. WithFill(core, o, qty) = [core EXCEPT !.orders[o] = r]
    BY DEF WithFill
  <2>5. Commit(WithFill(core, o, qty), <<Happened(kind, o)>>)
    BY <2>1 DEF HandleFill
  <2> HIDE DEF total
  <2>6. r \in OrderRecord /\ r.state = state
    <3> HIDE DEF state
    <3> QED BY <1>o, <2>2, <2>3 DEF OrderRecord
  <2>7. WithFill(core, o, qty).orders[o] = r
    <3> HIDE DEF r
    <3> QED BY <1>t, <2>4 DEF State
  <2>8. EnteredState[kind] = state /\ kind \in {"OrderPartiallyFilled", "OrderFilled"}
    <3> HIDE DEF r
    <3> QED BY <2>6, <2>7, LifecycleEvents
  <2> HIDE DEF r, kind, state
  <2> QED BY <1>1, <1>2, <2>4, <2>5, <2>6, <2>8
<1> QED BY <1>3, <1>4, <1>5, <1>6

\* Operator commands leave the orders alone and journal no lifecycle event.
LEMMA OperatorCommandAccounts ==
  ASSUME TypeOK, HandleOperatorCommand, commit' # None
  PROVE  Accounts(commit'.events, core, core')
<1>t. core \in State
  BY DEF TypeOK
<1>n. commit = None
  BY DEF HandleOperatorCommand, HandleReconciliation, HandleUnjournaled, HandlePauseAgent,
         HandleResumeAgent, HandleHaltAll, HandleResetCircuitBreaker, HandleWithoutCommit,
         HandleShutdown, Take, NextCommand, Idle
<1> DEFINE Kinds == {"PositionCorrected", "ReconciliationCompleted", "AgentPaused", "AgentResumed",
                     "EngineHalted", "CircuitBreakerReset"}
           Quiet(evs) == \A i \in DOMAIN evs, o \in OrderIds : ~ IsLifecycle(evs[i], o)
<1>q. /\ Quiet(<<>>)
      /\ \A kind \in Kinds : \A of : Quiet(<<Happened(kind, of)>>)
      /\ \A k, l \in Kinds : \A of : Quiet(<<Happened(k, of), Happened(l, of)>>)
  <2>1. \A kind \in Kinds : \A of, o : ~ IsLifecycle(Happened(kind, of), o)
    BY LifecycleEvents
  <2> HIDE DEF Kinds
  <2>2. Quiet(<<>>)
    OBVIOUS
  <2>3. \A kind \in Kinds : \A of : Quiet(<<Happened(kind, of)>>)
    BY <2>1
  <2>4. \A k, l \in Kinds : \A of : Quiet(<<Happened(k, of), Happened(l, of)>>)
    <3> TAKE k, l \in Kinds
    <3> TAKE of
    <3>1. DOMAIN <<Happened(k, of), Happened(l, of)>> = {1, 2}
      OBVIOUS
    <3> QED BY <2>1, <3>1
  <2> QED BY <2>2, <2>3, <2>4
<1>1. ASSUME NEW st, st.orders = core.orders, NEW evs, Commit(st, evs), Quiet(evs)
      PROVE  Accounts(commit'.events, core, core')
  <2>1. core' = st /\ commit'.events = evs
    BY <1>1 DEF Commit
  <2> QED BY <1>1, <2>1, NoOrderAccounted
<1> HIDE DEF Quiet
<1>2. \A b : [core EXCEPT !.book = b].orders = core.orders
  BY <1>t DEF State
<1>3. \A s : [core EXCEPT !.agent_statuses = s].orders = core.orders
  BY <1>t DEF State
<1>4. CASE HandleReconciliation
  <2>1. CASE Commit(core, <<Happened("ReconciliationCompleted", None)>>)
    BY <1>1, <1>q, <2>1
  <2>2. CASE \E b \in Books : Commit([core EXCEPT !.book = b],
               <<Happened("PositionCorrected", None), Happened("ReconciliationCompleted", None)>>)
    BY <1>1, <1>2, <1>q, <2>2
  <2> QED BY <1>4, <2>1, <2>2 DEF HandleReconciliation
<1>5. CASE HandleUnjournaled
  BY <1>1, <1>2, <1>5, <1>q DEF HandleUnjournaled
<1>6. CASE HandleHaltAll
  BY <1>1, <1>3, <1>6, <1>q DEF HandleHaltAll
<1>7. CASE \E a \in Agents : HandlePauseAgent(a) \/ HandleResumeAgent(a)
  <2>1. PICK a \in Agents : HandlePauseAgent(a) \/ HandleResumeAgent(a)
    BY <1>7
  <2>2. CASE HandlePauseAgent(a)
    <3>1. [core EXCEPT !.agent_statuses[a] = "Paused"].orders = core.orders
      BY <1>3
    <3> QED BY <1>1, <1>q, <2>2, <3>1 DEF HandlePauseAgent
  <2>3. CASE HandleResumeAgent(a)
    <3>1. [core EXCEPT !.agent_statuses[a] = "Active"].orders = core.orders
      BY <1>3
    <3> QED BY <1>1, <1>q, <2>3, <3>1 DEF HandleResumeAgent
  <2> QED BY <2>1, <2>2, <2>3
<1>8. CASE HandleResetCircuitBreaker
  BY <1>1, <1>8, <1>q DEF HandleResetCircuitBreaker
<1>9. CASE HandleWithoutCommit \/ HandleShutdown
  BY <1>9, <1>n DEF HandleWithoutCommit, HandleShutdown, NoCommit
<1> QED BY <1>4, <1>5, <1>6, <1>7, <1>8, <1>9 DEF HandleOperatorCommand

\* So a handler leaves a commit that accounts for what it did.
LEMMA HandlerAccounts ==
  ASSUME IInv, Handle
  PROVE  CommitAccounts'
<1>1. TypeOK /\ HandlerStep
  BY HandleStep DEF IInv
<1>2. core = Recovered.state
  BY <1>1 DEF HandlerStep, Idle, IInv, CoreIsCached, CacheIsDurable
<1>3. Recovered' = Recovered
  BY <1>1, RecoveredUnchanged DEF HandlerStep, journalVars
<1>4. commit' # None => Accounts(commit'.events, core, core')
  BY <1>1, SubmitAccounts, VenueEventAccounts, OperatorCommandAccounts DEF Handle
<1> QED BY <1>2, <1>3, <1>4 DEF CommitAccounts

\* The rows of a commit that concern an order, in terms of its events.
LEMMA RowsOfCommit ==
  /\ \A i \in DOMAIN commit.events : \E r \in CommitRows : r.event = commit.events[i]
  /\ \A r \in CommitRows : \E i \in DOMAIN commit.events : r.event = commit.events[i]
<1> DEFINE row(i) == [sequence_id |-> commit.snapshot.sequence_id, event_index |-> i - 1,
                      event |-> commit.events[i]]
<1>1. \A i \in DOMAIN commit.events : row(i).event = commit.events[i]
  OBVIOUS
<1>2. CommitRows = {row(i) : i \in DOMAIN commit.events}
  BY DEF CommitRows, EncodeEventRows
<1> HIDE DEF row
<1> QED BY <1>1, <1>2

\* A completed commit: the rows about an order are the old ones and the commit's,
\* which come last.
LEMMA CommittedExplains ==
  ASSUME ExplainInv, commit # None, IInv', Recovered' = commit.snapshot,
         events' = events \cup CommitRows
  PROVE  JournalExplainsOrders'
<1>1. /\ IInv /\ CommitAccounts /\ TailIsCommit /\ JournalExplainsOrders
      /\ mode # "stopped" /\ snapshot_cache = Recovered
      /\ Recovered.sequence_id < commit.snapshot.sequence_id
      /\ commit.snapshot.state = [core EXCEPT !.last_sequence_id = commit.snapshot.sequence_id]
  BY DEF ExplainInv, IInv, CommitIsNext, CacheIsDurable
<1>2. /\ CommitRows \subseteq EventRow /\ events \subseteq EventRow
      /\ \A r \in CommitRows : r.sequence_id = commit.snapshot.sequence_id
      /\ commit.snapshot.sequence_id \in Nat /\ Recovered.sequence_id \in Nat
      /\ \A r \in events \cup CommitRows : r.sequence_id \in Nat
  BY <1>1, CommitRowFacts DEF IInv, TypeOK, SnapshotRow, EventRow
<1>3. commit.snapshot.state.orders = core.orders
  BY <1>1 DEF IInv, TypeOK, State
<1> SUFFICES ASSUME NEW o \in OrderIds
             PROVE  /\ (core.orders[o] = None) <=> (LifecycleRows(o)' = {})
                    /\ \A r \in LifecycleRows(o)' :
                         (\A t \in LifecycleRows(o)' : t.sequence_id <= r.sequence_id) =>
                           core.orders[o].state = EnteredState[r.event.kind]
  BY <1>3 DEF JournalExplainsOrders, Durable
<1> DEFINE new == {r \in CommitRows : IsLifecycle(r.event, o)}
<1>4. LifecycleRows(o)' = LifecycleRows(o) \cup new
  <2>1. LifecycleRows(o)' =
          {r \in events \cup CommitRows :
             r.sequence_id <= commit.snapshot.sequence_id /\ IsLifecycle(r.event, o)}
    BY DEF LifecycleRows, Durable
  <2>2. LifecycleRows(o) =
          {r \in events : r.sequence_id <= Recovered.sequence_id /\ IsLifecycle(r.event, o)}
    BY DEF LifecycleRows, Durable
  <2>3. \A r \in events : r.sequence_id <= Recovered.sequence_id \/ r \in CommitRows
    BY <1>1 DEF TailIsCommit
  <2>4. \A r \in events \cup CommitRows :
          r.sequence_id <= commit.snapshot.sequence_id
    BY <1>1, <1>2, <2>3
  <2> QED BY <2>1, <2>2, <2>3, <2>4
<1>5. \A r \in LifecycleRows(o) : r.sequence_id < commit.snapshot.sequence_id
  BY <1>1, <1>2 DEF LifecycleRows, Durable
<1>6. /\ (core.orders[o] = None <=> Recovered.state.orders[o] = None) \/ new # {}
      /\ core.orders[o] # None /\ new = {} => core.orders[o].state = Recovered.state.orders[o].state
      /\ \A r \in new : core.orders[o] # None /\ core.orders[o].state = EnteredState[r.event.kind]
  BY <1>1, RowsOfCommit DEF CommitAccounts, Accounts
<1>7. CASE new = {}
  <2>1. /\ (Recovered.state.orders[o] = None) <=> (LifecycleRows(o) = {})
        /\ \A r \in LifecycleRows(o) :
             (\A t \in LifecycleRows(o) : t.sequence_id <= r.sequence_id) =>
               Recovered.state.orders[o].state = EnteredState[r.event.kind]
    BY <1>1 DEF JournalExplainsOrders, Durable
  <2>2. LifecycleRows(o)' = LifecycleRows(o)
    BY <1>4, <1>7
  <2> QED BY <1>6, <1>7, <2>1, <2>2
<1>8. CASE new # {}
  <2>1. PICK s \in new : TRUE
    BY <1>8
  <2>2. ASSUME NEW r \in LifecycleRows(o)',
               \A t \in LifecycleRows(o)' : t.sequence_id <= r.sequence_id
        PROVE  r \in new
    <3>1. s.sequence_id <= r.sequence_id /\ s.sequence_id = commit.snapshot.sequence_id
      BY <1>2, <1>4, <2>2
    <3>2. r \notin LifecycleRows(o)
      BY <1>2, <1>5, <3>1 DEF LifecycleRows
    <3> QED BY <1>4, <3>2
  <2> QED BY <1>4, <1>6, <2>1, <2>2
<1> QED BY <1>7, <1>8

\* Steps that leave the journal and the durable state alone, or append rows
\* beyond it, leave the explanation alone.
LEMMA ExplainsFrame ==
  ASSUME IInv, JournalExplainsOrders, snapshots' = snapshots,
         events' = events \/
           /\ events' = events \cup CommitRows
           /\ \A r \in CommitRows : ~ (r.sequence_id <= Recovered.sequence_id)
  PROVE  JournalExplainsOrders'
<1>1. Recovered' = Recovered
  BY RecoveredUnchanged
<1>2. ASSUME NEW o \in OrderIds PROVE LifecycleRows(o)' = LifecycleRows(o)
  BY <1>1 DEF LifecycleRows, Durable
<1> QED BY <1>1, <1>2 DEF JournalExplainsOrders, Durable

\* Every step keeps the journal an explanation of the durable orders.
LEMMA ExplainKept ==
  ASSUME ExplainInv, [Next]_vars, IInv'
  PROVE  ExplainInv'
<1>1. IInv /\ TypeOK /\ CommitAccounts /\ TailIsCommit /\ JournalExplainsOrders
  BY DEF ExplainInv, IInv
<1>2. ASSUME commit' = None, UNCHANGED journalVars, mode' = "stopped"
      PROVE  ExplainInv'
  BY <1>1, <1>2, ExplainsFrame DEF ExplainInv, CommitAccounts, TailIsCommit, journalVars
<1>3. ASSUME UNCHANGED <<commit, journalVars, core, mode, snapshot_cache>>
      PROVE  ExplainInv'
  <2>1. Recovered' = Recovered /\ JournalExplainsOrders'
    BY <1>1, <1>3, ExplainsFrame, RecoveredUnchanged DEF journalVars
  <2>2. CommitRows' = CommitRows
    BY <1>3 DEF CommitRows
  <2> QED BY <1>1, <1>3, <2>1, <2>2 DEF ExplainInv, CommitAccounts, TailIsCommit, journalVars
<1>4. CASE Bootstrap
  <2>1. commit' = None /\ events' = events /\ snapshots' = snapshots /\ mode' = "running"
    BY <1>4 DEF Bootstrap, journalVars
  <2>2. TailIsCommit'
    BY <2>1 DEF IInv, JournalIsCovered, TailIsCommit
  <2> QED BY <1>1, <2>1, <2>2, ExplainsFrame DEF ExplainInv, CommitAccounts
<1>5. CASE Handle
  <2>1. HandlerStep
    BY <1>1, <1>5, HandleStep
  <2>2. /\ events' = events /\ snapshots' = snapshots /\ snapshot_cache' = snapshot_cache
        /\ commit = None /\ mode # "stopped"
    BY <2>1 DEF HandlerStep, journalVars, Idle
  <2>3. TailIsCommit'
    BY <1>1, <2>2 DEF TailIsCommit
  <2> QED BY <1>1, <1>5, <2>2, <2>3, HandlerAccounts, ExplainsFrame DEF ExplainInv
<1>6. CASE PersistCommit \/ PersistSnapshot
  <2>1. commit # None /\ commit.snapshot # None /\ commit' = None
    BY <1>1, <1>6, CommitRowFacts DEF PersistCommit, PersistSnapshot, Committed
  <2>2. snapshots' = ReplaceAndPrune(snapshots, commit.snapshot)
    BY <1>6, <2>1 DEF PersistCommit, PersistSnapshot, SaveSnapshot, PersistRows
  <2>3. Recovered' = commit.snapshot
    <3>1. Recovered.sequence_id < commit.snapshot.sequence_id /\ commit.snapshot \in SnapshotRow
      BY <1>1, <2>1, CommitRowFacts DEF IInv, CommitIsNext, CacheIsDurable
    <3> QED BY <1>1, <2>2, <3>1, SnapshotReplaced DEF IInv, TypeOK
  <2>4. events' = events \cup CommitRows
    <3>1. CASE PersistCommit
      <4>1. ~ commit.appended
        BY <1>1, <2>1, <3>1 DEF IInv, CommitIsNext, PersistCommit
      <4>2. InsertOrIgnore(events, CommitRows) = events \cup CommitRows
        BY <1>1, <2>1, <4>1, CommitRowFacts, NewRowsInserted DEF TypeOK
      <4> QED BY <3>1, <4>2 DEF PersistCommit, PersistRows
    <3>2. CASE PersistSnapshot
      <4>1. events' = events
        BY <3>2 DEF PersistSnapshot, SaveSnapshot, PersistRows, InsertOrIgnore
      <4>2. CommitRows \subseteq events
        <5>1. commit.appended \/ CommitRows = {}
          BY <3>2 DEF PersistSnapshot, CommitRows, EncodeEventRows
        <5> QED BY <1>1, <2>1, <5>1 DEF IInv, CommitIsNext
      <4> QED BY <4>1, <4>2
    <3> QED BY <1>6, <3>1, <3>2
  <2>5. TailIsCommit'
    BY <2>1 DEF IInv, JournalIsCovered, TailIsCommit
  <2> QED BY <2>1, <2>3, <2>4, <2>5, CommittedExplains DEF ExplainInv, CommitAccounts
<1>7. CASE PersistEvents
  <2>1. /\ commit # None /\ ~ commit.appended /\ commit' = [commit EXCEPT !.appended = TRUE]
        /\ events' = InsertOrIgnore(events, CommitRows) /\ snapshots' = snapshots
        /\ UNCHANGED <<mode, core, snapshot_cache>>
    BY <1>7 DEF PersistEvents, AppendBatch, PersistRows
  <2>2. events' = events \cup CommitRows
    BY <1>1, <2>1, CommitRowFacts, NewRowsInserted DEF TypeOK
  <2>3. \A r \in CommitRows : ~ (r.sequence_id <= Recovered.sequence_id)
    <3>1. /\ snapshot_cache = Recovered /\ Recovered.sequence_id < commit.snapshot.sequence_id
          /\ snapshot_cache \in SnapshotRow
      BY <1>1, <2>1 DEF IInv, CommitIsNext, CacheIsDurable, TypeOK
    <3> QED BY <1>1, <2>1, <3>1, CommitRowFacts DEF SnapshotRow
  <2>4. /\ commit'.events = commit.events /\ commit'.snapshot = commit.snapshot /\ commit' # None
    <3>1. commit \in PendingCommit /\ commit' \in PendingCommit \cup {None}
      BY <1>1, <2>1, CommitRowFacts DEF IInv, TypeOK
    <3>2. commit'.events = commit.events /\ commit'.snapshot = commit.snapshot
      BY <2>1, <3>1 DEF PendingCommit
    <3>3. commit' \in PendingCommit
      BY <2>1, <3>1 DEF PendingCommit
    <3> QED BY <3>2, <3>3, SequencerAssumption
  <2>5. CommitRows' = CommitRows
    BY <2>4 DEF CommitRows
  <2>6. Recovered' = Recovered
    BY <2>1, RecoveredUnchanged
  <2>7. CommitAccounts' /\ TailIsCommit'
    BY <1>1, <2>1, <2>2, <2>4, <2>5, <2>6 DEF CommitAccounts, TailIsCommit
  <2> QED BY <1>1, <2>1, <2>2, <2>3, <2>7, ExplainsFrame DEF ExplainInv
<1>8. CASE PollHighPriority \/ WaitForCommand
  BY <1>3, <1>8 DEF PollHighPriority, WaitForCommand
<1>9. CASE FinishShutdown \/ Fault
  BY <1>2, <1>9 DEF FinishShutdown, Fault, CommandFails, PersistFails, HandlesDropped, Crash, Stop
<1>10. CASE Environment
  BY <1>3, <1>10 DEF Environment, SendOffered, Send, TakeRouted, DropReceiver, engineVars
<1>11. CASE UNCHANGED vars
  BY <1>3, <1>11 DEF vars, engineVars
<1> QED BY <1>4, <1>5, <1>6, <1>7, <1>8, <1>9, <1>10, <1>11 DEF Next, Step, Persist

\* Nothing is journaled before the first start.
LEMMA InitExplainInvariant == Init => ExplainInv
<1> SUFFICES ASSUME Init PROVE ExplainInv
  OBVIOUS
<1>1. IInv /\ snapshots = {} /\ events = {} /\ mode = "stopped" /\ commit = None
  BY InitInvariant DEF Init, JournalInit
<1>2. Recovered = [sequence_id |-> 0, state |-> EmptyState]
  BY <1>1, RecoveredFacts DEF IInv, TypeOK
<1>3. \A o \in OrderIds : Recovered.state.orders[o] = None
  BY <1>2 DEF EmptyState
<1>4. JournalExplainsOrders
  BY <1>1, <1>3 DEF JournalExplainsOrders, LifecycleRows, Durable
<1> QED BY <1>1, <1>4 DEF ExplainInv, CommitAccounts, TailIsCommit

\* The journal explains the durable orders, over any number of restarts and
\* failed commits: an order is durable exactly if the journal routed it, and its
\* durable state is the one its last lifecycle event names.
THEOREM JournalExplainsDurableOrders == Spec => []JournalExplainsOrders
<1>2. ExplainInv /\ [Next]_vars => ExplainInv'
  <2>1. ExplainInv /\ [Next]_vars => IInv'
    BY NextInvariant DEF ExplainInv
  <2> QED BY <2>1, ExplainKept
<1>3. ExplainInv => JournalExplainsOrders
  BY DEF ExplainInv
<1> QED BY InitExplainInvariant, <1>2, <1>3, PTL DEF Spec
=============================================================================
