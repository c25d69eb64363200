----------------------------- MODULE Sequencer -----------------------------
(***************************************************************************)
(* The single-writer task of the engine                                    *)
(* (crates/engine-core/src/sequencer.rs) with its journal, its two command *)
(* channels, the bounded channel towards the venue submit task, crashes    *)
(* and restarts.                                                           *)
(*                                                                         *)
(* A command handler is synchronous and private to the task: it is one     *)
(* step.  The task gives way at two points only, and other tasks act       *)
(* there: between polling the two command channels, and while it awaits    *)
(* the journal (commit # None).  What a handler did before that await, a   *)
(* routed order sent, a client answered, is visible to others although     *)
(* nothing is durable yet.                                                 *)
(*                                                                         *)
(* The module is open: Send lets the environment queue any command at any  *)
(* time, and the receiver of the submit channel takes orders or goes away  *)
(* as it likes.  TradingEngine closes it with the real venue submit task.  *)
(***************************************************************************)
EXTENDS Journal

CONSTANTS
  HIGH_PRIORITY_CHANNEL_CAPACITY,
  COMMAND_CHANNEL_CAPACITY,
  VENUE_SUBMIT_CHANNEL_CAPACITY,
  Wirings,           \* "open" if with_venue_submit_tx is called before run(), else "none"
  AtomicCommit,      \* persist_commit is one transaction, not the trait's default
  FreshEpoch,        \* every process start passes a restart epoch not used before
  Offered,           \* commands the environment may send
  MaxSends,          \* bound on the number of commands sent
  MaxIncarnations    \* bound on the number of process starts

\* A command's events and snapshot on their way to the journal.
PendingCommit == [events: Seq(Event), appended: BOOLEAN, snapshot: SnapshotRow]

ASSUME SequencerAssumption ==
  /\ HIGH_PRIORITY_CHANNEL_CAPACITY \in Nat \ {0}
  /\ COMMAND_CHANNEL_CAPACITY \in Nat \ {0}
  /\ VENUE_SUBMIT_CHANNEL_CAPACITY \in Nat \ {0}
  /\ Wirings \subseteq {"open", "none"}
  /\ {AtomicCommit, FreshEpoch} \subseteq BOOLEAN
  /\ Offered \subseteq Command
  /\ MaxSends \in Nat
  /\ MaxIncarnations \in Nat
  /\ None \notin OrderRecord \cup SnapshotRow \cup PendingCommit

VARIABLES
  mode,              \* run(): running, draining after Shutdown, or stopped
  stop_cause,        \* why the last incarnation stopped
  core,              \* EngineCore's state, in memory
  sequence_gen,      \* next sequence id
  snapshot_cache,    \* last committed snapshot, served to readers
  generators,        \* next client-order counter of each agent
  restart_epoch,     \* epoch of this process
  polled,            \* the high-priority channel was just found empty
  commit,            \* the commit awaiting the journal, or None
  high_priority,     \* queued high-priority commands
  commands,          \* queued normal commands
  venue_submit,      \* routed orders queued for the venue submit task
  venue_submit_tx    \* open, closed (receiver gone) or none (not wired)

engineVars == <<mode, stop_cause, core, sequence_gen, snapshot_cache, generators,
                restart_epoch, polled, commit>>

channelVars == <<high_priority, commands, venue_submit, venue_submit_tx>>

VARIABLES            \* history, read by properties and bounds only
  dispatched,        \* routed orders ever put on the submit channel
  acked,             \* acks ever returned to a client
  sent,              \* commands sent so far
  incarnation        \* process starts so far

historyVars == <<dispatched, acked, sent, incarnation>>

vars == <<engineVars, channelVars, journalVars, historyVars>>

-----------------------------------------------------------------------------
(* Bootstrap: Sequencer::new *)

\* Mutant: without a snapshot the journal is not looked at.
TailBeyondSnapshot ==
  LatestSnapshot # None /\ LatestSequenceIdAfter(LatestSnapshot.sequence_id)

\* Events beyond the snapshot, or any event when there is no snapshot.
HasUnappliedTail ==
  IF LatestSnapshot = None
  THEN ReplayFrom(0) # {}
  ELSE LatestSequenceIdAfter(LatestSnapshot.sequence_id)

\* What a start finds: the latest snapshot, or the empty core at its own
\* last_sequence_id.
Recovered ==
  IF LatestSnapshot = None
  THEN [sequence_id |-> EmptyState.last_sequence_id, state |-> EmptyState]
  ELSE LatestSnapshot

\* restore_client_order_generators: one past the highest counter cached for
\* the agent; an agent without a cached id starts at 0.
NextAfterCached(n, agent, cache) ==
  LET used == {a.client_order_id.seq : a \in {b \in cache : b.client_order_id.agent = agent}}
  IN  /\ \A s \in used : s < n
      /\ n = 0 \/ \E s \in used : n = s + 1

\* Mutant: counters start again at 0.
FreshGenerators(snapshot) == {[a \in Agents |-> 0]}

\* A counter never exceeds the number of commands ever processed.
RestoredGenerators(snapshot) ==
  {g \in [Agents -> 0 .. snapshot.sequence_id] :
     \A a \in Agents : NextAfterCached(g[a], a, snapshot.state.idempotency_cache)}

\* Mutant: the last id is used again.
LastSequenceId(snapshot) == snapshot.sequence_id

\* SequenceGenerator::starting_at
NextSequenceId(snapshot) == snapshot.sequence_id + 1

Bootstrap ==
  /\ mode = "stopped"
  /\ incarnation < MaxIncarnations
  /\ ~ HasUnappliedTail
  /\ mode' = "running"
  /\ core' = Recovered.state
  /\ snapshot_cache' = Recovered
  /\ sequence_gen' = NextSequenceId(Recovered)
  /\ generators' \in RestoredGenerators(Recovered)
  /\ restart_epoch' \in IF FreshEpoch THEN {restart_epoch + 1} ELSE 0 .. restart_epoch + 1
  /\ polled' = FALSE
  /\ commit' = None
  /\ high_priority' = <<>>
  /\ commands' = <<>>
  /\ venue_submit' = <<>>
  /\ venue_submit_tx' \in Wirings
  /\ incarnation' = incarnation + 1
  /\ UNCHANGED <<stop_cause, journalVars, dispatched, acked, sent>>

-----------------------------------------------------------------------------
(* The loop of run() *)

Idle ==
  /\ mode \in {"running", "draining"}
  /\ commit = None

\* try_recv on the high-priority channel returns Empty.
PollHighPriority ==
  /\ Idle
  /\ ~ polled
  /\ high_priority = <<>>
  /\ polled' = TRUE
  /\ UNCHANGED <<mode, stop_cause, core, sequence_gen, snapshot_cache, generators,
                 restart_epoch, commit, channelVars, journalVars, historyVars>>

\* Mutant: the drain waits for commands like the loop does.
WaitWhileDraining ==
  /\ Idle
  /\ polled
  /\ commands = <<>>
  /\ polled' = FALSE
  /\ UNCHANGED <<mode, stop_cause, core, sequence_gen, snapshot_cache, generators,
                 restart_epoch, commit, channelVars, journalVars, historyVars>>

\* The normal channel is empty too: run() waits in select!, which looks at the
\* high-priority channel first when it wakes.
WaitForCommand ==
  /\ Idle
  /\ mode = "running"
  /\ polled
  /\ commands = <<>>
  /\ polled' = FALSE
  /\ UNCHANGED <<mode, stop_cause, core, sequence_gen, snapshot_cache, generators,
                 restart_epoch, commit, channelVars, journalVars, historyVars>>

\* cmd is the command the task takes next.
NextCommand(cmd) ==
  /\ Idle
  /\ \/ /\ ~ polled
        /\ high_priority # <<>>
        /\ cmd = Head(high_priority)
     \/ /\ polled
        /\ commands # <<>>
        /\ cmd = Head(commands)

\* It is taken off its channel and given a sequence id, whatever comes of it.
Take(cmd) ==
  /\ NextCommand(cmd)
  /\ high_priority' = IF polled THEN high_priority ELSE Tail(high_priority)
  /\ commands' = IF polled THEN Tail(commands) ELSE commands
  /\ polled' = FALSE
  /\ sequence_gen' = sequence_gen + 1
  /\ UNCHANGED <<stop_cause, snapshot_cache, restart_epoch, journalVars, sent, incarnation>>

\* The outcome changes state or carries events: it must be persisted.
Commit(state, evs) ==
  /\ core' = state
  /\ commit' = [events |-> evs, appended |-> FALSE,
                snapshot |-> [sequence_id |-> sequence_gen,
                              state |-> [state EXCEPT !.last_sequence_id = sequence_gen]]]

NoCommit == UNCHANGED <<core, commit>>

\* run() returns: the receivers are dropped and with them the queued commands.
\* Routed orders stay with the venue submit task.
Stop(cause) ==
  /\ mode' = "stopped"
  /\ stop_cause' = cause
  /\ high_priority' = <<>>
  /\ commands' = <<>>
  /\ commit' = None
  /\ polled' = FALSE
  /\ UNCHANGED <<core, snapshot_cache, generators, restart_epoch, venue_submit,
                 venue_submit_tx, historyVars>>

-----------------------------------------------------------------------------
(* SubmitOrder: handle_submit_order *)

\* Mutant: the restart epoch is left out of the id.
EpochlessClientOrderId(agent) == [agent |-> agent, seq |-> generators[agent], epoch |-> 0]

NextClientOrderId(agent) ==
  [agent |-> agent, seq |-> generators[agent], epoch |-> restart_epoch]

\* The order is known: its ack is returned again and nothing else happens.
ReturnCachedAck(o) ==
  \E ack \in ExistingAcks(core, o) :
    /\ acked' = acked \cup {ack}
    /\ NoCommit
    /\ UNCHANGED <<generators, venue_submit, dispatched>>

\* evaluate_order refuses: only the rejection event is persisted.
RejectByRisk(o) ==
  /\ ExistingAcks(core, o) = {}
  /\ Commit(core, <<OrderRejected(o, "risk")>>)
  /\ UNCHANGED <<generators, venue_submit, dispatched, acked>>

\* Mutant: the order is recorded although it could not be routed.
RecordUnrouted(o) ==
  /\ ExistingAcks(core, o) = {}
  /\ generators' = [generators EXCEPT ![AgentOf[o]] = @ + 1]
  /\ \/ venue_submit_tx = "closed"
     \/ /\ venue_submit_tx = "open"
        /\ Len(venue_submit) = VENUE_SUBMIT_CHANNEL_CAPACITY
  /\ Commit(WithOrder(core, o, NextClientOrderId(AgentOf[o])), <<OrderRejected(o, "route")>>)
  /\ UNCHANGED <<venue_submit, dispatched, acked>>

\* Approved and given an id, but try_send finds the channel full or closed.
RejectByRoute(o) ==
  /\ ExistingAcks(core, o) = {}
  /\ generators' = [generators EXCEPT ![AgentOf[o]] = @ + 1]
  /\ \/ venue_submit_tx = "closed"
     \/ /\ venue_submit_tx = "open"
        /\ Len(venue_submit) = VENUE_SUBMIT_CHANNEL_CAPACITY
  /\ Commit(core, <<OrderRejected(o, "route")>>)
  /\ UNCHANGED <<venue_submit, dispatched, acked>>

\* Mutant: an order that cannot be sent counts as one that need not be.
AcceptUnrouted(o) ==
  LET cid    == NextClientOrderId(AgentOf[o])
      routed == [order_id |-> o, client_order_id |-> cid]
  IN  /\ ExistingAcks(core, o) = {}
      /\ generators' = [generators EXCEPT ![AgentOf[o]] = @ + 1]
      /\ \/ /\ venue_submit_tx # "open"
            /\ UNCHANGED <<venue_submit, dispatched>>
         \/ /\ venue_submit_tx = "open"
            /\ Len(venue_submit) < VENUE_SUBMIT_CHANNEL_CAPACITY
            /\ venue_submit' = Append(venue_submit, routed)
            /\ dispatched' = dispatched \cup {routed}
      /\ acked' = acked \cup {routed}
      /\ Commit(WithOrder(core, o, cid), <<Happened("OrderRouted", o)>>)

\* Approved, sent to the submit channel, recorded and acknowledged, in this
\* order and all before the commit is persisted.
AcceptAndRoute(o) ==
  LET cid    == NextClientOrderId(AgentOf[o])
      routed == [order_id |-> o, client_order_id |-> cid]
  IN  /\ ExistingAcks(core, o) = {}
      /\ generators' = [generators EXCEPT ![AgentOf[o]] = @ + 1]
      /\ \/ /\ venue_submit_tx = "none"
            /\ UNCHANGED <<venue_submit, dispatched>>
         \/ /\ venue_submit_tx = "open"
            /\ Len(venue_submit) < VENUE_SUBMIT_CHANNEL_CAPACITY
            /\ venue_submit' = Append(venue_submit, routed)
            /\ dispatched' = dispatched \cup {routed}
      /\ acked' = acked \cup {routed}
      /\ Commit(WithOrder(core, o, cid),
                <<Happened("OrderReceived", o), Happened("OrderValidated", o),
                  Happened("OrderRiskChecked", o), Happened("OrderRouted", o)>>)

\* Mutant: the handler first waits for room in the submit channel.
SubmitOrderWaiting(o) ==
  /\ Take([type |-> "SubmitOrder", order |-> o])
  /\ venue_submit_tx = "open" => Len(venue_submit) < VENUE_SUBMIT_CHANNEL_CAPACITY
  /\ ReturnCachedAck(o) \/ RejectByRisk(o) \/ AcceptAndRoute(o)
  /\ UNCHANGED <<mode, venue_submit_tx>>

HandleSubmitOrder(o) ==
  /\ Take([type |-> "SubmitOrder", order |-> o])
  /\ \/ ReturnCachedAck(o)
     \/ RejectByRisk(o)
     \/ RejectByRoute(o)
     \/ AcceptAndRoute(o)
  /\ UNCHANGED <<mode, venue_submit_tx>>

-----------------------------------------------------------------------------
(* Venue events *)

\* What every other handler leaves alone.
Untouched == UNCHANGED <<generators, venue_submit, venue_submit_tx, dispatched, acked>>

HandleVenueAck(o, v) ==
  /\ Take([type |-> "OnVenueAck", order |-> o, venue_order_id |-> v])
  /\ InState(core, o, {"Pending"})
  /\ Commit([core EXCEPT !.orders[o] = [@ EXCEPT !.state = "Submitted",
                                               !.venue_order_id = v]],
            <<Happened("OrderSubmitted", o)>>)
  /\ Untouched
  /\ UNCHANGED mode

\* Mutants: the state gets LiveOrder's name; an acknowledged order may fail too.
VenueSubmitFailedRenamed(o) ==
  /\ Take([type |-> "OnVenueSubmitFailed", order |-> o])
  /\ InState(core, o, {"Pending"})
  /\ Commit([core EXCEPT !.orders[o].state = "VenueRejected"],
            <<OrderRejected(o, "venue_submit")>>)
  /\ Untouched
  /\ UNCHANGED mode

VenueSubmitFailedLate(o) ==
  /\ Take([type |-> "OnVenueSubmitFailed", order |-> o])
  /\ InState(core, o, {"Pending", "Submitted"})
  /\ Commit([core EXCEPT !.orders[o].state = "Rejected"],
            <<OrderRejected(o, "venue_submit")>>)
  /\ Untouched
  /\ UNCHANGED mode

HandleVenueSubmitFailed(o) ==
  /\ Take([type |-> "OnVenueSubmitFailed", order |-> o])
  /\ InState(core, o, {"Pending"})
  /\ Commit([core EXCEPT !.orders[o].state = "Rejected"],
            <<OrderRejected(o, "venue_submit")>>)
  /\ Untouched
  /\ UNCHANGED mode

HandleVenueCancelled(o) ==
  /\ Take([type |-> "OnVenueCancelled", order |-> o])
  /\ InState(core, o, {"Submitted", "PartiallyFilled"})
  /\ Commit([core EXCEPT !.orders[o].state = "Cancelled"],
            <<Happened("OrderCancelled", o)>>)
  /\ Untouched
  /\ UNCHANGED mode

HandleFill(o, qty) ==
  LET filled == WithFill(core, o, qty)
  IN  /\ Take([type |-> "OnFill", order |-> o, qty |-> qty])
      /\ FillAccepted(core, o, qty)
      /\ Commit(filled,
                <<Happened(IF filled.orders[o].state = "Filled"
                           THEN "OrderFilled" ELSE "OrderPartiallyFilled", o)>>)
      /\ Untouched
      /\ UNCHANGED mode

\* One PositionCorrected per divergence settled for the venue, then the summary.
HandleReconciliation ==
  /\ Take([type |-> "OnReconciliation"])
  /\ \/ Commit(core, <<Happened("ReconciliationCompleted", None)>>)
     \/ \E b \in Books :
          Commit([core EXCEPT !.book = b],
                 <<Happened("PositionCorrected", None),
                   Happened("ReconciliationCompleted", None)>>)
  /\ Untouched
  /\ UNCHANGED mode

-----------------------------------------------------------------------------
(* Operator commands *)

\* mark_to_market and a successful adjust_limits change state and journal no
\* event; the snapshot alone records them.
HandleUnjournaled ==
  /\ \/ Take([type |-> "MarkToMarket"])
     \/ Take([type |-> "AdjustLimits"])
  /\ \E b \in Books : Commit([core EXCEPT !.book = b], <<>>)
  /\ Untouched
  /\ UNCHANGED mode

HandlePauseAgent(a) ==
  /\ Take([type |-> "PauseAgent", agent |-> a])
  /\ Commit([core EXCEPT !.agent_statuses[a] = "Paused"], <<Happened("AgentPaused", a)>>)
  /\ Untouched
  /\ UNCHANGED mode

HandleResumeAgent(a) ==
  /\ Take([type |-> "ResumeAgent", agent |-> a])
  /\ Commit([core EXCEPT !.agent_statuses[a] = "Active"], <<Happened("AgentResumed", a)>>)
  /\ Untouched
  /\ UNCHANGED mode

HandleHaltAll ==
  /\ Take([type |-> "HaltAll"])
  /\ Commit([core EXCEPT !.agent_statuses = AllHalted(@)], <<Happened("EngineHalted", None)>>)
  /\ Untouched
  /\ UNCHANGED mode

HandleResetCircuitBreaker ==
  /\ Take([type |-> "ResetCircuitBreaker"])
  /\ Commit(core, <<Happened("CircuitBreakerReset", None)>>)
  /\ Untouched
  /\ UNCHANGED mode

\* Answered without a commit: SubmitSignal (unsupported), Snapshot (served from
\* snapshot_cache) and an AdjustLimits the core refuses.
HandleWithoutCommit ==
  /\ \E type \in {"SubmitSignal", "Snapshot", "AdjustLimits"} : Take([type |-> type])
  /\ NoCommit
  /\ Untouched
  /\ UNCHANGED mode

\* The first Shutdown starts the drain; one met while draining does nothing and
\* its reply is dropped.
HandleShutdown ==
  /\ Take([type |-> "Shutdown"])
  /\ mode' = "draining"
  /\ NoCommit
  /\ Untouched

-----------------------------------------------------------------------------
(* Ends of an incarnation *)

\* A handler that finds the order missing or in the wrong state returns an error.
Illegal(cmd) ==
  \/ /\ cmd.type \in {"OnVenueAck", "OnVenueSubmitFailed"}
     /\ ~ InState(core, cmd.order, {"Pending"})
  \/ /\ cmd.type = "OnVenueCancelled"
     /\ ~ InState(core, cmd.order, {"Submitted", "PartiallyFilled"})
  \/ /\ cmd.type = "OnFill"
     /\ ~ FillAccepted(core, cmd.order, cmd.qty)

\* An error or a panic out of the core, for the commands that call it.
CoreMayFail(cmd) ==
  \/ cmd.type \in {"OnFill", "OnReconciliation", "MarkToMarket", "AdjustLimits", "PauseAgent",
                   "ResumeAgent", "HaltAll", "ResetCircuitBreaker"}
  \/ cmd.type = "SubmitOrder" /\ ExistingAcks(core, cmd.order) = {}

\* Either way process_command returns Err and run() ends.
CommandFails ==
  \E cmd \in Command :
    /\ NextCommand(cmd)
    /\ \/ Illegal(cmd) /\ Stop("illegal command")
       \/ CoreMayFail(cmd) /\ Stop("core failure")
    /\ sequence_gen' = sequence_gen + 1
    /\ UNCHANGED journalVars

\* Drained: both channels were found empty, one after the other.  The caller of
\* Shutdown is answered and run() returns.
FinishShutdown ==
  /\ Idle
  /\ mode = "draining"
  /\ polled
  /\ commands = <<>>
  /\ Stop("shutdown")
  /\ UNCHANGED <<sequence_gen, journalVars>>

\* select! sees both channels closed.  The venue submit task holds a handle, so
\* this needs a sequencer without one.
HandlesDropped ==
  /\ Idle
  /\ mode = "running"
  /\ venue_submit_tx # "open"
  /\ high_priority = <<>>
  /\ commands = <<>>
  /\ Stop("handles dropped")
  /\ UNCHANGED <<sequence_gen, journalVars>>

\* The process dies: everything in memory is gone, routed orders included.
Crash ==
  /\ mode # "stopped"
  /\ mode' = "stopped"
  /\ stop_cause' = "crash"
  /\ high_priority' = <<>>
  /\ commands' = <<>>
  /\ venue_submit' = <<>>
  /\ commit' = None
  /\ polled' = FALSE
  /\ UNCHANGED <<core, sequence_gen, snapshot_cache, generators, restart_epoch,
                 venue_submit_tx, journalVars, historyVars>>

-----------------------------------------------------------------------------
(* The journal await of process_command *)

\* Mutants: snapshot_cache is not refreshed; update_metadata is not called.
CommittedStaleCache ==
  /\ core' = [core EXCEPT !.last_sequence_id = commit.snapshot.sequence_id]
  /\ commit' = None
  /\ UNCHANGED <<mode, stop_cause, sequence_gen, snapshot_cache, generators, restart_epoch,
                 polled, channelVars, historyVars>>

CommittedStaleCore ==
  /\ snapshot_cache' = commit.snapshot
  /\ commit' = None
  /\ UNCHANGED <<mode, stop_cause, core, sequence_gen, generators, restart_epoch, polled,
                 channelVars, historyVars>>

\* persist_commit returned Ok: update_metadata, then snapshot_cache.
Committed ==
  /\ core' = [core EXCEPT !.last_sequence_id = commit.snapshot.sequence_id]
  /\ snapshot_cache' = commit.snapshot
  /\ commit' = None
  /\ UNCHANGED <<mode, stop_cause, sequence_gen, generators, restart_epoch, polled,
                 channelVars, historyVars>>

CommitRows == EncodeEventRows(commit.snapshot.sequence_id, commit.events)

\* SqliteJournal: one transaction.
PersistCommit ==
  /\ commit # None
  /\ AtomicCommit
  /\ PersistRows(CommitRows, commit.snapshot)
  /\ Committed

\* The trait's default: append_batch, then save_snapshot.
PersistEvents ==
  /\ commit # None
  /\ ~ AtomicCommit
  /\ ~ commit.appended
  /\ commit.events # <<>>
  /\ AppendBatch(CommitRows)
  /\ commit' = [commit EXCEPT !.appended = TRUE]
  /\ UNCHANGED <<mode, stop_cause, core, sequence_gen, snapshot_cache, generators,
                 restart_epoch, polled, channelVars, historyVars>>

PersistSnapshot ==
  /\ commit # None
  /\ ~ AtomicCommit
  /\ commit.appended \/ commit.events = <<>>
  /\ SaveSnapshot(commit.snapshot)
  /\ Committed

\* The write fails: nothing is stored and run() ends.
PersistFails ==
  /\ commit # None
  /\ Stop("journal failure")
  /\ UNCHANGED <<sequence_gen, journalVars>>

-----------------------------------------------------------------------------
(* Environment *)

\* SequencerHandle::send: routed by priority; waits while the channel is full
\* and fails once the receiver is gone.
Send(cmd) ==
  /\ mode # "stopped"
  /\ IF cmd \in HighPriorityCommand
     THEN /\ Len(high_priority) < HIGH_PRIORITY_CHANNEL_CAPACITY
          /\ high_priority' = Append(high_priority, cmd)
          /\ UNCHANGED commands
     ELSE /\ Len(commands) < COMMAND_CHANNEL_CAPACITY
          /\ commands' = Append(commands, cmd)
          /\ UNCHANGED high_priority
  /\ UNCHANGED <<engineVars, venue_submit, venue_submit_tx, journalVars, dispatched, acked,
                 incarnation>>

SendOffered ==
  /\ sent < MaxSends
  /\ sent' = sent + 1
  /\ \E cmd \in Offered : Send(cmd)

\* The venue submit task receives a routed order.
TakeRouted ==
  /\ venue_submit # <<>>
  /\ venue_submit' = Tail(venue_submit)
  /\ UNCHANGED <<engineVars, high_priority, commands, venue_submit_tx, journalVars,
                 historyVars>>

\* The venue submit task ends while the sequencer runs.
DropReceiver ==
  /\ mode # "stopped"
  /\ venue_submit_tx = "open"
  /\ venue_submit_tx' = "closed"
  /\ venue_submit' = <<>>
  /\ UNCHANGED <<engineVars, high_priority, commands, journalVars, historyVars>>

-----------------------------------------------------------------------------
Init ==
  /\ JournalInit
  /\ mode = "stopped"
  /\ stop_cause = "none"
  /\ core = EmptyState
  /\ sequence_gen = 1
  /\ snapshot_cache = [sequence_id |-> 0, state |-> EmptyState]
  /\ generators = [a \in Agents |-> 0]
  /\ restart_epoch = 0
  /\ polled = FALSE
  /\ commit = None
  /\ high_priority = <<>>
  /\ commands = <<>>
  /\ venue_submit = <<>>
  /\ venue_submit_tx = "none"
  /\ dispatched = {}
  /\ acked = {}
  /\ sent = 0
  /\ incarnation = 0

HandleVenueEvent ==
  \E o \in OrderIds :
    \/ \E v \in VenueOrderIds : HandleVenueAck(o, v)
    \/ HandleVenueSubmitFailed(o)
    \/ HandleVenueCancelled(o)
    \/ \E qty \in FillQtys : HandleFill(o, qty)

HandleOperatorCommand ==
  \/ HandleReconciliation
  \/ HandleUnjournaled
  \/ \E a \in Agents : HandlePauseAgent(a) \/ HandleResumeAgent(a)
  \/ HandleHaltAll
  \/ HandleResetCircuitBreaker
  \/ HandleWithoutCommit
  \/ HandleShutdown

Handle ==
  \/ \E o \in OrderIds : HandleSubmitOrder(o)
  \/ HandleVenueEvent
  \/ HandleOperatorCommand

Persist == PersistCommit \/ PersistEvents \/ PersistSnapshot

\* What the sequencer task does by itself.
Step == PollHighPriority \/ WaitForCommand \/ Handle \/ Persist \/ FinishShutdown

\* What may go wrong with it or its process.
Fault == CommandFails \/ PersistFails \/ HandlesDropped \/ Crash

Environment == SendOffered \/ TakeRouted \/ DropReceiver

Next == Bootstrap \/ Step \/ Fault \/ Environment

Spec == Init /\ [][Next]_vars

-----------------------------------------------------------------------------
(* Properties *)

\* What a restart would find is called durable.
Durable == Recovered

\* Type correctness of the sequencer's memory, channels and tables.
TypeOK ==
  /\ events \subseteq EventRow
  /\ snapshots \subseteq SnapshotRow
  /\ mode \in {"running", "draining", "stopped"}
  /\ stop_cause \in {"none", "illegal command", "core failure", "shutdown",
                     "handles dropped", "crash", "journal failure"}
  /\ core \in State
  /\ sequence_gen \in Nat
  /\ snapshot_cache \in SnapshotRow
  /\ generators \in [Agents -> Nat]
  /\ restart_epoch \in Nat
  /\ polled \in BOOLEAN
  /\ commit \in PendingCommit \cup {None}
  /\ high_priority \in Seq(HighPriorityCommand)
  /\ commands \in Seq(NormalCommand)
  /\ venue_submit \in Seq(OrderAck)
  /\ venue_submit_tx \in {"open", "closed", "none"}
  /\ dispatched \subseteq OrderAck
  /\ acked \subseteq OrderAck
  /\ sent \in Nat
  /\ incarnation \in Nat

\* While the sequencer runs, readers of snapshot_cache see exactly what a
\* restart would recover, and between commands the core holds nothing more:
\* no command leaves memory ahead of or behind the disk (process_command).
MemoryMatchesDisk ==
  mode # "stopped" =>
    /\ snapshot_cache = Durable
    /\ commit = None => core = snapshot_cache.state

\* When a commit completes, every event it carries is in the journal: INSERT OR
\* IGNORE never meets a sequence id that an earlier incarnation already used,
\* although ids of uncommitted commands are handed out again after a restart.
CommitIsJournaled ==
  [][snapshot_cache' # snapshot_cache /\ commit # None => CommitRows \subseteq events']_vars

\* The journal only grows at its end, over crashes, restarts and failed commits:
\* an audit or a replay never finds a new row among old ones.
JournalAppendOnly ==
  [][/\ events \subseteq events'
     /\ \A r \in events' \ events : \A t \in events : t.sequence_id < r.sequence_id]_events

\* The event tells which state the order entered.
IsLifecycle(e, o) ==
  /\ e.of = o
  /\ e.kind \in {"OrderRouted", "OrderSubmitted", "OrderPartiallyFilled", "OrderFilled",
                 "OrderCancelled", "OrderRejected"}
  /\ e.stage \notin {"risk", "route"}

LifecycleRows(o) ==
  {r \in events : r.sequence_id <= Durable.sequence_id /\ IsLifecycle(r.event, o)}

EnteredState ==
  [OrderRouted |-> "Pending", OrderSubmitted |-> "Submitted",
   OrderPartiallyFilled |-> "PartiallyFilled", OrderFilled |-> "Filled",
   OrderCancelled |-> "Cancelled", OrderRejected |-> "Rejected"]

\* The journal explains the snapshot: an order is in the durable state exactly
\* if the journal routed it, and its durable state is the one its last
\* lifecycle event names.
JournalExplainsOrders ==
  \A o \in OrderIds :
    /\ (Durable.state.orders[o] = None) <=> (LifecycleRows(o) = {})
    /\ \A r \in LifecycleRows(o) :
         (\A t \in LifecycleRows(o) : t.sequence_id <= r.sequence_id) =>
           Durable.state.orders[o].state = EnteredState[r.event.kind]

\* Once an order is durable it is never sent to the submit channel again,
\* however often clients resubmit it and however often the engine restarts.
DurableOrderNotRedispatched ==
  [][\A r \in dispatched' \ dispatched : Durable.state.orders[r.order_id] = None]_vars

\* A client order id never stands for two orders, over all restarts, provided
\* every process start brings a new epoch (ClientOrderIdGenerator).
ClientOrderIdNamesOneOrder ==
  \A d, e \in dispatched : d.client_order_id = e.client_order_id => d.order_id = e.order_id

\* Whatever epoch a start passes, a new id never evicts the cached ack of
\* another order: every known order finds its own ack and no other
\* (restore_client_order_generators, find_existing_ack).
EveryOrderKeepsItsAck ==
  \A o \in OrderIds : core.orders[o] # None =>
    ExistingAcks(core, o) =
      {[order_id |-> o, client_order_id |-> core.orders[o].client_order_id]}

\* No order is recorded that was not handed to the submit channel first.
DurableOrderWasDispatched ==
  "none" \notin Wirings =>
    \A o \in OrderIds : Durable.state.orders[o] # None =>
      [order_id |-> o, client_order_id |-> Durable.state.orders[o].client_order_id]
        \in dispatched
=============================================================================
