--------------------------- MODULE TradingEngine ---------------------------
(***************************************************************************)
(* The sequencer with its journal and the venue submit task, wired as      *)
(* with_venue_submit_tx and VenueSubmitTask::new wire them: routed orders  *)
(* go one way over the bounded submit channel, reports come back over the  *)
(* bounded high-priority channel, and clients send commands meanwhile.     *)
(***************************************************************************)
EXTENDS VenueSubmitTask

\* The task is the only one to report from a venue: clients and operators send
\* every command but these (gateway/src/lib.rs holds all senders).
ASSUME TradingEngineAssumption ==
  \A cmd \in Offered :
    cmd.type \notin {"OnVenueAck", "OnVenueSubmitFailed", "OnVenueCancelled", "OnFill"}

allVars == <<vars, taskVars>>

EngineInit == Init /\ TaskInit

\* What the sequencer or its clients do leaves the task alone.
SequencerStep == Step /\ UNCHANGED taskVars

ClientSends == SendOffered /\ UNCHANGED taskVars

\* The sequencer fails, but the process lives on and the task with it.
SequencerFails == (CommandFails \/ PersistFails \/ HandlesDropped) /\ UNCHANGED taskVars

ProcessCrashes == Crash /\ NewProcess

ProcessStarts == Bootstrap /\ NewProcess

EngineNext ==
  \/ ProcessStarts
  \/ SequencerStep
  \/ TaskStep
  \/ ClientSends
  \/ SequencerFails
  \/ TaskPanics
  \/ ProcessCrashes

EngineSafety == EngineInit /\ [][EngineNext]_allVars

\* Both tasks are scheduled by the runtime as long as they can move, if only to
\* stop with an error, and the adapter answers: PaperAdapter computes its
\* answer locally.
EngineSpec ==
  /\ EngineSafety
  /\ WF_allVars(SequencerStep \/ SequencerFails)
  /\ WF_allVars(TaskStep)

-----------------------------------------------------------------------------
(* Properties *)

\* The task's reports never ask the sequencer for an illegal transition, which
\* would stop the engine: whatever the interleaving, each report meets its
\* order in a state that allows it (handle_venue_ack, handle_venue_cancelled,
\* handle_fill), over crashes, lost commits and resubmissions.  The one
\* exception is the failure of an order that was acked before.
ReportsAreLegal == stop_cause = "illegal command" => failed_after_ack

InFlight(cmd) == cmd \in {high_priority[i] : i \in DOMAIN high_priority}
                           \cup {outbox[i] : i \in DOMAIN outbox}

\* As long as both tasks live, the engine does not lose sight of an order a
\* venue accepted: while the record is still Pending the ack is on its way,
\* waiting for a full channel if need be.
AcceptedOrderIsReported ==
  \A r \in venue_orders :
    /\ mode # "stopped"
    /\ venue_submit_tx = "open"
    /\ r.client_order_id.epoch = restart_epoch
    /\ InState(core, r.order_id, {"Pending"})
    => \E v \in VenueOrderIds : InFlight(ReportAck(r.order_id, v))

VenueStateOf ==
  [Pending |-> "Submitted", Submitted |-> "Accepted", PartiallyFilled |-> "PartiallyFilled",
   Filled |-> "Filled", Cancelled |-> "Cancelled", Rejected |-> "VenueRejected"]

\* The LiveOrder a durable order record stands for.  Between risk check and ack
\* the engine calls an order Pending; to LiveOrder it is Submitted.
LiveOrderOf(o) ==
  LET record    == Durable.state.orders[o]
      remaining == Qty[o] - record.filled
  IN  IF record = None THEN None
      ELSE [venue_state |-> VenueStateOf[record.state],
            summary |-> IF record.state \in {"PartiallyFilled", "Filled", "Cancelled"}
                        THEN [filled_qty |-> record.filled, remaining_qty |-> remaining]
                        ELSE None,
            venue_order_id |-> record.venue_order_id,
            filled_qty |-> record.filled,
            remaining_qty |-> remaining]

Lifecycle == INSTANCE LiveOrder WITH live <- [o \in OrderIds |-> LiveOrderOf(o)]

ASSUME LifecycleAssumption == None \notin Lifecycle!Order

\* The orders the engine persists go through the LiveOrder state machine and
\* nothing else, although the core's on_fill checks quantities and not states:
\* no order is finished twice, revived, or filled before its ack.
ImplementsLiveOrder == Lifecycle!Spec

\* A record leaves Pending as long as the engine and the submit task live: the
\* two tasks never wait for each other, because the sequencer never waits for
\* room in the submit channel.
PendingIsResolved ==
  \A o \in OrderIds :
    (/\ mode # "stopped"
     /\ venue_submit_tx = "open"
     /\ InState(core, o, {"Pending"})
     /\ core.orders[o].client_order_id.epoch = restart_epoch)
    ~> (mode = "stopped" \/ venue_submit_tx # "open" \/ ~ InState(core, o, {"Pending"}))

\* A Shutdown is answered: the drain ends once clients stop sending.
ShutdownCompletes == (mode = "draining") ~> (mode = "stopped")

-----------------------------------------------------------------------------
(* A statement of a comment that the code does not keep *)

\* sequencer.rs:374: "Ghost orders (state written but never submitted) must
\* never happen": a recorded order is queued for the submit task or was taken by it.
NoGhostOrders ==
  \A o \in OrderIds :
    mode # "stopped" /\ venue_submit_tx = "open" /\ Durable.state.orders[o] # None =>
    \E r \in received \cup {venue_submit[i] : i \in DOMAIN venue_submit} :
      r = [order_id |-> o, client_order_id |-> Durable.state.orders[o].client_order_id]
=============================================================================
