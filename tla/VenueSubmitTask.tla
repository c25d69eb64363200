-------------------------- MODULE VenueSubmitTask --------------------------
(***************************************************************************)
(* The task that takes routed orders from the sequencer's submit channel   *)
(* to the venues and reports back through the sequencer's high-priority    *)
(* channel (VenueSubmitTask of crates/gateway/src/lib.rs).                 *)
(*                                                                         *)
(* The task gives way at every await: on the channel, on the adapter and   *)
(* on each report, which waits while the high-priority channel is full.    *)
(* Once the sequencer has stopped, every report fails and the task goes on *)
(* with the next order it still finds in the channel.                      *)
(*                                                                         *)
(* The adapter is external.  It is modelled from the VenueAdapter trait    *)
(* and the one adapter in the tree, PaperAdapter: a submission succeeds or *)
(* fails; afterwards there is at most one simulated fill, and a            *)
(* cancellation only of a remainder.                                       *)
(***************************************************************************)
EXTENDS Sequencer

CONSTANTS
  Route              \* "unroutable" (no adapter), "dry_run" (and no simulator) or "live"

ASSUME VenueSubmitTaskAssumption ==
  Route \in [OrderIds -> {"unroutable", "dry_run", "live"}]

VARIABLES
  phase,             \* "recv", "submit" (awaiting the adapter) or "acked"
  order,             \* the routed order the task works on
  outbox,            \* reports it has still to send
  venue_orders,      \* external: orders the venues accepted, kept over our restarts
  received,          \* history: routed orders the task ever took
  failed_after_ack   \* history: some take_post_ack_actions returned an error

taskVars == <<phase, order, outbox, venue_orders, received, failed_after_ack>>

sequencerVars == <<engineVars, journalVars, historyVars>>

Report(type, o) == [type |-> type, order |-> o]

ReportAck(o, v) == [type |-> "OnVenueAck", order |-> o, venue_order_id |-> v]

ReportFill(o, qty) == [type |-> "OnFill", order |-> o, qty |-> qty]

\* recv, the adapter lookup and the dry-run gate.
Receive ==
  /\ phase = "recv"
  /\ outbox = <<>>
  /\ venue_submit # <<>>
  /\ venue_submit' = Tail(venue_submit)
  /\ order' = Head(venue_submit)
  /\ received' = received \cup {order'}
  /\ LET o == order'.order_id
     IN  \/ /\ Route[o] = "unroutable"
            /\ outbox' = <<Report("OnVenueSubmitFailed", o)>>
            /\ UNCHANGED phase
         \/ /\ Route[o] = "dry_run"
            /\ \E v \in VenueOrderIds : outbox' = <<ReportAck(o, v)>>
            /\ UNCHANGED phase
         \/ /\ Route[o] = "live"
            /\ phase' = "submit"
            /\ UNCHANGED outbox
  /\ UNCHANGED <<sequencerVars, high_priority, commands, venue_submit_tx, venue_orders, failed_after_ack>>

\* adapter.submit_order returns Ok.
VenueAccepts ==
  /\ phase = "submit"
  /\ phase' = "acked"
  /\ venue_orders' = venue_orders \cup {order}
  /\ \E v \in VenueOrderIds : outbox' = <<ReportAck(order.order_id, v)>>
  /\ UNCHANGED <<sequencerVars, channelVars, order, received, failed_after_ack>>

\* adapter.submit_order returns Err.
VenueRejects ==
  /\ phase = "submit"
  /\ phase' = "recv"
  /\ outbox' = <<Report("OnVenueSubmitFailed", order.order_id)>>
  /\ UNCHANGED <<sequencerVars, channelVars, order, venue_orders, received, failed_after_ack>>

\* Mutant: a report that finds the channel full is dropped.
TrySendReport ==
  /\ outbox # <<>>
  /\ \/ Send(Head(outbox))
     \/ /\ Len(high_priority) = HIGH_PRIORITY_CHANNEL_CAPACITY
        /\ UNCHANGED <<engineVars, channelVars, journalVars, dispatched, acked, incarnation>>
  /\ outbox' = Tail(outbox)
  /\ UNCHANGED <<sent, phase, order, venue_orders, received, failed_after_ack>>

\* sequencer_handle.send(..).await
SendReport ==
  /\ outbox # <<>>
  /\ Send(Head(outbox))
  /\ outbox' = Tail(outbox)
  /\ UNCHANGED <<sent, phase, order, venue_orders, received, failed_after_ack>>

\* The sequencer is gone: this report fails and so do all that would follow.
SendFails ==
  /\ outbox # <<>>
  /\ mode = "stopped"
  /\ outbox' = <<>>
  /\ phase' = "recv"
  /\ UNCHANGED <<sequencerVars, channelVars, order, venue_orders, received, failed_after_ack>>

\* Mutant: a cancellation may follow any fill, a complete one included.
PostAckReportsLoose(o) ==
  LET fills == {q \in FillQtys : 0 < q /\ q <= Qty[o]}
  IN  {<<>>} \cup {<<ReportFill(o, q), Report("OnVenueCancelled", o)>> : q \in fills}

\* The reports of the actions an adapter may have queued behind the ack.
PostAckReports(o) ==
  LET fills == {q \in FillQtys : 0 < q /\ q <= Qty[o]}
      cancelled == Report("OnVenueCancelled", o)
  IN  {<<>>, <<cancelled>>}
        \cup {<<ReportFill(o, q)>> : q \in fills}
        \cup {<<ReportFill(o, q), cancelled>> : q \in fills \ {Qty[o]}}

\* take_post_ack_actions, once the ack is in the sequencer's channel.
TakePostAckActions ==
  /\ phase = "acked"
  /\ outbox = <<>>
  /\ phase' = "recv"
  /\ outbox' \in PostAckReports(order.order_id)
  /\ UNCHANGED <<sequencerVars, channelVars, order, venue_orders, received, failed_after_ack>>

\* take_post_ack_actions returns Err.
PostAckFails ==
  /\ phase = "acked"
  /\ outbox = <<>>
  /\ phase' = "recv"
  /\ outbox' = <<Report("OnVenueSubmitFailed", order.order_id)>>
  /\ failed_after_ack' = TRUE
  /\ UNCHANGED <<sequencerVars, channelVars, order, venue_orders, received>>

\* The task panics while the sequencer runs: its receiver closes.
TaskPanics ==
  /\ DropReceiver
  /\ phase' = "recv"
  /\ outbox' = <<>>
  /\ UNCHANGED <<order, venue_orders, received, failed_after_ack>>

\* The process ends or starts: the task of the last process is no more.
NewProcess ==
  /\ phase' = "recv"
  /\ outbox' = <<>>
  /\ UNCHANGED <<order, venue_orders, received, failed_after_ack>>

TaskInit ==
  /\ phase = "recv"
  /\ order = None
  /\ outbox = <<>>
  /\ venue_orders = {}
  /\ received = {}
  /\ failed_after_ack = FALSE

TaskStep ==
  Receive \/ VenueAccepts \/ VenueRejects \/ SendReport \/ SendFails \/ TakePostAckActions
    \/ PostAckFails
=============================================================================
