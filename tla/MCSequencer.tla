---------------------------- MODULE MCSequencer ----------------------------
(* Small instances of Sequencer for TLC. *)
EXTENDS Sequencer, TLC

CONSTANTS o1, o2, a1

MCAgentOf == [o \in OrderIds |-> a1]
MCQty == [o \in OrderIds |-> 2]
MCFillQtys == 0 .. 2

\* The orders have the same agent and the same quantity.
Symmetry == Permutations(OrderIds)

\* Orders and everything a venue may report about them.
OrderCommands ==
  [type: {"SubmitOrder", "OnVenueSubmitFailed", "OnVenueCancelled"}, order: OrderIds]
    \cup [type: {"OnVenueAck"}, order: OrderIds, venue_order_id: VenueOrderIds]
    \cup [type: {"OnFill"}, order: OrderIds, qty: FillQtys]

\* Submissions and one command of every kind that does without a commit,
\* commits without an event, or commits state other than orders.
OperatorCommands ==
  [type: {"SubmitOrder"}, order: OrderIds]
    \cup [type: {"PauseAgent", "ResumeAgent"}, agent: Agents]
    \cup [type: {"OnReconciliation", "HaltAll", "ResetCircuitBreaker", "Shutdown",
                 "SubmitSignal", "MarkToMarket", "AdjustLimits", "Snapshot"}]
=============================================================================
