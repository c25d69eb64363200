----------------------------- MODULE LiveOrder -----------------------------
(***************************************************************************)
(* The post-submission lifecycle of an order: LiveOrder and its VenueState *)
(* FSM (crates/types/src/pipeline.rs).  Every order is a record of its     *)
(* own; None stands for an order that was not submitted yet.               *)
(*                                                                         *)
(* Each on_* method is one action.  A call that the FSM or the fill        *)
(* validation refuses returns before it assigns anything, so it is a       *)
(* stuttering step.  Prices, fees, reasons and timestamps are left out.    *)
(*                                                                         *)
(* TradingEngine shows that the order table the engine persists implements *)
(* this specification.                                                     *)
(***************************************************************************)
EXTENDS Naturals

CONSTANTS
  OrderIds,          \* orders
  Qty,               \* the quantity of each order
  VenueOrderIds,     \* ids a venue may assign
  None               \* the absent value of an Option

VARIABLE live        \* the LiveOrder of each order

VenueState ==
  {"Submitted", "Accepted", "Triggered", "PartiallyFilled", "Filled", "VenueRejected",
   "Cancelled", "Expired"}

IsTerminal(state) == state \in {"Filled", "VenueRejected", "Cancelled", "Expired"}

\* Variants of VenueState that carry a FillSummary.
Summarised == {"PartiallyFilled", "Filled", "Cancelled", "Expired"}

FillSummary == [filled_qty: Nat, remaining_qty: Nat]

Order ==
  [venue_state: VenueState, summary: FillSummary \cup {None},
   venue_order_id: VenueOrderIds \cup {None}, filled_qty: Nat, remaining_qty: Nat]

ASSUME LiveOrderAssumption ==
  /\ Qty \in [OrderIds -> Nat \ {0}]
  /\ None \notin Order \cup VenueOrderIds

\* Mutants: a triggered order may fill before it is accepted; a cancelled order
\* takes late fills.
MayBecomeUnaccepted(from) ==
  CASE from = "Submitted" -> {"Accepted", "Triggered", "VenueRejected"}
    [] from = "Triggered" -> {"Accepted", "PartiallyFilled", "Filled"}
    [] from = "Accepted" -> {"PartiallyFilled", "Filled", "Cancelled", "Expired"}
    [] from = "PartiallyFilled" -> {"PartiallyFilled", "Filled", "Cancelled"}
    [] OTHER -> {}

MayBecomeAfterCancel(from) ==
  CASE from = "Submitted" -> {"Accepted", "Triggered", "VenueRejected"}
    [] from = "Triggered" -> {"Accepted"}
    [] from = "Accepted" -> {"PartiallyFilled", "Filled", "Cancelled", "Expired"}
    [] from \in {"PartiallyFilled", "Cancelled"} -> {"PartiallyFilled", "Filled", "Cancelled"}
    [] OTHER -> {}

\* try_transition
MayBecome(from) ==
  CASE from = "Submitted" -> {"Accepted", "Triggered", "VenueRejected"}
    [] from = "Triggered" -> {"Accepted"}
    [] from = "Accepted" -> {"PartiallyFilled", "Filled", "Cancelled", "Expired"}
    [] from = "PartiallyFilled" -> {"PartiallyFilled", "Filled", "Cancelled"}
    [] OTHER -> {}

Submitted(o) == live[o] # None

\* self.venue_state = self.venue_state.try_transition(to)?
Transition(o, to) ==
  /\ Submitted(o)
  /\ to \in MayBecome(live[o].venue_state)

FromRouted(o) ==
  /\ ~ Submitted(o)
  /\ live' = [live EXCEPT ![o] =
                [venue_state |-> "Submitted", summary |-> None, venue_order_id |-> None,
                 filled_qty |-> 0, remaining_qty |-> Qty[o]]]

OnAccepted(o, v) ==
  /\ Transition(o, "Accepted")
  /\ live' = [live EXCEPT ![o].venue_state = "Accepted", ![o].venue_order_id = v]

OnTriggered(o) ==
  /\ Transition(o, "Triggered")
  /\ live' = [live EXCEPT ![o].venue_state = "Triggered"]

\* The state after a fill, computed before anything is assigned.
FilledBy(order, qty) ==
  LET filled    == order.filled_qty + qty
      remaining == order.remaining_qty - qty
  IN  [venue_state |-> IF remaining = 0 THEN "Filled" ELSE "PartiallyFilled",
       summary |-> [filled_qty |-> filled, remaining_qty |-> remaining],
       venue_order_id |-> order.venue_order_id,
       filled_qty |-> filled,
       remaining_qty |-> remaining]

\* Mutant: a fill beyond the remaining quantity is accepted.
OnFillUnchecked(o, qty) ==
  /\ Submitted(o)
  /\ qty > 0
  /\ Transition(o, FilledBy(live[o], qty).venue_state)
  /\ live' = [live EXCEPT ![o] = FilledBy(@, qty)]

OnFill(o, qty) ==
  /\ Submitted(o)
  /\ qty > 0
  /\ qty <= live[o].remaining_qty
  /\ Transition(o, FilledBy(live[o], qty).venue_state)
  /\ live' = [live EXCEPT ![o] = FilledBy(@, qty)]

\* Mutant: the summary forgets the fills.
CloseUnfilled(o, state) ==
  /\ Transition(o, state)
  /\ live' = [live EXCEPT ![o].venue_state = state,
                          ![o].summary = [filled_qty |-> 0, remaining_qty |-> Qty[o]]]

\* on_cancel and on_expire: the state, with a summary of the fills so far.
Close(o, state) ==
  /\ Transition(o, state)
  /\ live' = [live EXCEPT
                ![o].venue_state = state,
                ![o].summary = [filled_qty |-> live[o].filled_qty,
                                remaining_qty |-> live[o].remaining_qty]]

OnCancel(o) == Close(o, "Cancelled")

OnExpire(o) == Close(o, "Expired")

OnReject(o) ==
  /\ Transition(o, "VenueRejected")
  /\ live' = [live EXCEPT ![o].venue_state = "VenueRejected"]

-----------------------------------------------------------------------------
Init == live = [o \in OrderIds |-> None]

Next ==
  \E o \in OrderIds :
    \/ FromRouted(o)
    \/ \E v \in VenueOrderIds : OnAccepted(o, v)
    \/ OnTriggered(o)
    \/ \E qty \in 1 .. Qty[o] : OnFill(o, qty)
    \/ OnCancel(o)
    \/ OnExpire(o)
    \/ OnReject(o)

Spec == Init /\ [][Next]_live

-----------------------------------------------------------------------------
(* Properties *)

\* Type correctness of the orders.
TypeOK == live \in [OrderIds -> Order \cup {None}]

\* Quantities add up in every state, an order is Filled exactly if nothing
\* remains, and the summary a state carries, to be read long after the last
\* fill (on_cancel, on_expire), is that of the fills the order really had.
QuantitiesAddUp ==
  \A o \in OrderIds : Submitted(o) =>
    /\ live[o].filled_qty + live[o].remaining_qty = Qty[o]
    /\ (live[o].venue_state = "Filled") <=> (live[o].remaining_qty = 0)
    /\ live[o].venue_state \in Summarised =>
         live[o].summary = [filled_qty |-> live[o].filled_qty,
                            remaining_qty |-> live[o].remaining_qty]

\* An order that executed anything, or is resting, has the id its venue gave it,
\* however it got there: no path of the FSM reaches the book around on_accepted.
OnBookHasVenueId ==
  \A o \in OrderIds : Submitted(o) =>
    (live[o].venue_order_id = None
       <=> live[o].venue_state \in {"Submitted", "Triggered", "VenueRejected"})

\* docs/DATA_MODEL.md, invariant 5, "Terminal states are absorbing": no later
\* call, a late fill included, changes anything of a finished order.
TerminalIsAbsorbing ==
  [][\A o \in OrderIds :
       Submitted(o) /\ IsTerminal(live[o].venue_state) => live'[o] = live[o]]_live
=============================================================================
