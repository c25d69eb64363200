------------------------- MODULE SignalOrderBridge -------------------------
(***************************************************************************)
(* From a signal to draft orders (SignalOrderBridge of                     *)
(* crates/gateway/src/lib.rs): validation, reference price, sizing and     *)
(* venue selection.  The bridge keeps no state.                            *)
(*                                                                         *)
(* Conviction is in hundredths and quantities are in lots, as in the gate. *)
(* A symbol map is the sequence of venues that list each instrument.  The  *)
(* limits of an agent are the ones AgentRiskManager is configured with.    *)
(***************************************************************************)
EXTENDS AgentRiskManager, Sequences

CONSTANTS
  venues_for,          \* per instrument the venues that list it, or None
  RoutingPolicy,       \* "FirstListed" or "HighestAvailableBalance"
  available_balance    \* per venue

ASSUME SignalOrderBridgeAssumption ==
  RoutingPolicy \in {"FirstListed", "HighestAvailableBalance"}

ValidateSignal(signal) ==
  /\ signal.conviction \in 0 .. 100
  /\ signal.conviction = 0 => signal.sizing_hint = None
  /\ signal.stop_loss > 0
  /\ signal.thesis # ""
  /\ signal.sizing_hint # None => signal.sizing_hint > 0

\* The stop is on the losing side of the price, the target on the other.
ValidateExitTargets(signal, price) ==
  IF signal.direction = "Buy"
    THEN /\ signal.stop_loss < price
         /\ signal.take_profit # None => signal.take_profit > price
    ELSE /\ signal.stop_loss > price
         /\ signal.take_profit # None => signal.take_profit < price

\* snapshot is the latest price of the instrument, or None.
ReferencePrice(signal, snapshot) ==
  IF snapshot = None \/ snapshot.stale THEN None
  ELSE IF signal.direction = "Buy" THEN snapshot.ask ELSE snapshot.bid

\* A sizing hint is a notional; without one the agent puts the share of its
\* capital it is convinced of at risk down to the stop.
SizeSignal(signal, allocated_capital, price) ==
  IF signal.sizing_hint # None
    THEN IF signal.sizing_hint > allocated_capital THEN 0 ELSE Quotient(signal.sizing_hint, price)
    ELSE LET distance == IF signal.stop_loss < price THEN price - signal.stop_loss
                                                     ELSE signal.stop_loss - price
         IN  IF distance = 0 THEN 0
             ELSE Quotient(signal.conviction * allocated_capital, 100 * distance)

\* Mutant: the venues the agent may use are not considered.
EligibleAnywhere(signal, limits, connected) ==
  {i \in DOMAIN venues_for[signal.instrument] : venues_for[signal.instrument][i] \in connected}

\* The listings of the instrument, by their position, at venues that are
\* allowed and connected.
Eligible(signal, limits, connected) ==
  LET listings == venues_for[signal.instrument]
  IN  {i \in DOMAIN listings : /\ limits = None \/ Allowed(limits.allowed_venues, listings[i])
                               /\ listings[i] \in connected}

\* The listing the policy takes: the first, or the last of those with the
\* highest balance.
Preferred(i, j, listings) ==
  LET balance(k) == available_balance[listings[k]]
  IN  IF RoutingPolicy = "FirstListed" THEN i <= j
      ELSE balance(i) > balance(j) \/ (balance(i) = balance(j) /\ i >= j)

\* The venue an order for the signal goes to; empty if there is none.
SelectVenue(signal, limits, connected) ==
  IF \/ limits # None /\ ~ Allowed(limits.allowed_instruments, signal.instrument)
     \/ venues_for[signal.instrument] = None
    THEN {}
    ELSE LET listings == venues_for[signal.instrument]
             eligible == Eligible(signal, limits, connected)
         IN  {listings[i] : i \in {k \in eligible :
                                     \A j \in eligible : Preferred(k, j, listings)}}

\* signal_to_orders: no order for an invalid signal, an agent without an active
\* allocation, zero conviction, a missing or stale price, inconsistent exits, a
\* size of nothing, or no venue; otherwise one draft.
SignalToOrders(signal, allocation, limits, snapshot, connected) ==
  LET price == ReferencePrice(signal, snapshot)
      qty   == SizeSignal(signal, allocation.allocated_capital, price)
  IN  IF \/ ~ ValidateSignal(signal)
         \/ allocation = None
         \/ allocation.status # "Active"
         \/ signal.conviction = 0
         \/ price = None
         \/ price <= 0
         \/ ~ ValidateExitTargets(signal, price)
         \/ qty <= 0
        THEN {}
        ELSE {[agent_id |-> signal.agent, instrument_id |-> signal.instrument,
               venue_id |-> venue, side |-> signal.direction, qty |-> qty, price |-> price,
               stop_loss |-> signal.stop_loss, take_profit |-> signal.take_profit] :
                venue \in SelectVenue(signal, limits, connected)}
=============================================================================
