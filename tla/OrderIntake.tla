---------------------------- MODULE OrderIntake ----------------------------
(***************************************************************************)
(* Signals and orders on their way through the bridge and the risk gate,   *)
(* and what becomes of the firm book as approved orders are filled.        *)
(*                                                                         *)
(* The bridge and the gate are those of SignalOrderBridge and              *)
(* AgentRiskManager.  No code in the tree builds a FirmBook: it is taken   *)
(* to be what its fields and the gate's use of them say, computed from the *)
(* positions and marked at prices that do not move.  The gate sees filled  *)
(* positions only; an approved order that is not filled yet is not in the  *)
(* book.                                                                   *)
(***************************************************************************)
EXTENDS SignalOrderBridge

CONSTANTS
  Agents, Venues,
  Price,               \* per instrument
  allocated_capital,   \* per agent
  InitialCash,         \* the part of the NAV that is not invested elsewhere
  Drawdowns,           \* figures the firm's drawdown may take
  PriceBand,           \* the mark is at most this percentage of an order's price
  Orders,              \* what may be asked of the gate directly
  Signals,             \* what may be asked of the bridge
  Slots                \* bound: one per approved order not filled to the end

\* OrderCore as far as the gate reads it; a price, stop or target may
\* be missing.
OrderCores ==
  [agent_id: Agents, instrument_id: Instruments, venue_id: Venues, side: {"Buy", "Sell"},
   qty: Int, price: Int \cup {None}, stop_loss: Int \cup {None}, take_profit: Int \cup {None}]

SignalTypes ==
  [agent: Agents, instrument: Instruments, direction: {"Buy", "Sell"}, conviction: Int,
   sizing_hint: Int \cup {None}, stop_loss: Int, take_profit: Int \cup {None}, thesis: STRING]

ASSUME OrderIntakeAssumption ==
  /\ None \notin Int /\ None \notin OrderCores
  /\ Slots # {} /\ IsFiniteSet(Slots)
  /\ IsFiniteSet(Agents) /\ IsFiniteSet(Instruments) /\ IsFiniteSet(Venues)
  /\ \A i \in Instruments : Price[i] \in Nat \ {0}
  /\ \A a \in Agents : allocated_capital[a] \in Int
  /\ Nav \in Int /\ InitialCash \in Int
  /\ PriceBand \in Nat /\ PriceBand >= 100
  /\ Orders \subseteq OrderCores
  /\ Signals \subseteq SignalTypes

VARIABLES
  positions,           \* signed quantity per agent, instrument and venue
  cash,
  drawdown,
  in_flight            \* approved orders by slot, with what is left of them

vars == <<positions, cash, drawdown, in_flight>>

-----------------------------------------------------------------------------
(* External: the firm book, from the positions *)

AgentQty(a, i) == SumFunction([v \in Venues |-> positions[<<a, i, v>>]])

VenueQty(v, i) == SumFunction([a \in Agents |-> positions[<<a, i, v>>]])

FirmNetQty(i) == SumFunction([a \in Agents |-> AgentQty(a, i)])

FirmGrossQty(i) == SumFunction([a \in Agents |-> Abs(AgentQty(a, i))])

AgentGross(a) == SumFunction([i \in Instruments |-> Price[i] * Abs(AgentQty(a, i))])

VenueGross(v) == SumFunction([i \in Instruments |-> Price[i] * Abs(VenueQty(v, i))])

FirmBook ==
  [nav |-> Nav,
   cash_available |-> cash,
   drawdown_pct |-> drawdown,
   allocations |-> [a \in Agents |->
     [allocated_capital |-> allocated_capital[a], used_capital |-> AgentGross(a)]],
   instruments |-> [i \in Instruments |->
     [net_qty |-> FirmNetQty(i), gross_qty |-> FirmGrossQty(i),
      net_notional |-> Price[i] * FirmNetQty(i),
      gross_notional |-> Price[i] * FirmGrossQty(i)]],
   by_agent |-> [x \in Agents \X Instruments |->
     [net_qty |-> AgentQty(x[1], x[2]), notional |-> Price[x[2]] * Abs(AgentQty(x[1], x[2]))]],
   by_venue |-> [x \in Venues \X Instruments |->
     [net_qty |-> VenueQty(x[1], x[2]), notional |-> Price[x[2]] * Abs(VenueQty(x[1], x[2])),
      held |-> VenueQty(x[1], x[2]) # 0]]]

\* What the bridge finds when it is called: the status of the agent, the
\* venues that accept orders, and whether the price source calls its price
\* stale.
Conditions == [status: {"Active", "Paused"}, connected: SUBSET Venues, stale: BOOLEAN]

DraftsOf(signal, now) ==
  LET i          == signal.instrument
      allocation == [allocated_capital |-> allocated_capital[signal.agent],
                     status |-> now.status]
      snapshot   == [bid |-> Price[i], ask |-> Price[i], stale |-> now.stale]
  IN  SignalToOrders(signal, allocation, agent_limits[signal.agent], snapshot, now.connected)

-----------------------------------------------------------------------------

Init ==
  /\ positions = [x \in Agents \X Instruments \X Venues |-> 0]
  /\ cash = InitialCash
  /\ drawdown \in Drawdowns
  /\ in_flight = [s \in Slots |-> None]

\* An order the gate approves as it stands goes to its venue; of one that it
\* would cut the caller is told the quantity, and may come back with it.
Admit(core, path) ==
  /\ Evaluate(core, FirmBook, path) = Approved
  /\ \E s \in Slots : in_flight[s] = None /\ in_flight' = [in_flight EXCEPT ![s] = core]
  /\ UNCHANGED <<positions, cash, drawdown>>

SubmitOrder(core) == Admit(core, "SubmitOrder")

Cut(core, qty) == [core EXCEPT !.qty = qty]

SubmitResized(core) ==
  LET outcome == Evaluate(core, FirmBook, "SubmitOrder")
  IN  /\ outcome.kind = "Resized"
      /\ Admit(Cut(core, outcome.new_qty), "SubmitOrder")

SubmitSignal(signal) ==
  \E now \in Conditions : \E core \in DraftsOf(signal, now) : Admit(core, "SubmitSignal")

\* External: the venue fills qty of the order in slot s.
Fill(s, qty) ==
  LET core == in_flight[s]
      at   == <<core.agent_id, core.instrument_id, core.venue_id>>
  IN  /\ positions' = [positions EXCEPT ![at] = @ + SignedDelta(core.side, qty)]
      /\ cash' = cash - SignedDelta(core.side, qty * core.price)
      /\ in_flight' = [in_flight EXCEPT ![s] = IF qty = core.qty THEN None
                                               ELSE [core EXCEPT !.qty = core.qty - qty]]
      /\ UNCHANGED drawdown

\* External: what is left of the order in slot s is cancelled.
Cancel(s) ==
  /\ in_flight' = [in_flight EXCEPT ![s] = None]
  /\ UNCHANGED <<positions, cash, drawdown>>

Next ==
  \/ \E core \in Orders : SubmitOrder(core) \/ SubmitResized(core)
  \/ \E signal \in Signals : SubmitSignal(signal)
  \/ \E s \in Slots : /\ in_flight[s] # None
                      /\ Cancel(s) \/ \E qty \in 1 .. in_flight[s].qty : Fill(s, qty)

Spec == Init /\ [][Next]_vars

-----------------------------------------------------------------------------
(* Hypotheses of the theorems on the configuration *)

\* The gate has limits for every agent, instrument and venue, none of them
\* negative, and the firm starts within them.
Configured ==
  /\ Nav > 0
  /\ Instruments # {}
  /\ \A a \in Agents :
       /\ agent_limits[a] # None
       /\ agent_limits[a].max_position_notional \in Nat
       /\ agent_limits[a].max_gross_notional \in Nat
       /\ allocated_capital[a] > 0
  /\ \A i \in Instruments :
       /\ instrument_limits[i] # None
       /\ instrument_limits[i].max_net_qty \in Nat
       /\ instrument_limits[i].max_gross_qty \in Nat
       /\ instrument_limits[i].max_concentration_pct \in Nat
       /\ instrument_limits[i].max_leverage \in Nat
  /\ \A v \in Venues :
       /\ venue_limits[v] # None
       /\ venue_limits[v].max_notional \in Nat
       /\ venue_limits[v].max_pct_of_nav \in Nat
       /\ venue_limits[v].max_positions \in Nat
  /\ 100 * InitialCash >= cash_reserve_min_pct * Nav

\* How far below the mark an order is priced.  The gate takes any positive
\* limit price and values the order at it, the book values what is filled at
\* the mark; for a finite set of orders there is always such a band, and 100
\* says that none is below the mark.
PricedWithinBand ==
  \A core \in Orders :
    core.price # None /\ core.price > 0
      => 100 * Price[core.instrument_id] <= PriceBand * core.price

-----------------------------------------------------------------------------
(* Properties *)

\* What an approved order is worth at most: at its own price, which the 5% cap
\* is about, and at the mark.
OrderCap == (Nav * position_nav_cap) \div 100

MarkedCap == (PriceBand * OrderCap) \div 100

\* What the gate does not count when it approves an order: the orders approved
\* before that are not in the book yet, and of each of them, and of its own, what
\* the mark is above the price.
Unbooked == (Cardinality(Slots) - 1) * MarkedCap + (MarkedCap - OrderCap)

\* The same in cash, which moves by the price.
Unpaid == (Cardinality(Slots) - 1) * OrderCap

HeldAt(v) == {i \in Instruments : VenueQty(v, i) # 0}

\* The hard limits hold of the book itself, not only of the projection that
\* evaluate checked: an order may be filled in part, be left in part, or cross
\* from long to short, and the limits are those of its own agent, of its
\* instrument and of its venue.  The gate does not count what is approved and
\* not yet filled, and values an order at its own price: a limit may be passed
\* by that much, and never by more, whatever was approved, filled and cancelled
\* in the meantime.  With one order at a time, none of them priced below the
\* mark, it is not passed at all.  Likewise a venue may hold one instrument more
\* than max_positions for each of the other orders.  Of the limits of an
\* instrument all three hold of the firm's net position only: one agent's sale
\* is projected as a cover of another's purchase, so the firm's gross is held
\* to what the agents may hold and neither to max_gross_qty nor to
\* max_concentration_pct.
LimitsHold ==
  /\ \A a \in Agents :
       LET gross == AgentGross(a) - Unbooked
       IN  /\ gross <= agent_limits[a].max_gross_notional
           /\ gross < allocated_capital[a]
           /\ \E i \in Instruments :
                gross <= instrument_limits[i].max_leverage * (allocated_capital[a] - gross)
           /\ \A i \in Instruments :
                Price[i] * Abs(AgentQty(a, i)) - Unbooked <= agent_limits[a].max_position_notional
  /\ \A i \in Instruments :
       LET net == Price[i] * Abs(FirmNetQty(i)) - Unbooked
       IN  /\ net <= Price[i] * instrument_limits[i].max_net_qty
           /\ net <= Price[i] * instrument_limits[i].max_gross_qty
           /\ 100 * net <= instrument_limits[i].max_concentration_pct * Nav
           /\ Price[i] * FirmGrossQty(i)
                <= SumFunction([a \in Agents |-> agent_limits[a].max_position_notional + Unbooked])
  /\ \A v \in Venues :
       /\ VenueGross(v) - Unbooked <= venue_limits[v].max_notional
       /\ 100 * (VenueGross(v) - Unbooked) <= venue_limits[v].max_pct_of_nav * Nav
       /\ Cardinality(HeldAt(v)) <= venue_limits[v].max_positions + Cardinality(Slots) - 1
  /\ 100 * (cash + Unpaid) >= cash_reserve_min_pct * Nav

IsFinal(core) ==
  LET outcome == Evaluate(core, FirmBook, "SubmitOrder")
  IN  outcome.kind = "Resized" =>
      Evaluate(Cut(core, outcome.new_qty), FirmBook, "SubmitOrder") \in {Approved, outcome}

\* The book as it is passes every check the gate makes of the order but those
\* of its size.
StandsWithin(core) == HardViolations(Cut(core, 0), FirmBook, "SubmitOrder") = {}

\* One lot is within both caps of a resize, so that there is something to cut to.
OneLotFits(core) ==
  /\ 100 * core.price <= Nav * position_nav_cap
  /\ 100 * RiskPerUnit(core) <= Nav * account_risk_nav_cap

\* A resize names the quantity for good: evaluated again with it, against the
\* same book, the order is approved or told the same quantity once more, never
\* a smaller one and never rejected.  The first is so although the checks were
\* made of the whole order, which the part need not resemble: a part may stop
\* short of covering a position that the whole would have turned around.  Only a
\* book that is beyond a limit already, by orders approved together, may take
\* the whole and refuse the part.  The second is not excluded: the quotient is
\* rounded, and times the price it may be above the cap it was cut to; a caller
\* that gives up on a second resize gives up on such an order.
ResizeIsFinal ==
  \A core \in Orders : OneLotFits(core) /\ StandsWithin(core) => IsFinal(core)

\* What the bridge makes of a signal meets the gate's demands on signals: its
\* venue and instrument are the agent's, and it has a stop at a distance.  It
\* may still fail a limit, or the reward its target promises.
DraftsMeetTheGate ==
  \A signal \in Signals : \A core \in UNION {DraftsOf(signal, now) : now \in Conditions} :
    LET outcome == Evaluate(core, FirmBook, "SubmitSignal")
    IN  outcome.kind = "Rejected" =>
        outcome.violations \cap
          {"unevaluable", "agent_allowed_instruments", "agent_allowed_venues",
           "account_risk_distance_positive", "signal_stop_loss_required",
           "signal_risk_distance_positive"} = {}

\* docs/CONTRACTS.md:220: "Check 1: Position notional <= 5% of total NAV."
PositionWithinCap ==
  \A a \in Agents, i \in Instruments :
    100 * Price[i] * Abs(AgentQty(a, i)) <= position_nav_cap * Nav
=============================================================================
