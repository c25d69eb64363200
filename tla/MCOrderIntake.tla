--------------------------- MODULE MCOrderIntake ---------------------------
(* Small instances of OrderIntake for TLC: two agents on two venues. *)
EXTENDS OrderIntake, TLC

CONSTANTS a1, a2, i1, i2, v1, v2, s1, s2

Symmetry == Permutations(Slots)

\* A NAV of 400 and a price of 10: the 5% cap is 2 lots, the 1% cap 4 of loss.
MCPrice == (i1 :> 10) @@ (i2 :> 10)

MCAllocated == (a1 :> 100) @@ (a2 :> 60)

MCAgentLimits ==
  (a1 :> [max_position_notional |-> 30, max_gross_notional |-> 36,
          allowed_instruments |-> None, allowed_venues |-> None])
  @@ (a2 :> [max_position_notional |-> 20, max_gross_notional |-> 30,
             allowed_instruments |-> {i1}, allowed_venues |-> {v1}])

MCInstrumentLimits ==
  [i \in Instruments |-> [max_net_qty |-> 3, max_gross_qty |-> 6,
                          max_concentration_pct |-> 12, max_leverage |-> 1]]

MCVenueLimits ==
  (v1 :> [max_notional |-> 30, max_pct_of_nav |-> 10, max_positions |-> 1])
  @@ (v2 :> [max_notional |-> 16, max_pct_of_nav |-> 10, max_positions |-> 2])

MCDrawdowns == {0, -16}

MCListings == (i1 :> <<v1, v2>>) @@ (i2 :> None)

MCBalance == (v1 :> 10) @@ (v2 :> 20)

Order(a, i, v, side, qty, price, stop) ==
  [agent_id |-> a, instrument_id |-> i, venue_id |-> v, side |-> side, qty |-> qty,
   price |-> price, stop_loss |-> stop, take_profit |-> None]

\* Below the mark of 10, at it and above it; at 12 the cap is 1.67 lots, which
\* is rounded to 2.
MCOrders ==
  {Order(a1, i1, v2, "Buy", 2, 8, 7), Order(a1, i1, v1, "Sell", 3, 10, 13),
   Order(a2, i1, v1, "Buy", 1, 10, 7), Order(a1, i2, v1, "Buy", 1, 9, 7),
   Order(a1, i2, v1, "Sell", 2, 12, 13)}

Signal(a, direction, conviction, hint, stop, target) ==
  [agent |-> a, instrument |-> i1, direction |-> direction, conviction |-> conviction,
   sizing_hint |-> hint, stop_loss |-> stop, take_profit |-> target, thesis |-> "t"]

MCSignals ==
  {Signal(a1, "Buy", 2, None, 8, 14), Signal(a2, "Sell", 50, 20, 12, 5),
   Signal(a2, "Buy", 10, 10, 8, 11), Signal(a2, "Buy", 0, None, 8, None)}

ASSUME MCConfiguration == Configured /\ PricedWithinBand
=============================================================================
