-------------------------- MODULE AgentRiskManager --------------------------
(***************************************************************************)
(* The layer-1 risk gate (AgentRiskManager of crates/risk/src/lib.rs):     *)
(* a stateless evaluation of one order against the firm book.              *)
(*                                                                         *)
(* Decimals are integers here: percentages in hundredths, quotients that   *)
(* are only compared multiplied out, and a quantity in lots, a lot being   *)
(* the last digit a Decimal has room for.  A quantity that is a quotient   *)
(* is rounded to the nearest lot, as Decimal's division rounds its last    *)
(* digit, and so may exceed what was divided when it is multiplied back.   *)
(* Violations are the names of the checks that fail.                       *)
(*                                                                         *)
(* A firm book gives nav, cash_available, drawdown_pct, the allocations of *)
(* the agents that have one, the exposure of each instrument and of each   *)
(* (agent, instrument) and (venue, instrument); zero stands for an entry   *)
(* that is not there.                                                      *)
(***************************************************************************)
EXTENDS Integers, FiniteSetsExt

CONSTANTS
  Instruments,
  Nav,                 \* the manager's configured NAV
  agent_limits,        \* per agent its limits, or None
  instrument_limits,
  venue_limits,
  None

position_nav_cap == 5
account_risk_nav_cap == 1
drawdown_halt_pct == -15
cash_reserve_min_pct == 20
min_risk_reward_ratio == 2

\* External: the quotient of two Decimals, rounded to the nearest, ties to even.
Quotient(n, d) ==
  LET q == n \div d
      r == n % d
  IN  IF 2 * r > d \/ (2 * r = d /\ q % 2 = 1) THEN q + 1 ELSE q

Abs(n) == IF n < 0 THEN -n ELSE n

SignedDelta(side, n) == IF side = "Buy" THEN n ELSE -n

\* Mutant: a short position counts as a long one.
UnsignedValue(net, value) == value

SignedValueFromNet(net, value) == IF net >= 0 THEN value ELSE -value

\* The net and gross exposure after a signed trade, which first reduces the
\* opposite side of the book.
ProjectNetAndGross(net, gross, delta) ==
  LET long    == (gross + net) \div 2
      short   == (gross - net) \div 2
      covered == IF delta >= 0 THEN (IF delta < short THEN delta ELSE short)
                               ELSE (IF -delta < long THEN -delta ELSE long)
  IN  [net |-> net + delta, gross |-> gross + Abs(delta) - 2 * covered]

\* What a check contributes to the violations: its name unless it holds.
Check(holds, name) == IF holds THEN {} ELSE {name}

EffectiveNav(fb) == IF Nav < fb.nav THEN Nav ELSE fb.nav

\* Inputs without which nothing can be projected: each one rejects at once.
Unevaluable(core, fb) ==
  \/ core.price = None
  \/ core.price <= 0
  \/ core.qty <= 0
  \/ Nav <= 0
  \/ fb.nav <= 0
  \/ agent_limits[core.agent_id] = None
  \/ core.agent_id \notin DOMAIN fb.allocations
  \/ instrument_limits[core.instrument_id] = None
  \/ venue_limits[core.venue_id] = None

\* The exposures after the whole of the order is filled.
Projected(core, fb) ==
  LET i          == core.instrument_id
      exposure   == fb.instruments[i]
      own        == fb.by_agent[<<core.agent_id, i>>]
      there      == fb.by_venue[<<core.venue_id, i>>]
      qty        == SignedDelta(core.side, core.qty)
      notional   == SignedDelta(core.side, core.qty * core.price)
      by_qty     == ProjectNetAndGross(exposure.net_qty, exposure.gross_qty, qty)
      by_value   == ProjectNetAndGross(exposure.net_notional, exposure.gross_notional, notional)
      of_agent   == ProjectNetAndGross(SignedValueFromNet(own.net_qty, own.notional),
                                       own.notional, notional)
      at_venue   == ProjectNetAndGross(SignedValueFromNet(there.net_qty, there.notional),
                                       there.notional, notional)
      allocation == fb.allocations[core.agent_id]
      agent      == allocation.used_capital - own.notional + of_agent.gross
      venue(j)   == fb.by_venue[<<core.venue_id, j>>]
  IN  [net_qty |-> by_qty.net,
       gross_qty |-> by_qty.gross,
       instrument_gross |-> by_value.gross,
       agent_instrument_gross |-> of_agent.gross,
       agent_gross |-> agent,
       free_capital |-> allocation.allocated_capital - agent,
       cash |-> fb.cash_available - notional,
       venue_notional |-> SumFunction([j \in Instruments |-> venue(j).notional])
                            - there.notional + at_venue.gross,
       venue_positions |-> Cardinality({j \in Instruments : venue(j).held})
                             + IF there.held THEN 0 ELSE 1]

Allowed(allowed, x) == allowed = None \/ x \in allowed

CheckAgentPermissions(core, limits) ==
  Check(Allowed(limits.allowed_instruments, core.instrument_id), "agent_allowed_instruments")
    \cup Check(Allowed(limits.allowed_venues, core.venue_id), "agent_allowed_venues")

CheckAgentBudget(p, limits) ==
  Check(p.free_capital >= 0, "agent_free_capital")
    \cup Check(p.agent_instrument_gross <= limits.max_position_notional,
               "agent_max_position_notional")
    \cup Check(p.agent_gross <= limits.max_gross_notional, "agent_max_gross_notional")

RiskPerUnit(core) == IF core.stop_loss = None THEN core.price ELSE Abs(core.price - core.stop_loss)

CheckLeverage(p, limits) ==
  IF limits.max_leverage <= 0 THEN {"instrument_max_leverage_positive"}
  ELSE IF p.free_capital <= 0 THEN {"agent_free_capital_positive"}
  ELSE Check(p.agent_gross <= limits.max_leverage * p.free_capital, "instrument_max_leverage")

CheckInstrumentLimits(p, nav, limits) ==
  Check(Abs(p.net_qty) <= limits.max_net_qty, "instrument_max_net_qty")
    \cup Check(p.gross_qty <= limits.max_gross_qty, "instrument_max_gross_qty")
    \cup Check(100 * p.instrument_gross <= limits.max_concentration_pct * nav,
               "instrument_max_concentration_pct")

CheckVenueLimits(p, nav, limits) ==
  Check(p.venue_notional <= limits.max_notional, "venue_max_notional")
    \cup Check(100 * p.venue_notional <= limits.max_pct_of_nav * nav, "venue_max_pct_of_nav")
    \cup Check(p.venue_positions <= limits.max_positions, "venue_max_positions")

\* A signal needs a stop loss, and a take profit at least twice as far.
CheckSignalRequirements(core) ==
  LET risk == Abs(core.price - core.stop_loss)
  IN  IF core.stop_loss = None THEN {"signal_stop_loss_required"}
      ELSE IF core.take_profit = None THEN {}
      ELSE IF risk = 0 THEN {"signal_risk_distance_positive"}
      ELSE Check(Abs(core.take_profit - core.price) >= min_risk_reward_ratio * risk,
                 "signal_risk_reward_ratio")

HardViolations(core, fb, path) ==
  LET p   == Projected(core, fb)
      nav == EffectiveNav(fb)
  IN  CheckAgentPermissions(core, agent_limits[core.agent_id])
        \cup CheckAgentBudget(p, agent_limits[core.agent_id])
        \cup Check(RiskPerUnit(core) > 0, "account_risk_distance_positive")
        \cup CheckLeverage(p, instrument_limits[core.instrument_id])
        \cup Check(fb.drawdown_pct >= drawdown_halt_pct, "firm_drawdown_pct")
        \cup Check(100 * p.cash >= cash_reserve_min_pct * nav, "cash_reserve_pct")
        \cup CheckInstrumentLimits(p, nav, instrument_limits[core.instrument_id])
        \cup CheckVenueLimits(p, nav, venue_limits[core.venue_id])
        \cup IF path = "SubmitSignal" THEN CheckSignalRequirements(core) ELSE {}

\* The quantities that check_position_limit and check_account_risk would cut
\* an order to: 5% of NAV in notional, 1% of NAV in loss at the stop.
ResizeCandidates(core, nav) ==
  LET by_notional == Quotient(nav * position_nav_cap, 100 * core.price)
      by_risk     == Quotient(nav * account_risk_nav_cap, 100 * RiskPerUnit(core))
  IN  (IF 100 * core.qty * core.price > nav * position_nav_cap THEN {by_notional} ELSE {})
        \cup (IF 100 * core.qty * RiskPerUnit(core) > nav * account_risk_nav_cap
                THEN {by_risk} ELSE {})

Rejected(violations) == [kind |-> "Rejected", violations |-> violations]
Resized(qty) == [kind |-> "Resized", new_qty |-> qty]
Approved == [kind |-> "Approved"]

\* Mutant: the widest of the candidates wins.
WidestResize(candidates) == Max(candidates)

TightestResize(candidates) == Min(candidates)

\* evaluate: hard violations, of the order as it was asked for, come first; an
\* order without any may be cut to the tightest of the two caps.
Evaluate(core, fb, path) ==
  IF Unevaluable(core, fb) THEN Rejected({"unevaluable"})
  ELSE LET violations == HardViolations(core, fb, path)
           candidates == ResizeCandidates(core, EffectiveNav(fb))
       IN  IF violations # {} THEN Rejected(violations)
           ELSE IF candidates # {} THEN Resized(TightestResize(candidates))
           ELSE Approved
=============================================================================
