------------------------- MODULE CircuitBreakerBank -------------------------
(***************************************************************************)
(* The Layer 0 safety checks CB-1 to CB-11 and the bank that runs them     *)
(* (crates/risk/src/circuit_breaker.rs).                                   *)
(*                                                                         *)
(* Eight breakers only look at the context of the call; CB-3, CB-4 and     *)
(* CB-5 also latch, and stay latched until an operator resets them.  A     *)
(* context is a record of the numbers the breakers read; the caller builds *)
(* it afresh for every call, so each call may bring any of Contexts.       *)
(* Fractions of the configuration are in percent, and elapsed time is in   *)
(* ticks, TicksPerSecond of them in a second.                              *)
(***************************************************************************)
EXTENDS Integers, Sequences

CONSTANTS
  Contexts,          \* contexts a call may bring
  Config,            \* CircuitBreakerConfig
  TicksPerSecond,    \* resolution of the clock
  None               \* the absent value of an Option

Latching == {"CB-3", "CB-4", "CB-5"}

Breaker ==
  {"CB-1", "CB-2", "CB-3", "CB-4", "CB-5", "CB-6", "CB-7", "CB-8", "CB-9", "CB-10", "CB-11"}

OperationKind == {"NewOrder", "ReduceOnly", "Cancel"}

ResetReason == {"ManualOperator", "CioApproval"}

ASSUME CircuitBreakerBankAssumption ==
  /\ TicksPerSecond \in Nat \ {0}
  /\ \A ctx \in Contexts : ctx.operation_kind \in OperationKind
  /\ None \notin Breaker \cup OperationKind

VARIABLES
  tripped,           \* the latched breakers
  last,              \* history: the last call of check_all and its result
  halted             \* history: breakers that latched and were not properly reset since

vars == <<tripped, last, halted>>

-----------------------------------------------------------------------------
(* The checks.  CircuitBreaker::check of each breaker objects to ctx.       *)

\* An order with a usable price; the others are left to the risk gate.
Priced(ctx) == ctx.has_order /\ ctx.price > 0

Notional(ctx) == ctx.qty * ctx.price

Cb1(ctx) == Priced(ctx) /\ Notional(ctx) > Config.max_single_order_notional

\* project_net_and_gross: a trade first reduces the opposite side of the book.
ProjectedGross(net, gross, delta) ==
  LET long      == (gross + net) \div 2
      short     == (gross - net) \div 2
      size      == IF delta >= 0 THEN delta ELSE -delta
      opposite  == IF delta >= 0 THEN short ELSE long
      reduction == IF size < opposite THEN size ELSE opposite
  IN  gross - reduction + (size - reduction)

Cb2(ctx) ==
  LET delta == IF ctx.side = "Buy" THEN Notional(ctx) ELSE -Notional(ctx)
  IN  /\ Priced(ctx)
      /\ ProjectedGross(ctx.instrument_net, ctx.instrument_gross, delta)
           > Config.max_instrument_position_notional

Cb3(ctx) == ctx.gross_notional > Config.max_firm_gross_notional

\* A loss beyond a percentage of NAV; without a positive NAV there is no limit.
LossBreached(pnl, nav, max_loss_pct) == nav > 0 /\ 100 * pnl < -(max_loss_pct * nav)

Cb4(ctx) == LossBreached(ctx.daily_pnl, ctx.nav, Config.max_daily_loss_pct)

Cb5(ctx) == LossBreached(ctx.hourly_pnl, ctx.nav, Config.max_hourly_loss_pct)

Cb6(ctx) == ctx.firm_orders_last_60s > Config.max_firm_orders_per_min

Cb7(ctx) == ctx.has_order /\ ctx.agent_orders_last_60s > Config.max_agent_orders_per_min

Cb8(ctx) ==
  /\ ctx.has_order
  /\ ctx.venue_total > 0
  /\ 100 * ctx.venue_errors > Config.max_venue_error_pct * ctx.venue_total

\* Duration::num_seconds: whole seconds, rounded towards zero.
NumSeconds(ticks) ==
  IF ticks >= 0 THEN ticks \div TicksPerSecond ELSE -((-ticks) \div TicksPerSecond)

\* venue_health is "unknown" without a health record, "unsubmittable" in any
\* state but Connected, "no heartbeat" if none came yet, else "connected".
Cb9(ctx) ==
  /\ ctx.has_order
  /\ \/ ctx.venue_health # "connected"
     \/ NumSeconds(ctx.since_heartbeat) < 0
     \/ NumSeconds(ctx.since_heartbeat) > Config.max_venue_disconnect_secs

Cb10(ctx) == ctx.has_order /\ ~ ctx.dry_run /\ ctx.execution_mode # "Live"

Cb11(ctx) == ctx.sequencer_queue_depth > Config.max_sequencer_queue_depth

Breached(ctx) ==
  {b \in Breaker :
     \/ b = "CB-1" /\ Cb1(ctx)
     \/ b = "CB-2" /\ Cb2(ctx)
     \/ b = "CB-3" /\ Cb3(ctx)
     \/ b = "CB-4" /\ Cb4(ctx)
     \/ b = "CB-5" /\ Cb5(ctx)
     \/ b = "CB-6" /\ Cb6(ctx)
     \/ b = "CB-7" /\ Cb7(ctx)
     \/ b = "CB-8" /\ Cb8(ctx)
     \/ b = "CB-9" /\ Cb9(ctx)
     \/ b = "CB-10" /\ Cb10(ctx)
     \/ b = "CB-11" /\ Cb11(ctx)}

-----------------------------------------------------------------------------
(* The bank *)

\* Mutant: the hourly halt holds reduce-only orders too.
ExemptButCb5(kind) ==
  CASE kind = "Cancel" -> Breaker
    [] kind = "ReduceOnly" -> {"CB-1", "CB-3", "CB-4"}
    [] OTHER -> {}

\* Breakers an operation is not subject to, latched or not.
Exempt(kind) ==
  CASE kind = "Cancel" -> Breaker
    [] kind = "ReduceOnly" -> {"CB-1", "CB-3", "CB-4", "CB-5"}
    [] OTHER -> {}

\* The order of the early returns on latches, and of the fresh checks.
LatchOrder == <<"CB-4", "CB-5", "CB-3">>

CheckOrder ==
  <<"CB-10", "CB-4", "CB-5", "CB-3", "CB-11", "CB-1", "CB-2", "CB-6", "CB-7", "CB-8", "CB-9">>

\* The first of the sequence that is in the set, if any is.
FirstIn(order, set) ==
  LET hits == {i \in DOMAIN order : order[i] \in set}
  IN  IF hits = {} THEN None
      ELSE order[CHOOSE i \in hits : \A j \in hits : i <= j]

\* Mutants: a latch, even one that does not apply, hides the fresh checks; all
\* breakers are evaluated although one is latched.
ObjectionBehindLatch(ctx) ==
  IF tripped # {} THEN FirstIn(LatchOrder, tripped \ Exempt(ctx.operation_kind))
  ELSE FirstIn(CheckOrder, Breached(ctx) \ Exempt(ctx.operation_kind))

ObjectionOfAll(ctx) ==
  FirstIn(CheckOrder, (tripped \cup Breached(ctx)) \ Exempt(ctx.operation_kind))

\* The breaker whose objection check_all returns, or None.
Objection(ctx) ==
  LET latched == tripped \ Exempt(ctx.operation_kind)
  IN  IF latched # {} THEN FirstIn(LatchOrder, latched)
      ELSE FirstIn(CheckOrder, Breached(ctx) \ Exempt(ctx.operation_kind))

Verdict(breaker) ==
  CASE breaker = None -> "Pass"
    [] breaker \in {"CB-4", "CB-5"} -> "HaltAll"
    [] OTHER -> "Reject"

\* No call since the last reset.
NoCall ==
  [operation_kind |-> None, verdict |-> "Pass", breaker |-> None, breached |-> {}]

\* Mutant: every breaker latches.
CheckAllLatching(ctx) ==
  LET breaker == Objection(ctx)
  IN  /\ tripped' = tripped \cup ({breaker} \cap Breaker)
      /\ halted' = halted
      /\ last' = [operation_kind |-> ctx.operation_kind, verdict |-> Verdict(breaker),
                  breaker |-> breaker, breached |-> Breached(ctx)]

\* check_all: the first objection is returned, and latches if it can.
CheckAll(ctx) ==
  LET breaker == Objection(ctx)
  IN  /\ tripped' = tripped \cup ({breaker} \cap Latching)
      /\ halted' = halted \cup ({breaker} \cap Latching)
      /\ last' = [operation_kind |-> ctx.operation_kind, verdict |-> Verdict(breaker),
                  breaker |-> breaker, breached |-> Breached(ctx)]

\* Mutant: any operator may reset any latch.
ResetByAnyone(breaker, reason) == breaker \in Latching

\* reset accepts: only latching breakers, CB-4 with the CIO's approval only.
ResetAccepted(breaker, reason) ==
  /\ breaker \in Latching
  /\ breaker = "CB-4" => reason = "CioApproval"

\* A reset that is refused changes nothing.
Reset(breaker, reason) ==
  /\ ResetAccepted(breaker, reason)
  /\ tripped' = tripped \ {breaker}
  /\ halted' = IF breaker = "CB-4" /\ reason # "CioApproval" THEN halted
               ELSE halted \ {breaker}
  /\ last' = NoCall

Init ==
  /\ tripped = {}
  /\ last = NoCall
  /\ halted = {}

Next ==
  \/ \E ctx \in Contexts : CheckAll(ctx)
  \/ \E breaker \in Breaker, reason \in ResetReason : Reset(breaker, reason)

Spec == Init /\ [][Next]_vars

-----------------------------------------------------------------------------
(* Properties *)

\* Type correctness of the bank.
TypeOK ==
  /\ tripped \subseteq Latching
  /\ halted \subseteq Latching
  /\ last \in [operation_kind: OperationKind \cup {None},
               verdict: {"Pass", "Reject", "HaltAll"}, breaker: Breaker \cup {None},
               breached: SUBSET Breaker]

\* A breaker that latched keeps every new order out until it is properly reset,
\* however the book recovers, whichever other breakers trip or are reset
\* meanwhile, and a daily-loss halt takes the CIO: while it lasts the answer to
\* a new order is HaltAll.
HaltHolds ==
  last.operation_kind = "NewOrder" =>
    /\ halted # {} => last.verdict # "Pass"
    /\ "CB-4" \in halted => last.verdict = "HaltAll"

\* The bank lets nothing through that a breaker objects to, and objects only in
\* the name of a breaker that is breached or latched and applies: the early
\* returns and the exemptions of reduce-only orders and cancels hide no check.
PassMeansClear ==
  last.operation_kind # None =>
    /\ last.verdict = "Pass" => last.breached \subseteq Exempt(last.operation_kind)
    /\ last.verdict # "Pass" =>
         last.breaker \in (last.breached \cup tripped) \ Exempt(last.operation_kind)

\* A latch keeps the other latching breakers from being evaluated, so at most one
\* is latched at any time: one proper reset reopens trading, and no loss halt is
\* raised while CB-3 is latched, however deep the loss.
OneLatchAtATime == \A a, b \in tripped : a = b

\* De-risking is never stopped by a halt: cancels always pass, reduce-only
\* orders are held up by checks that do not latch only, and neither trips or
\* releases a breaker.
DeRiskingIgnoresHalts ==
  [][last'.operation_kind \in {"ReduceOnly", "Cancel"} =>
       /\ last'.verdict # "HaltAll"
       /\ last'.breaker \notin Latching
       /\ last'.operation_kind = "Cancel" => last'.verdict = "Pass"
       /\ tripped' = tripped]_vars
=============================================================================
