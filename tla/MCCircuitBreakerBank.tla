------------------------ MODULE MCCircuitBreakerBank ------------------------
(* Small instance of CircuitBreakerBank for TLC. *)
EXTENDS CircuitBreakerBank, FiniteSets

MCConfig ==
  [max_single_order_notional |-> 4, max_instrument_position_notional |-> 10,
   max_firm_gross_notional |-> 20, max_daily_loss_pct |-> 5, max_hourly_loss_pct |-> 2,
   max_firm_orders_per_min |-> 3, max_agent_orders_per_min |-> 2, max_venue_error_pct |-> 50,
   max_venue_disconnect_secs |-> 30, max_sequencer_queue_depth |-> 8]

\* A context at every limit that no breaker objects to.
AtTheLimits ==
  [operation_kind |-> "NewOrder", has_order |-> TRUE, price |-> 2, qty |-> 2, side |-> "Buy",
   dry_run |-> TRUE, execution_mode |-> "Paper", instrument_net |-> 0, instrument_gross |-> 6,
   gross_notional |-> 20, nav |-> 100, daily_pnl |-> -5, hourly_pnl |-> -2,
   firm_orders_last_60s |-> 3, agent_orders_last_60s |-> 2, venue_errors |-> 1,
   venue_total |-> 2, venue_health |-> "connected", since_heartbeat |-> 61,
   sequencer_queue_depth |-> 8]

\* Single departures from it: one step over each limit, and the cases in which
\* a check does not apply.
Departures ==
  {<<"has_order", FALSE>>, <<"price", 0>>, <<"price", 3>>, <<"side", "Sell">>,
   <<"dry_run", FALSE>>, <<"execution_mode", "Live">>, <<"instrument_gross", 12>>,
   <<"gross_notional", 21>>, <<"nav", 0>>, <<"daily_pnl", -6>>, <<"hourly_pnl", -3>>,
   <<"firm_orders_last_60s", 4>>, <<"agent_orders_last_60s", 3>>, <<"venue_errors", 2>>,
   <<"venue_total", 0>>, <<"venue_health", "unknown">>, <<"venue_health", "unsubmittable">>,
   <<"venue_health", "no heartbeat">>, <<"since_heartbeat", 62>>, <<"since_heartbeat", -1>>,
   <<"since_heartbeat", -2>>, <<"sequencer_queue_depth", 9>>}

Depart(ds) ==
  [f \in DOMAIN AtTheLimits |->
     IF \E d \in ds : d[1] = f THEN (CHOOSE d \in ds : d[1] = f)[2] ELSE AtTheLimits[f]]

\* Up to two departures at once, for each kind of operation.
MCContexts ==
  {[Depart({d, e}) EXCEPT !.operation_kind = kind] :
     d \in Departures \cup {<<"dry_run", TRUE>>}, e \in Departures, kind \in OperationKind}
=============================================================================
