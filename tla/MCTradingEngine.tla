-------------------------- MODULE MCTradingEngine --------------------------
(* Small instances of TradingEngine for TLC. *)
EXTENDS TradingEngine

CONSTANTS o1, o2, a1

MCAgentOf == [o \in OrderIds |-> a1]
MCQty == [o \in OrderIds |-> 2]
MCFillQtys == 1 .. 2

\* One order reaches a venue, the other finds no adapter or is simulated.
OneUnroutable == [o \in OrderIds |-> IF o = o1 THEN "live" ELSE "unroutable"]
OneDryRun == [o \in OrderIds |-> IF o = o1 THEN "live" ELSE "dry_run"]

Submissions == [type: {"SubmitOrder"}, order: OrderIds]

SubmitAndShutdown == Submissions \cup [type: {"Shutdown"}]
=============================================================================
