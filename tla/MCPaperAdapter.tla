--------------------------- MODULE MCPaperAdapter ---------------------------
(* Small instances of PaperAdapter for TLC. *)
EXTENDS PaperAdapter

CONSTANTS c1, c2

Order(side, order_type, price, tif, qty) ==
  [venue_id |-> "paper", market_id |-> "m1", side |-> side, order_type |-> order_type,
   price |-> price, time_in_force |-> tif, qty |-> qty, post_only |-> FALSE]

MCSubmissions ==
  {Order("Buy", "Limit", 2, "GTC", 2), Order("Buy", "Market", None, "IOC", 2),
   Order("Buy", "Limit", 2, "FOK", 2),
   [Order("Sell", "Limit", 2, "GTC", 2) EXCEPT !.post_only = TRUE]}

Level(price, qty) == [price |-> price, qty |-> qty]

Book(bids, asks) == [venue_id |-> "paper", market_id |-> "m1", bids |-> bids, asks |-> asks]

MCSnapshots ==
  {Book(<<Level(1, 1)>>, <<Level(3, 1)>>),
   Book(<<Level(2, 1), Level(1, 1)>>, <<Level(2, 1), Level(3, 1)>>),
   Book(<<Level(1, 1)>>, <<Level(1, 1), Level(2, 1)>>),
   Book(<<>>, <<Level(2, 1)>>),
   Book(<<Level(1, 1)>>, <<Level(3, 1), Level(2, 1)>>)}

ASSUME LiveOrderbookAssumption == UsesLiveOrderbook

Symmetry == Permutations(ClientOrderIds)
=============================================================================
