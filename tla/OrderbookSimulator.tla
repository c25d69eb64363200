------------------------- MODULE OrderbookSimulator -------------------------
(***************************************************************************)
(* Orderbook snapshots (crates/types/src/market_data.rs) and the           *)
(* depth-walking simulation of an order against one                        *)
(* (LiveOrderbookFillSimulator of crates/gateway/src/lib.rs).              *)
(*                                                                         *)
(* A book has two sides, sequences of levels [price, qty]; an order has a  *)
(* side, an order_type and a price.  Only quantities are kept: the average *)
(* price, fee, slippage and impact of a fill are left out.                 *)
(***************************************************************************)
EXTENDS Integers, Sequences, FiniteSetsExt

\* Mutant: the order of the levels is not checked.
ValidateSideUnsorted(levels, descending) ==
  \A i \in DOMAIN levels : levels[i].price > 0 /\ levels[i].qty > 0

\* Positive levels, best price first.
ValidateSide(levels, descending) ==
  /\ \A i \in DOMAIN levels : levels[i].price > 0 /\ levels[i].qty > 0
  /\ \A i \in 2 .. Len(levels) :
       IF descending THEN levels[i - 1].price >= levels[i].price
                     ELSE levels[i - 1].price <= levels[i].price

\* A side may be empty; two sides may touch but not cross.
Validate(book) ==
  /\ ValidateSide(book.bids, TRUE)
  /\ ValidateSide(book.asks, FALSE)
  /\ book.bids # <<>> /\ book.asks # <<>> => book.bids[1].price <= book.asks[1].price

\* The side of the book that an order takes from.
Opposite(s, book) == IF s.side = "Buy" THEN book.asks ELSE book.bids

IsLevelFillable(s, level) ==
  \/ s.order_type = "Market"
  \/ IF s.side = "Buy" THEN level.price <= s.price ELSE level.price >= s.price

\* The levels the walk visits before it breaks at one the limit excludes.
FillableLevels(s, levels) ==
  {i \in DOMAIN levels : \A j \in 1 .. i : IsLevelFillable(s, levels[j])}

Depth(levels, visited) == MapThenSumSet(LAMBDA i : levels[i].qty, visited)

\* Simulate qty of submission s: an error when the book cannot be used or has
\* nothing on the opposite side, else the quantity executed (none: it rests).
Simulate(s, qty, book) ==
  LET levels == Opposite(s, book)
      depth  == Depth(levels, FillableLevels(s, levels))
  IN  [ok |-> qty > 0 /\ Validate(book) /\ levels # <<>>,
       qty |-> IF depth < qty THEN depth ELSE qty]

-----------------------------------------------------------------------------
\* What the walk is meant to execute: the quantity, up to all the depth whose
\* price the order's limit allows, wherever in the book it stands.
AllDepthWithinLimit(s, qty, book) ==
  LET levels == Opposite(s, book)
      depth  == Depth(levels, {i \in DOMAIN levels : IsLevelFillable(s, levels[i])})
  IN  IF depth < qty THEN depth ELSE qty
=============================================================================
