---------------------------- MODULE MCLiveOrder ----------------------------
(* Small instance of LiveOrder for TLC. *)
EXTENDS LiveOrder, TLC

CONSTANTS o1, o2

\* Enough for a fill that completes an order at once, in two parts and in three.
MCQty == [o \in OrderIds |-> 3]

Symmetry == Permutations(OrderIds) \cup Permutations(VenueOrderIds)
=============================================================================
