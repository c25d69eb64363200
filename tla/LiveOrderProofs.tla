-------------------------- MODULE LiveOrderProofs --------------------------
(* Proofs about the order state machine of LiveOrder. *)
EXTENDS LiveOrder, TLAPS

\* What a state may become, state by state (try_transition).
LEMMA Transitions ==
  /\ MayBecome("Submitted") = {"Accepted", "Triggered", "VenueRejected"}
  /\ MayBecome("Triggered") = {"Accepted"}
  /\ MayBecome("Accepted") = {"PartiallyFilled", "Filled", "Cancelled", "Expired"}
  /\ MayBecome("PartiallyFilled") = {"PartiallyFilled", "Filled", "Cancelled"}
  /\ \A s \in VenueState : IsTerminal(s) => MayBecome(s) = {}
BY DEF MayBecome, IsTerminal, VenueState

\* The states each new state can be entered from.
LEMMA Sources ==
  ASSUME NEW s \in VenueState, NEW t, t \in MayBecome(s)
  PROVE  /\ t = "Accepted" => s \in {"Submitted", "Triggered"}
         /\ t = "Triggered" => s = "Submitted"
         /\ t = "VenueRejected" => s = "Submitted"
         /\ t \in {"PartiallyFilled", "Filled", "Cancelled"} => s \in {"Accepted", "PartiallyFilled"}
         /\ t = "Expired" => s = "Accepted"
         /\ ~ IsTerminal(s)
BY Transitions DEF VenueState, IsTerminal

\* An action on one order leaves the others alone, so the invariants need only
\* be shown of that order.
OrderOK(o, r) ==
  r # None =>
    /\ r \in Order
    /\ r.filled_qty + r.remaining_qty = Qty[o]
    /\ (r.venue_state = "Filled") <=> (r.remaining_qty = 0)
    /\ r.venue_state \in Summarised =>
         r.summary = [filled_qty |-> r.filled_qty, remaining_qty |-> r.remaining_qty]
    /\ (r.venue_order_id = None) <=> (r.venue_state \in {"Submitted", "Triggered", "VenueRejected"})

Inv ==
  /\ live \in [OrderIds -> Order \cup {None}]
  /\ \A o \in OrderIds : OrderOK(o, live[o])

\* The invariant implies the properties of the runs.
LEMMA InvImplies == Inv => TypeOK /\ QuantitiesAddUp /\ OnBookHasVenueId
BY DEF Inv, OrderOK, TypeOK, QuantitiesAddUp, OnBookHasVenueId, Submitted

\* If the record of one order is replaced by a sound one, the invariant holds.
LEMMA InvUpdate ==
  ASSUME Inv, NEW o \in OrderIds, NEW r \in Order, OrderOK(o, r),
         live' = [live EXCEPT ![o] = r]
  PROVE  Inv'
BY DEF Inv, OrderOK

\* Every call that succeeds turns a sound record into a sound record.
LEMMA InvNext == Inv /\ Next => Inv'
<1> SUFFICES ASSUME Inv, NEW o \in OrderIds,
                    \/ FromRouted(o)
                    \/ \E v \in VenueOrderIds : OnAccepted(o, v)
                    \/ OnTriggered(o)
                    \/ \E qty \in 1 .. Qty[o] : OnFill(o, qty)
                    \/ OnCancel(o)
                    \/ OnExpire(o)
                    \/ OnReject(o)
             PROVE  Inv'
  BY DEF Next
<1> USE LiveOrderAssumption
<1>q. Qty[o] \in Nat /\ Qty[o] # 0
  OBVIOUS
<1>r. live[o] # None => live[o] \in Order /\ OrderOK(o, live[o])
  BY DEF Inv
<1>1. CASE FromRouted(o)
  <2> DEFINE r == [venue_state |-> "Submitted", summary |-> None, venue_order_id |-> None,
                   filled_qty |-> 0, remaining_qty |-> Qty[o]]
  <2>1. r \in Order /\ OrderOK(o, r)
    BY <1>q DEF Order, OrderOK, VenueState, Summarised
  <2>2. live' = [live EXCEPT ![o] = r]
    BY <1>1 DEF FromRouted
  <2> HIDE DEF r
  <2> QED BY <2>1, <2>2, InvUpdate
<1>2. CASE \E v \in VenueOrderIds : OnAccepted(o, v)
  <2>1. PICK v \in VenueOrderIds : OnAccepted(o, v)
    BY <1>2
  <2> DEFINE r == [live[o] EXCEPT !.venue_state = "Accepted", !.venue_order_id = v]
  <2>2. live[o] \in Order /\ OrderOK(o, live[o]) /\ live[o].venue_state \in {"Submitted", "Triggered"}
    BY <1>r, <2>1, Sources DEF OnAccepted, Transition, Submitted, Order
  <2>3. r \in Order /\ OrderOK(o, r)
    BY <2>2 DEF Order, OrderOK, VenueState, Summarised
  <2>4. live' = [live EXCEPT ![o] = r]
    BY <2>1 DEF OnAccepted, Inv
  <2> HIDE DEF r
  <2> QED BY <2>3, <2>4, InvUpdate
<1>3. CASE OnTriggered(o)
  <2> DEFINE r == [live[o] EXCEPT !.venue_state = "Triggered"]
  <2>2. live[o] \in Order /\ OrderOK(o, live[o]) /\ live[o].venue_state = "Submitted"
    BY <1>r, <1>3, Sources DEF OnTriggered, Transition, Submitted, Order
  <2>3. r \in Order /\ OrderOK(o, r)
    BY <2>2 DEF Order, OrderOK, VenueState, Summarised
  <2>4. live' = [live EXCEPT ![o] = r]
    BY <1>3 DEF OnTriggered, Inv
  <2> HIDE DEF r
  <2> QED BY <2>3, <2>4, InvUpdate
<1>4. CASE \E qty \in 1 .. Qty[o] : OnFill(o, qty)
  <2>1. PICK qty \in 1 .. Qty[o] : OnFill(o, qty)
    BY <1>4
  <2> DEFINE r == FilledBy(live[o], qty)
  <2>2. /\ live[o] \in Order /\ OrderOK(o, live[o])
        /\ qty \in Nat /\ qty > 0 /\ qty <= live[o].remaining_qty
    BY <1>r, <1>q, <2>1 DEF OnFill, Submitted, Order
  <2>3. r.venue_state \in {"PartiallyFilled", "Filled"}
    BY <2>2 DEF FilledBy, Order
  <2>4. live[o].venue_state \in {"Accepted", "PartiallyFilled"}
    BY <2>1, <2>2, <2>3, Sources DEF OnFill, Transition, Order
  <2> DEFINE filled    == live[o].filled_qty + qty
             remaining == live[o].remaining_qty - qty
             state     == IF remaining = 0 THEN "Filled" ELSE "PartiallyFilled"
             summary   == [filled_qty |-> filled, remaining_qty |-> remaining]
  <2>a. /\ filled \in Nat /\ remaining \in Nat
        /\ filled + remaining = Qty[o]
    BY <1>q, <2>2, <2>4 DEF Order, OrderOK
  <2>b. summary \in FillSummary
    BY <2>a DEF FillSummary
  <2>c. state \in {"Filled", "PartiallyFilled"} /\ (state = "Filled" <=> remaining = 0)
    OBVIOUS
  <2>d. r = [venue_state |-> state, summary |-> summary,
             venue_order_id |-> live[o].venue_order_id,
             filled_qty |-> filled, remaining_qty |-> remaining]
    BY DEF FilledBy
  <2>e. live[o].venue_order_id \in VenueOrderIds
    BY <2>2, <2>4 DEF Order, OrderOK
  <2>5. r \in Order /\ OrderOK(o, r)
    <3> HIDE DEF filled, remaining, state
    <3> HIDE DEF r
    <3>1. r \in Order
      BY <2>a, <2>b, <2>c, <2>d, <2>e DEF Order, VenueState
    <3> QED
      BY <3>1, <2>a, <2>c, <2>d, <2>e DEF OrderOK, Summarised
  <2>6. live' = [live EXCEPT ![o] = r]
    BY <2>1 DEF OnFill, Inv
  <2> HIDE DEF r
  <2> QED BY <2>5, <2>6, InvUpdate
<1>5. ASSUME NEW s \in {"Cancelled", "Expired"}, Close(o, s)
      PROVE  Inv'
  <2> DEFINE r == [live[o] EXCEPT !.venue_state = s,
                     !.summary = [filled_qty |-> live[o].filled_qty,
                                  remaining_qty |-> live[o].remaining_qty]]
  <2>2. /\ live[o] \in Order /\ OrderOK(o, live[o])
        /\ live[o].venue_state \in {"Accepted", "PartiallyFilled"}
    BY <1>r, <1>5, Sources DEF Close, Transition, Submitted, Order
  <2>3. r \in Order /\ OrderOK(o, r)
    BY <2>2 DEF Order, OrderOK, VenueState, Summarised, FillSummary
  <2>4. live' = [live EXCEPT ![o] = r]
    BY <1>5 DEF Close, Inv
  <2> HIDE DEF r
  <2> QED BY <2>3, <2>4, InvUpdate
<1>6. CASE OnReject(o)
  <2> DEFINE r == [live[o] EXCEPT !.venue_state = "VenueRejected"]
  <2>2. live[o] \in Order /\ OrderOK(o, live[o]) /\ live[o].venue_state = "Submitted"
    BY <1>r, <1>6, Sources DEF OnReject, Transition, Submitted, Order
  <2>3. r \in Order /\ OrderOK(o, r)
    BY <2>2 DEF Order, OrderOK, VenueState, Summarised
  <2>4. live' = [live EXCEPT ![o] = r]
    BY <1>6 DEF OnReject, Inv
  <2> HIDE DEF r
  <2> QED BY <2>3, <2>4, InvUpdate
<1> QED BY <1>1, <1>2, <1>3, <1>4, <1>5, <1>6 DEF OnCancel, OnExpire

\* The invariant holds of every behaviour.
LEMMA Invariance == Spec => []Inv
<1>1. Init => Inv
  BY DEF Init, Inv, OrderOK
<1>2. Inv /\ [Next]_live => Inv'
  <2>1. Inv /\ UNCHANGED live => Inv'
    BY DEF Inv, OrderOK
  <2> QED BY <2>1, InvNext
<1> QED BY <1>1, <1>2, PTL DEF Spec

\* Every reachable order record has its type.
THEOREM TypeCorrect == Spec => []TypeOK
BY Invariance, InvImplies, PTL

\* For every set of orders and every quantity: quantities add up, Filled means
\* nothing remains, and a summary is that of the fills the order had.
THEOREM QuantitiesCorrect == Spec => []QuantitiesAddUp
BY Invariance, InvImplies, PTL

\* An order rests or executes only under the id its venue gave it.
THEOREM VenueIdCorrect == Spec => []OnBookHasVenueId
BY Invariance, InvImplies, PTL

\* No call changes an order that reached a terminal state.
THEOREM TerminalAbsorbing == Spec => TerminalIsAbsorbing
<1>1. ASSUME Inv, Next
      PROVE  \A o \in OrderIds :
               Submitted(o) /\ IsTerminal(live[o].venue_state) => live'[o] = live[o]
  <2> SUFFICES ASSUME NEW o \in OrderIds, Submitted(o), IsTerminal(live[o].venue_state)
               PROVE  live'[o] = live[o]
    OBVIOUS
  <2>1. \A t : ~ Transition(o, t)
    BY <1>1, Sources DEF Inv, Transition, Submitted, Order
  <2>2. PICK p \in OrderIds :
          \/ FromRouted(p)
          \/ \E v \in VenueOrderIds : OnAccepted(p, v)
          \/ OnTriggered(p)
          \/ \E qty \in 1 .. Qty[p] : OnFill(p, qty)
          \/ OnCancel(p)
          \/ OnExpire(p)
          \/ OnReject(p)
    BY <1>1 DEF Next
  <2>3. p # o
    BY <2>1, <2>2 DEF FromRouted, OnAccepted, OnTriggered, OnFill, OnCancel, OnExpire, OnReject, Close
  <2> QED
    BY <1>1, <2>2, <2>3
    DEF FromRouted, OnAccepted, OnTriggered, OnFill, OnCancel, OnExpire, OnReject, Close, Inv
<1>2. Inv /\ [Next]_live =>
        [\A o \in OrderIds :
           Submitted(o) /\ IsTerminal(live[o].venue_state) => live'[o] = live[o]]_live
  BY <1>1
<1> QED BY <1>2, Invariance, PTL DEF Spec, TerminalIsAbsorbing
=============================================================================
