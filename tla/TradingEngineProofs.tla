------------------------ MODULE TradingEngineProofs ------------------------
(***************************************************************************)
(* Proofs about the sequencer and the venue submit task together, for any  *)
(* orders, channel capacities, crashes and restarts.  Four invariants      *)
(* build on what SequencerProofs shows of the sequencer alone:             *)
(*                                                                         *)
(*   EngineInv     reports about one order are on their way in an order    *)
(*                 the sequencer accepts, and the first of them fits the   *)
(*                 record as it is now;                                    *)
(*   AcceptInv     an order a venue accepted is known to this incarnation, *)
(*                 and its ack is on its way as long as it is Pending;     *)
(*   LifecycleInv  a commit moves one record on from the durable state, as *)
(*                 a LiveOrder may move;                                   *)
(*   RoutedInv     what is queued, at work or at a venue was dispatched,   *)
(*                 once per epoch.                                         *)
(***************************************************************************)
EXTENDS TradingEngine, SequencerProofs

-----------------------------------------------------------------------------
(* Reports on their way to the sequencer *)

\* The report c is on its way and ahead of the report d.
Before(c, d) ==
  \/ \E i, j \in DOMAIN high_priority : i < j /\ c = high_priority[i] /\ d = high_priority[j]
  \/ \E i, j \in DOMAIN outbox : i < j /\ c = outbox[i] /\ d = outbox[j]
  \/ \E i \in DOMAIN high_priority, j \in DOMAIN outbox : c = high_priority[i] /\ d = outbox[j]

\* Where a report on its way can be.
LEMMA InFlightIsIn ==
  ASSUME NEW c
  PROVE  InFlight(c) <=> \/ \E i \in DOMAIN high_priority : high_priority[i] = c
                         \/ \E i \in DOMAIN outbox : outbox[i] = c
BY DEF InFlight

\* A sequence with one element more, as a function.
LEMMA AppendFacts ==
  ASSUME NEW S, NEW s \in Seq(S), NEW x \in S
  PROVE  /\ Append(s, x) \in Seq(S)
         /\ DOMAIN s = 1 .. Len(s) /\ Len(s) \in Nat
         /\ DOMAIN Append(s, x) = 1 .. Len(s) + 1
         /\ \A i \in 1 .. Len(s) : Append(s, x)[i] = s[i]
         /\ Append(s, x)[Len(s) + 1] = x
BY AppendProperties

\* A sequence without its first element, as a function.
LEMMA TailFacts ==
  ASSUME NEW S, NEW s \in Seq(S), s # <<>>
  PROVE  /\ Tail(s) \in Seq(S) /\ Head(s) \in S
         /\ Len(s) \in Nat /\ Len(s) >= 1
         /\ DOMAIN s = 1 .. Len(s)
         /\ DOMAIN Tail(s) = 1 .. Len(s) - 1
         /\ \A i \in 1 .. Len(s) - 1 : Tail(s)[i] = s[i + 1]
         /\ Head(s) = s[1]
BY HeadTailProperties

\* Handing a report from the task to the channel changes nothing in this order.
LEMMA ReportMoves ==
  ASSUME NEW S, high_priority \in Seq(S), outbox \in Seq(S), outbox # <<>>,
         high_priority' = Append(high_priority, Head(outbox)), outbox' = Tail(outbox)
  PROVE  \A c, d : /\ InFlight(c)' <=> InFlight(c)
                   /\ Before(c, d)' <=> Before(c, d)
<1> DEFINE n == Len(high_priority)
           m == Len(outbox)
<1>1. /\ n \in Nat /\ DOMAIN high_priority = 1 .. n /\ DOMAIN high_priority' = 1 .. n + 1
      /\ \A i \in 1 .. n : high_priority'[i] = high_priority[i]
      /\ high_priority'[n + 1] = outbox[1]
  <2>1. Head(outbox) \in S /\ Head(outbox) = outbox[1]
    BY TailFacts
  <2> QED BY <2>1, AppendFacts
<1>2. /\ m \in Nat /\ m >= 1 /\ DOMAIN outbox = 1 .. m /\ DOMAIN outbox' = 1 .. m - 1
      /\ \A i \in 1 .. m - 1 : outbox'[i] = outbox[i + 1]
  BY TailFacts
<1> HIDE DEF n, m
<1>3. ASSUME NEW c, InFlight(c) PROVE InFlight(c)'
  <2>1. CASE \E i \in 1 .. n : high_priority[i] = c
    <3>1. \E i \in 1 .. n + 1 : high_priority'[i] = c
      BY <1>1, <2>1
    <3> QED BY <1>1, <3>1 DEF InFlight
  <2>2. CASE \E i \in 1 .. m : outbox[i] = c
    <3>1. PICK i \in 1 .. m : outbox[i] = c
      BY <2>2
    <3>2. CASE i = 1
      <4>1. n + 1 \in DOMAIN high_priority' /\ high_priority'[n + 1] = c
        BY <1>1, <3>1, <3>2
      <4> QED BY <4>1 DEF InFlight
    <3>3. CASE i # 1
      <4>1. i - 1 \in DOMAIN outbox' /\ outbox'[i - 1] = c
        BY <1>2, <3>1, <3>3
      <4> QED BY <4>1 DEF InFlight
    <3> QED BY <3>2, <3>3
  <2> QED BY <1>1, <1>2, <1>3, <2>1, <2>2, InFlightIsIn
<1>4. ASSUME NEW c, InFlight(c)' PROVE InFlight(c)
  <2>1. CASE \E i \in 1 .. n + 1 : high_priority'[i] = c
    <3>1. PICK i \in 1 .. n + 1 : high_priority'[i] = c
      BY <2>1
    <3>2. i \in 1 .. n \/ i = n + 1
      BY <1>1
    <3>3. CASE i \in 1 .. n
      BY <1>1, <3>1, <3>3 DEF InFlight
    <3>4. CASE i = n + 1
      <4>1. 1 \in DOMAIN outbox /\ outbox[1] = c
        BY <1>1, <1>2, <3>1, <3>4
      <4> QED BY <4>1 DEF InFlight
    <3> QED BY <3>2, <3>3, <3>4
  <2>2. CASE \E i \in 1 .. m - 1 : outbox'[i] = c
    <3>1. PICK i \in 1 .. m - 1 : outbox'[i] = c
      BY <2>2
    <3>2. i + 1 \in DOMAIN outbox /\ outbox[i + 1] = c
      BY <1>2, <3>1
    <3> QED BY <3>2 DEF InFlight
  <2> QED BY <1>1, <1>2, <1>4, <2>1, <2>2 DEF InFlight
<1>5. ASSUME NEW c, NEW d, Before(c, d) PROVE Before(c, d)'
  <2>1. CASE \E i, j \in 1 .. n : i < j /\ c = high_priority[i] /\ d = high_priority[j]
    <3>1. \E i, j \in 1 .. n + 1 : i < j /\ c = high_priority'[i] /\ d = high_priority'[j]
      BY <1>1, <2>1
    <3> QED BY <1>1, <3>1 DEF Before
  <2>2. CASE \E i, j \in 1 .. m : i < j /\ c = outbox[i] /\ d = outbox[j]
    <3>1. PICK i \in 1 .. m, j \in 1 .. m : i < j /\ c = outbox[i] /\ d = outbox[j]
      BY <2>2
    <3>2. j - 1 \in DOMAIN outbox' /\ d = outbox'[j - 1]
      BY <1>2, <3>1
    <3>3. CASE i = 1
      <4>1. n + 1 \in DOMAIN high_priority' /\ high_priority'[n + 1] = c
        BY <1>1, <3>1, <3>3
      <4> QED BY <3>2, <4>1 DEF Before
    <3>4. CASE i # 1
      <4>1. i - 1 \in DOMAIN outbox' /\ c = outbox'[i - 1] /\ i - 1 < j - 1
        BY <1>2, <3>1, <3>4
      <4> QED BY <3>2, <4>1 DEF Before
    <3> QED BY <3>3, <3>4
  <2>3. CASE \E i \in 1 .. n, j \in 1 .. m : c = high_priority[i] /\ d = outbox[j]
    <3>1. PICK i \in 1 .. n, j \in 1 .. m : c = high_priority[i] /\ d = outbox[j]
      BY <2>3
    <3>2. i \in DOMAIN high_priority' /\ high_priority'[i] = c
      BY <1>1, <3>1
    <3>3. CASE j = 1
      <4>1. n + 1 \in DOMAIN high_priority' /\ high_priority'[n + 1] = d /\ i < n + 1
        BY <1>1, <3>1, <3>3
      <4> QED BY <3>2, <4>1 DEF Before
    <3>4. CASE j # 1
      <4>1. j - 1 \in DOMAIN outbox' /\ d = outbox'[j - 1]
        BY <1>2, <3>1, <3>4
      <4> QED BY <3>2, <4>1 DEF Before
    <3> QED BY <3>3, <3>4
  <2> QED BY <1>1, <1>2, <1>5, <2>1, <2>2, <2>3 DEF Before
<1>6. ASSUME NEW c, NEW d, Before(c, d)' PROVE Before(c, d)
  <2>1. CASE \E i, j \in 1 .. n + 1 : i < j /\ c = high_priority'[i] /\ d = high_priority'[j]
    <3>1. PICK i \in 1 .. n + 1, j \in 1 .. n + 1 :
            i < j /\ c = high_priority'[i] /\ d = high_priority'[j]
      BY <2>1
    <3>2. i \in DOMAIN high_priority /\ high_priority[i] = c
      BY <1>1, <3>1
    <3>3. CASE j = n + 1
      <4>1. 1 \in DOMAIN outbox /\ outbox[1] = d
        BY <1>1, <1>2, <3>1, <3>3
      <4> QED BY <3>2, <4>1 DEF Before
    <3>4. CASE j # n + 1
      <4>1. j \in DOMAIN high_priority /\ high_priority[j] = d
        BY <1>1, <3>1, <3>4
      <4> QED BY <3>1, <3>2, <4>1 DEF Before
    <3> QED BY <3>3, <3>4
  <2>2. CASE \E i, j \in 1 .. m - 1 : i < j /\ c = outbox'[i] /\ d = outbox'[j]
    <3>1. PICK i \in 1 .. m - 1, j \in 1 .. m - 1 : i < j /\ c = outbox'[i] /\ d = outbox'[j]
      BY <2>2
    <3>2. /\ i + 1 \in DOMAIN outbox /\ j + 1 \in DOMAIN outbox /\ i + 1 < j + 1
          /\ c = outbox[i + 1] /\ d = outbox[j + 1]
      BY <1>2, <3>1
    <3> QED BY <3>2 DEF Before
  <2>3. CASE \E i \in 1 .. n + 1, j \in 1 .. m - 1 : c = high_priority'[i] /\ d = outbox'[j]
    <3>1. PICK i \in 1 .. n + 1, j \in 1 .. m - 1 : c = high_priority'[i] /\ d = outbox'[j]
      BY <2>3
    <3>2. j + 1 \in DOMAIN outbox /\ d = outbox[j + 1]
      BY <1>2, <3>1
    <3>3. CASE i = n + 1
      <4>1. 1 \in DOMAIN outbox /\ c = outbox[1] /\ 1 < j + 1
        BY <1>1, <1>2, <3>1, <3>3
      <4> QED BY <3>2, <4>1 DEF Before
    <3>4. CASE i # n + 1
      <4>1. i \in DOMAIN high_priority /\ c = high_priority[i]
        BY <1>1, <3>1, <3>4
      <4> QED BY <3>2, <4>1 DEF Before
    <3> QED BY <3>3, <3>4
  <2> QED BY <1>1, <1>2, <1>6, <2>1, <2>2, <2>3 DEF Before
<1> QED BY <1>3, <1>4, <1>5, <1>6

\* A client's command goes behind what the channel holds.
LEMMA CommandQueued ==
  ASSUME NEW S, high_priority \in Seq(S), NEW cmd \in S,
         high_priority' = Append(high_priority, cmd), outbox' = outbox
  PROVE  \A c, d : /\ InFlight(c)' <=> InFlight(c) \/ c = cmd
                   /\ Before(c, d) => Before(c, d)'
                   /\ Before(c, d)' => Before(c, d) \/ c = cmd \/ d = cmd
<1> DEFINE n == Len(high_priority)
<1>1. /\ n \in Nat /\ DOMAIN high_priority = 1 .. n /\ DOMAIN high_priority' = 1 .. n + 1
      /\ \A i \in 1 .. n : high_priority'[i] = high_priority[i]
      /\ high_priority'[n + 1] = cmd
  BY AppendFacts
<1> HIDE DEF n
<1>2. ASSUME NEW c PROVE InFlight(c)' <=> InFlight(c) \/ c = cmd
  <2>1. InFlight(c) \/ c = cmd => InFlight(c)'
    <3>1. \A i \in DOMAIN high_priority : i \in DOMAIN high_priority' /\ high_priority'[i] = high_priority[i]
      BY <1>1
    <3>2. n + 1 \in DOMAIN high_priority'
      BY <1>1
    <3> QED BY <1>1, <3>1, <3>2 DEF InFlight
  <2>2. InFlight(c)' => InFlight(c) \/ c = cmd
    <3>1. \A i \in DOMAIN high_priority' :
            \/ i \in DOMAIN high_priority /\ high_priority'[i] = high_priority[i]
            \/ high_priority'[i] = cmd
      BY <1>1
    <3> QED BY <3>1 DEF InFlight
  <2> QED BY <2>1, <2>2
<1>3. ASSUME NEW c, NEW d PROVE Before(c, d) => Before(c, d)'
  <2>1. \A i \in DOMAIN high_priority : i \in DOMAIN high_priority' /\ high_priority'[i] = high_priority[i]
    BY <1>1
  <2> QED BY <2>1 DEF Before
<1>4. ASSUME NEW c, NEW d PROVE Before(c, d)' => Before(c, d) \/ c = cmd \/ d = cmd
  <2>1. \A i \in DOMAIN high_priority' :
          \/ i \in DOMAIN high_priority /\ high_priority'[i] = high_priority[i]
          \/ high_priority'[i] = cmd
    BY <1>1
  <2> QED BY <2>1 DEF Before
<1> QED BY <1>2, <1>3, <1>4

\* The sequencer takes the command at the head of the channel.
LEMMA HeadTaken ==
  ASSUME NEW S, high_priority \in Seq(S), high_priority # <<>>, outbox \in Seq(S),
         high_priority' = Tail(high_priority), outbox' = outbox
  PROVE  LET first == Head(high_priority) IN
         /\ InFlight(first)
         /\ \A c, d : /\ InFlight(d)' => InFlight(d) /\ Before(first, d)
                      /\ InFlight(d) => d = first \/ InFlight(d)'
                      /\ Before(c, d)' => Before(c, d)
                      /\ Before(c, d) => c = first \/ Before(c, d)'
                      /\ Before(c, first) => Before(first, first)
<1> DEFINE first == Head(high_priority)
           n     == Len(high_priority)
<1>1. /\ n \in Nat /\ n >= 1 /\ DOMAIN high_priority = 1 .. n /\ DOMAIN high_priority' = 1 .. n - 1
      /\ \A i \in 1 .. n - 1 : high_priority'[i] = high_priority[i + 1]
      /\ first = high_priority[1]
  BY TailFacts
<1> HIDE DEF first, n
<1>2. 1 \in DOMAIN high_priority
  BY <1>1
<1>3. \A i \in DOMAIN high_priority' :
        i + 1 \in DOMAIN high_priority /\ 1 < i + 1 /\ high_priority'[i] = high_priority[i + 1]
  BY <1>1
<1>4. \A i \in DOMAIN high_priority : i # 1 =>
        i - 1 \in DOMAIN high_priority' /\ high_priority'[i - 1] = high_priority[i]
  BY <1>1
<1>5. InFlight(first)
  BY <1>1, <1>2 DEF InFlight
<1>6. ASSUME NEW d PROVE InFlight(d)' => InFlight(d) /\ Before(first, d)
  BY <1>1, <1>2, <1>3 DEF InFlight, Before
<1>7. ASSUME NEW d PROVE InFlight(d) => d = first \/ InFlight(d)'
  BY <1>1, <1>4 DEF InFlight
<1>8. ASSUME NEW c, NEW d PROVE Before(c, d)' => Before(c, d)
  <2>1. \A i, j \in DOMAIN high_priority' : i < j => i + 1 < j + 1
    BY <1>1
  <2> QED BY <1>3, <2>1 DEF Before
<1>9. ASSUME NEW c, NEW d PROVE Before(c, d) => c = first \/ Before(c, d)'
  <2>1. CASE \E i, j \in DOMAIN high_priority :
               i < j /\ c = high_priority[i] /\ d = high_priority[j]
    <3>1. PICK i \in DOMAIN high_priority, j \in DOMAIN high_priority :
            i < j /\ c = high_priority[i] /\ d = high_priority[j]
      BY <2>1
    <3>2. CASE i = 1
      BY <1>1, <3>1, <3>2
    <3>3. CASE i # 1
      <4>1. i - 1 < j - 1 /\ j # 1
        BY <1>1, <3>1, <3>3
      <4> QED BY <1>4, <3>1, <3>3, <4>1 DEF Before
    <3> QED BY <3>2, <3>3
  <2>2. CASE \E i, j \in DOMAIN outbox : i < j /\ c = outbox[i] /\ d = outbox[j]
    BY <2>2 DEF Before
  <2>3. CASE \E i \in DOMAIN high_priority, j \in DOMAIN outbox :
               c = high_priority[i] /\ d = outbox[j]
    <3>1. PICK i \in DOMAIN high_priority, j \in DOMAIN outbox :
            c = high_priority[i] /\ d = outbox[j]
      BY <2>3
    <3>2. CASE i = 1
      BY <1>1, <3>1, <3>2
    <3>3. CASE i # 1
      <4>1. i - 1 \in DOMAIN high_priority' /\ c = high_priority'[i - 1]
        BY <1>4, <3>1, <3>3
      <4> QED BY <3>1, <4>1 DEF Before
    <3> QED BY <3>2, <3>3
  <2> QED BY <2>1, <2>2, <2>3 DEF Before
<1>10. ASSUME NEW c PROVE Before(c, first) => Before(first, first)
  <2>1. CASE \E i, j \in DOMAIN high_priority :
               i < j /\ c = high_priority[i] /\ first = high_priority[j]
    <3>1. PICK i \in DOMAIN high_priority, j \in DOMAIN high_priority :
            i < j /\ first = high_priority[j]
      BY <2>1
    <3>2. 1 < j
      BY <1>1, <3>1
    <3> QED BY <1>1, <1>2, <3>1, <3>2 DEF Before
  <2>2. CASE \E j \in DOMAIN outbox : first = outbox[j]
    BY <1>1, <1>2, <2>2 DEF Before
  <2> SUFFICES ASSUME Before(c, first) PROVE Before(first, first)
    OBVIOUS
  <2> QED BY <2>1, <2>2 DEF Before
<1> QED BY <1>5, <1>6, <1>7, <1>8, <1>9, <1>10 DEF first

\* The task has a new report.
LEMMA ReportPosted ==
  ASSUME high_priority' = high_priority, outbox = <<>>, NEW x, outbox' = <<x>>
  PROVE  \A c, d : /\ InFlight(c)' <=> InFlight(c) \/ c = x
                   /\ Before(c, d)' <=> Before(c, d) \/ (InFlight(c) /\ d = x)
<1>1. DOMAIN outbox = {} /\ DOMAIN outbox' = {1} /\ outbox'[1] = x
  OBVIOUS
<1>2. \A c : InFlight(c)' <=> InFlight(c) \/ c = x
  BY <1>1 DEF InFlight
<1>3. \A c, d : Before(c, d)' <=> Before(c, d) \/ (InFlight(c) /\ d = x)
  BY <1>1 DEF Before, InFlight
<1> QED BY <1>2, <1>3

\* The task has two new reports, one behind the other.
LEMMA TwoReportsPosted ==
  ASSUME high_priority' = high_priority, outbox = <<>>, NEW x, NEW y, outbox' = <<x, y>>
  PROVE  \A c, d : /\ InFlight(c)' <=> InFlight(c) \/ c = x \/ c = y
                   /\ Before(c, d)' <=> \/ Before(c, d)
                                        \/ InFlight(c) /\ (d = x \/ d = y)
                                        \/ c = x /\ d = y
<1>1. DOMAIN outbox = {} /\ DOMAIN outbox' = {1, 2} /\ outbox'[1] = x /\ outbox'[2] = y
  OBVIOUS
<1>2. \A c : InFlight(c)' <=> InFlight(c) \/ c = x \/ c = y
  BY <1>1 DEF InFlight
<1>3. ASSUME NEW c, NEW d, Before(c, d)'
      PROVE  \/ Before(c, d)
             \/ InFlight(c) /\ (d = x \/ d = y)
             \/ c = x /\ d = y
  BY <1>1, <1>3 DEF Before, InFlight
<1>4. ASSUME NEW c, NEW d, \/ Before(c, d)
                           \/ InFlight(c) /\ (d = x \/ d = y)
                           \/ c = x /\ d = y
      PROVE  Before(c, d)'
  BY <1>1, <1>4 DEF Before, InFlight
<1> QED BY <1>2, <1>3, <1>4

-----------------------------------------------------------------------------
(* The pipeline between the two tasks *)

\* The command is a report about the order.
About(c, o) ==
  /\ c.type \in {"OnVenueAck", "OnVenueSubmitFailed", "OnVenueCancelled", "OnFill"}
  /\ c.order = o

\* What the task may report of an order after having reported c.
MayFollow(c, d) ==
  \/ c.type = "OnVenueAck" /\ d.type \in {"OnFill", "OnVenueCancelled"}
  \/ c.type = "OnVenueAck" /\ d.type = "OnVenueSubmitFailed" /\ failed_after_ack
  \/ c.type = "OnFill" /\ d.type = "OnVenueCancelled" /\ c.qty < Qty[c.order]

Unfilled(o, state) == InState(core, o, {state}) /\ core.orders[o].filled = 0

\* The record of the order allows the report.
Fits(d) ==
  /\ d.type = "OnVenueAck" => Unfilled(d.order, "Pending")
  /\ d.type = "OnVenueSubmitFailed" => InState(core, d.order, {"Pending"}) \/ failed_after_ack
  /\ d.type = "OnFill" => Unfilled(d.order, "Submitted")
  /\ d.type = "OnVenueCancelled" => InState(core, d.order, {"Submitted", "PartiallyFilled"})

\* Reports about one order come in an order the sequencer accepts.
InOrder ==
  \A c, d \in HighPriorityCommand, o \in OrderIds :
    Before(c, d) /\ About(c, o) /\ About(d, o) => MayFollow(c, d)

\* The first report about an order fits the record as it is now.
FirstFits ==
  \A d \in HighPriorityCommand : InFlight(d) =>
    \/ Fits(d)
    \/ \E c \in HighPriorityCommand, o \in OrderIds : Before(c, d) /\ About(c, o) /\ About(d, o)

FillsFit ==
  \A d \in HighPriorityCommand : InFlight(d) /\ d.type = "OnFill" =>
    d.qty > 0 /\ d.qty <= Qty[d.order]

\* Nothing is reported of an order the sequencer does not know.
ReportedIsKnown ==
  \A d \in HighPriorityCommand, o \in OrderIds : InFlight(d) /\ About(d, o) => core.orders[o] # None

ReportsInv == InOrder /\ FirstFits /\ FillsFit /\ ReportedIsKnown

\* A recorded order of which nothing is reported yet.
Fresh(o) ==
  /\ Unfilled(o, "Pending")
  /\ \A d \in HighPriorityCommand : InFlight(d) => ~ About(d, o)

RoutedAreFresh ==
  /\ \A k \in DOMAIN venue_submit : Fresh(venue_submit[k].order_id)
  /\ \A j, k \in DOMAIN venue_submit :
       venue_submit[j].order_id = venue_submit[k].order_id => j = k
  /\ phase # "recv" => \A k \in DOMAIN venue_submit : venue_submit[k].order_id # order.order_id

SubmittedIsFresh == phase = "submit" => outbox = <<>> /\ Fresh(order.order_id)

\* Behind an accepted order is its ack, and nothing else yet.
AckedIsNext ==
  phase = "acked" =>
    /\ \A d \in HighPriorityCommand :
         InFlight(d) /\ About(d, order.order_id) => d.type = "OnVenueAck"
    /\ \/ Unfilled(order.order_id, "Submitted")
       \/ \E d \in HighPriorityCommand : InFlight(d) /\ About(d, order.order_id)

TaskInv == RoutedAreFresh /\ SubmittedIsFresh /\ AckedIsNext

PipelineInv == mode # "stopped" => ReportsInv /\ TaskInv

\* Type correctness of the task.
TaskTypeOK ==
  /\ phase \in {"recv", "submit", "acked"}
  /\ order \in OrderAck \cup {None}
  /\ phase # "recv" => order \in OrderAck
  /\ outbox \in Seq(HighPriorityCommand)
  /\ venue_orders \subseteq OrderAck
  /\ failed_after_ack \in BOOLEAN

EngineInv == AckInv /\ TaskTypeOK /\ PipelineInv

\* The record of another order does not matter to a report.
LEMMA FitsFrame ==
  ASSUME NEW d, failed_after_ack => failed_after_ack',
         core'.orders[d.order] = core.orders[d.order], Fits(d)
  PROVE  Fits(d)'
BY DEF Fits, Unfilled, InState

\* A step that changes neither records nor what is on its way.
LEMMA PipelineFrame ==
  ASSUME PipelineInv, mode' # "stopped" => mode # "stopped",
         \A c, d : (InFlight(c)' <=> InFlight(c)) /\ (Before(c, d)' <=> Before(c, d)),
         outbox = <<>> => outbox' = <<>>,
         UNCHANGED <<venue_submit, phase, order, failed_after_ack>>,
         core'.orders = core.orders
  PROVE  PipelineInv'
<1>1. /\ \A c, d : MayFollow(c, d)' <=> MayFollow(c, d)
      /\ \A d : Fits(d)' <=> Fits(d)
      /\ \A o, s : Unfilled(o, s)' <=> Unfilled(o, s)
  BY DEF MayFollow, Fits, Unfilled, InState
<1>2. \A o : Fresh(o)' <=> Fresh(o)
  BY <1>1 DEF Fresh
<1>3. ReportsInv => ReportsInv'
  BY <1>1 DEF ReportsInv, InOrder, FirstFits, FillsFit, ReportedIsKnown
<1>4. RoutedAreFresh /\ SubmittedIsFresh => RoutedAreFresh' /\ SubmittedIsFresh'
  BY <1>2 DEF RoutedAreFresh, SubmittedIsFresh
<1>5. AckedIsNext => AckedIsNext'
  BY <1>1 DEF AckedIsNext
<1> QED BY <1>3, <1>4, <1>5 DEF PipelineInv, TaskInv

\* So does one that leaves the channels alone.
LEMMA PipelineKept ==
  ASSUME PipelineInv, mode' # "stopped" => mode # "stopped",
         UNCHANGED <<high_priority, outbox, venue_submit, phase, order, failed_after_ack>>,
         core'.orders = core.orders
  PROVE  PipelineInv'
<1>1. \A c, d : (InFlight(c)' <=> InFlight(c)) /\ (Before(c, d)' <=> Before(c, d))
  BY DEF InFlight, Before
<1> QED BY <1>1, PipelineFrame

\* And one in which the task hands a report over.
LEMMA PipelineMoves ==
  ASSUME PipelineInv, mode # "stopped", high_priority \in Seq(HighPriorityCommand),
         outbox \in Seq(HighPriorityCommand), outbox # <<>>,
         high_priority' = Append(high_priority, Head(outbox)), outbox' = Tail(outbox),
         UNCHANGED <<venue_submit, phase, order, failed_after_ack, core>>
  PROVE  PipelineInv'
<1>1. \A c, d : (InFlight(c)' <=> InFlight(c)) /\ (Before(c, d)' <=> Before(c, d))
  BY ReportMoves
<1> QED BY <1>1, PipelineFrame

\* A command that is no report is sent.
LEMMA PipelineSent ==
  ASSUME PipelineInv, mode # "stopped", high_priority \in Seq(HighPriorityCommand),
         NEW cmd \in HighPriorityCommand, \A o : ~ About(cmd, o),
         high_priority' = Append(high_priority, cmd),
         UNCHANGED <<outbox, venue_submit, phase, order, failed_after_ack, core>>
  PROVE  PipelineInv'
<1>1. \A c, d : /\ InFlight(c)' <=> InFlight(c) \/ c = cmd
                /\ Before(c, d) => Before(c, d)'
                /\ Before(c, d)' => Before(c, d) \/ c = cmd \/ d = cmd
  BY CommandQueued
<1>2. \A c, d : MayFollow(c, d)' <=> MayFollow(c, d)
  BY DEF MayFollow
<1>3. \A d : Fits(d)' <=> Fits(d)
  BY DEF Fits, Unfilled, InState
<1>4. \A o, s : Unfilled(o, s)' <=> Unfilled(o, s)
  BY DEF Unfilled, InState
<1>5. ReportsInv /\ TaskInv
  BY DEF PipelineInv
<1>6. Fits(cmd) /\ cmd.type # "OnFill"
  <2>1. cmd.type \notin {"OnVenueAck", "OnVenueSubmitFailed", "OnVenueCancelled", "OnFill"}
    BY DEF About
  <2> QED BY <2>1 DEF Fits
<1>7. InOrder'
  BY <1>1, <1>2, <1>5 DEF ReportsInv, InOrder
<1>8. FirstFits'
  BY <1>1, <1>3, <1>5, <1>6 DEF ReportsInv, FirstFits
<1>9. FillsFit' /\ ReportedIsKnown'
  BY <1>1, <1>5, <1>6 DEF ReportsInv, FillsFit, ReportedIsKnown
<1>10. \A o : Fresh(o) => Fresh(o)'
  BY <1>1, <1>4 DEF Fresh
<1>11. RoutedAreFresh' /\ SubmittedIsFresh'
  BY <1>5, <1>10 DEF TaskInv, RoutedAreFresh, SubmittedIsFresh
<1>12. AckedIsNext'
  BY <1>1, <1>4, <1>5 DEF TaskInv, AckedIsNext
<1> QED BY <1>7, <1>8, <1>9, <1>11, <1>12 DEF PipelineInv, ReportsInv, TaskInv

\* The sequencer takes a command that is no report and leaves the records alone.
LEMMA PipelineTaken ==
  ASSUME PipelineInv, mode # "stopped", high_priority \in Seq(HighPriorityCommand),
         outbox \in Seq(HighPriorityCommand), high_priority # <<>>,
         \A o : ~ About(Head(high_priority), o), high_priority' = Tail(high_priority),
         UNCHANGED <<outbox, venue_submit, phase, order, failed_after_ack>>,
         core'.orders = core.orders
  PROVE  PipelineInv'
<1> DEFINE first == Head(high_priority)
<1>1. \A c, d : /\ InFlight(d)' => InFlight(d)
                /\ InFlight(d) => d = first \/ InFlight(d)'
                /\ Before(c, d)' => Before(c, d)
                /\ Before(c, d) => c = first \/ Before(c, d)'
  BY HeadTaken
<1> HIDE DEF first
<1>2. \A o : ~ About(first, o)
  BY DEF first
<1>3. /\ \A c, d : MayFollow(c, d)' <=> MayFollow(c, d)
      /\ \A d : Fits(d)' <=> Fits(d)
      /\ \A o, s : Unfilled(o, s)' <=> Unfilled(o, s)
  BY DEF MayFollow, Fits, Unfilled, InState
<1>4. ReportsInv /\ TaskInv
  BY DEF PipelineInv
<1>5. InOrder' /\ FillsFit' /\ ReportedIsKnown'
  BY <1>1, <1>3, <1>4 DEF ReportsInv, InOrder, FillsFit, ReportedIsKnown
<1>6. FirstFits'
  BY <1>1, <1>2, <1>3, <1>4 DEF ReportsInv, FirstFits
<1>7. \A o : Fresh(o) => Fresh(o)'
  BY <1>1, <1>3 DEF Fresh
<1>8. RoutedAreFresh' /\ SubmittedIsFresh'
  BY <1>4, <1>7 DEF TaskInv, RoutedAreFresh, SubmittedIsFresh
<1>9. AckedIsNext'
  BY <1>1, <1>2, <1>3, <1>4 DEF TaskInv, AckedIsNext
<1> QED BY <1>5, <1>6, <1>8, <1>9 DEF PipelineInv, ReportsInv, TaskInv

\* The report at the head of the channel fits the record of its order.
LEMMA HeadFits ==
  ASSUME PipelineInv, mode # "stopped", high_priority \in Seq(HighPriorityCommand),
         outbox \in Seq(HighPriorityCommand), high_priority # <<>>
  PROVE  LET first == Head(high_priority) IN
         /\ first \in HighPriorityCommand /\ Fits(first)
         /\ first.type = "OnFill" => first.qty > 0 /\ first.qty <= Qty[first.order]
<1> DEFINE first == Head(high_priority)
<1>1. first \in HighPriorityCommand
  BY TailFacts
<1>2. InFlight(first) /\ \A c : Before(c, first) => Before(first, first)
  <2> DEFINE n == Len(high_priority)
  <2>1. n \in Nat /\ n >= 1 /\ DOMAIN high_priority = 1 .. n /\ first = high_priority[1]
    BY TailFacts
  <2> HIDE DEF first, n
  <2>2. 1 \in DOMAIN high_priority
    BY <2>1
  <2>3. ASSUME NEW c, Before(c, first) PROVE Before(first, first)
    <3>1. CASE \E i, j \in DOMAIN high_priority :
                 i < j /\ c = high_priority[i] /\ first = high_priority[j]
      <4>1. PICK i \in DOMAIN high_priority, j \in DOMAIN high_priority :
              i < j /\ first = high_priority[j]
        BY <3>1
      <4>2. 1 < j
        BY <2>1, <4>1
      <4> QED BY <2>1, <2>2, <4>1, <4>2 DEF Before
    <3>2. CASE \E j \in DOMAIN outbox : first = outbox[j]
      BY <2>1, <2>2, <3>2 DEF Before
    <3> QED BY <2>3, <3>1, <3>2 DEF Before
  <2> QED BY <2>1, <2>2, <2>3 DEF InFlight
<1> HIDE DEF first
<1>3. ReportsInv
  BY DEF PipelineInv
<1>4. ASSUME NEW c, NEW o \in OrderIds, Before(c, first), About(c, o), About(first, o)
      PROVE  FALSE
  <2>1. MayFollow(first, first)
    BY <1>1, <1>2, <1>3, <1>4 DEF ReportsInv, InOrder
  <2> QED BY <2>1 DEF MayFollow
<1>5. Fits(first)
  BY <1>1, <1>2, <1>3, <1>4 DEF ReportsInv, FirstFits
<1>6. first.type = "OnFill" => first.qty > 0 /\ first.qty <= Qty[first.order]
  BY <1>1, <1>2, <1>3 DEF ReportsInv, FillsFit
<1> QED BY <1>1, <1>5, <1>6 DEF first

\* The sequencer takes a report and gives its order a new record, which fits what
\* may follow the report.
LEMMA PipelineReported ==
  ASSUME PipelineInv, mode # "stopped", high_priority \in Seq(HighPriorityCommand),
         outbox \in Seq(HighPriorityCommand), high_priority # <<>>,
         NEW o \in OrderIds, About(Head(high_priority), o), high_priority' = Tail(high_priority),
         UNCHANGED <<outbox, venue_submit, phase, order, failed_after_ack>>,
         core'.orders[o] # None,
         \A p \in OrderIds : p # o => core'.orders[p] = core.orders[p],
         \A d \in HighPriorityCommand : About(d, o) /\ MayFollow(Head(high_priority), d) => Fits(d)',
         Head(high_priority).type = "OnVenueAck" => Unfilled(o, "Submitted")',
         TaskTypeOK, TypeOK
  PROVE  PipelineInv'
<1> DEFINE first == Head(high_priority)
<1>1. /\ InFlight(first)
      /\ \A c, d : /\ InFlight(d)' => InFlight(d) /\ Before(first, d)
                   /\ InFlight(d) => d = first \/ InFlight(d)'
                   /\ Before(c, d)' => Before(c, d)
                   /\ Before(c, d) => c = first \/ Before(c, d)'
  BY HeadTaken
<1>2. first \in HighPriorityCommand
  BY TailFacts
<1> HIDE DEF first
<1>3. /\ About(first, o)
      /\ \A d \in HighPriorityCommand : About(d, o) /\ MayFollow(first, d) => Fits(d)'
      /\ first.type = "OnVenueAck" => Unfilled(o, "Submitted")'
  BY DEF first
<1>4. ReportsInv /\ TaskInv
  BY DEF PipelineInv
<1>5. \A c, d : MayFollow(c, d)' <=> MayFollow(c, d)
  BY DEF MayFollow
<1>6. \A p \in OrderIds : p # o => \A s : Unfilled(p, s)' <=> Unfilled(p, s)
  BY DEF Unfilled, InState
<1>7. ASSUME NEW d \in HighPriorityCommand, ~ About(d, o)
      PROVE  Fits(d) => Fits(d)'
  <2>1. CASE \E p \in OrderIds : About(d, p)
    BY <1>7, <2>1, FitsFrame DEF About
  <2>2. CASE ~ \E p \in OrderIds : About(d, p)
    <3>1. d.type \notin {"OnVenueAck", "OnVenueSubmitFailed", "OnVenueCancelled", "OnFill"}
      BY <2>2 DEF HighPriorityCommand, About
    <3> QED BY <3>1 DEF Fits
  <2> QED BY <2>1, <2>2
<1>8. InOrder' /\ FillsFit'
  BY <1>1, <1>4, <1>5 DEF ReportsInv, InOrder, FillsFit
<1>9. ReportedIsKnown'
  BY <1>1, <1>4 DEF ReportsInv, ReportedIsKnown
<1>10. FirstFits'
  <2> SUFFICES ASSUME NEW d \in HighPriorityCommand, InFlight(d)'
               PROVE  \/ Fits(d)'
                      \/ \E c \in HighPriorityCommand, p \in OrderIds :
                           Before(c, d)' /\ About(c, p) /\ About(d, p)
    BY DEF FirstFits, About
  <2>1. InFlight(d) /\ Before(first, d)
    BY <1>1
  <2>2. CASE About(d, o)
    <3>1. MayFollow(first, d)
      BY <1>2, <1>3, <1>4, <2>1, <2>2 DEF ReportsInv, InOrder
    <3> QED BY <1>3, <2>2, <3>1
  <2>3. CASE ~ About(d, o)
    <3>1. CASE Fits(d)
      BY <1>7, <2>3, <3>1
    <3>2. CASE \E c \in HighPriorityCommand, p \in OrderIds :
                 Before(c, d) /\ About(c, p) /\ About(d, p)
      <4>1. PICK c \in HighPriorityCommand, p \in OrderIds :
              Before(c, d) /\ About(c, p) /\ About(d, p)
        BY <3>2
      <4>2. c # first
        BY <1>3, <2>3, <4>1 DEF About
      <4> QED BY <1>1, <4>1, <4>2
    <3> QED BY <1>4, <2>1, <3>1, <3>2 DEF ReportsInv, FirstFits
  <2> QED BY <2>2, <2>3
<1>11. ASSUME NEW p \in OrderIds, Fresh(p)
       PROVE  Fresh(p)' /\ p # o
  <2>1. p # o
    BY <1>1, <1>2, <1>3, <1>11 DEF Fresh
  <2> QED BY <1>1, <1>6, <1>11, <2>1 DEF Fresh
<1>12. \A k \in DOMAIN venue_submit : venue_submit[k].order_id \in OrderIds
  <2>1. \A k \in DOMAIN venue_submit : venue_submit[k] \in OrderAck
    <3>1. venue_submit \in Seq(OrderAck)
      BY DEF TypeOK
    <3> QED BY <3>1
  <2> QED BY <2>1 DEF OrderAck
<1>13. phase # "recv" => order.order_id \in OrderIds
  BY DEF TaskTypeOK, OrderAck
<1>14. RoutedAreFresh'
  BY <1>4, <1>11, <1>12 DEF TaskInv, RoutedAreFresh
<1>15. SubmittedIsFresh'
  BY <1>4, <1>11, <1>13 DEF TaskInv, SubmittedIsFresh
<1>16. AckedIsNext'
  <2> SUFFICES ASSUME phase = "acked"
               PROVE  /\ \A d \in HighPriorityCommand :
                           InFlight(d)' /\ About(d, order.order_id) => d.type = "OnVenueAck"
                      /\ \/ Unfilled(order.order_id, "Submitted")'
                         \/ \E d \in HighPriorityCommand : InFlight(d)' /\ About(d, order.order_id)
    BY DEF AckedIsNext, About
  <2>1. /\ \A d \in HighPriorityCommand :
             InFlight(d) /\ About(d, order.order_id) => d.type = "OnVenueAck"
        /\ \/ Unfilled(order.order_id, "Submitted")
           \/ \E d \in HighPriorityCommand : InFlight(d) /\ About(d, order.order_id)
    BY <1>4 DEF TaskInv, AckedIsNext
  <2>2. CASE order.order_id = o
    BY <1>1, <1>2, <1>3, <2>1, <2>2
  <2>3. CASE order.order_id # o
    <3>1. ~ About(first, order.order_id)
      BY <1>3, <2>3 DEF About
    <3> QED BY <1>1, <1>6, <1>13, <2>1, <2>3, <3>1
  <2> QED BY <2>1, <2>2, <2>3
<1> QED BY <1>8, <1>9, <1>10, <1>14, <1>15, <1>16 DEF PipelineInv, ReportsInv, TaskInv

\* The task reports for the first time on a fresh order it works on.
LEMMA FreshReported ==
  ASSUME PipelineInv, mode # "stopped", outbox = <<>>,
         UNCHANGED <<high_priority, core, failed_after_ack>>,
         NEW o \in OrderIds, Fresh(o), NEW x \in HighPriorityCommand, About(x, o), Fits(x),
         x.type # "OnFill", outbox' = <<x>>,
         \A k \in DOMAIN venue_submit' :
           Fresh(venue_submit'[k].order_id) /\ venue_submit'[k].order_id # o,
         \A j, k \in DOMAIN venue_submit' :
           venue_submit'[j].order_id = venue_submit'[k].order_id => j = k,
         phase' \in {"recv", "acked"},
         phase' = "acked" => x.type = "OnVenueAck" /\ order'.order_id = o
  PROVE  PipelineInv'
<1>1. \A c, d : /\ InFlight(c)' <=> InFlight(c) \/ c = x
                /\ Before(c, d)' <=> Before(c, d) \/ (InFlight(c) /\ d = x)
  BY ReportPosted
<1>2. /\ \A c, d : MayFollow(c, d)' <=> MayFollow(c, d)
      /\ \A d : Fits(d)' <=> Fits(d)
      /\ \A p, s : Unfilled(p, s)' <=> Unfilled(p, s)
  BY DEF MayFollow, Fits, Unfilled, InState
<1>3. ReportsInv
  BY DEF PipelineInv
<1>4. \A p : About(x, p) => p = o
  BY DEF About
<1>5. InOrder'
  BY <1>1, <1>2, <1>3, <1>4 DEF ReportsInv, InOrder, Fresh
<1>6. FirstFits'
  BY <1>1, <1>2, <1>3 DEF ReportsInv, FirstFits
<1>7. FillsFit' /\ ReportedIsKnown'
  BY <1>1, <1>3, <1>4 DEF ReportsInv, FillsFit, ReportedIsKnown, Fresh, Unfilled, InState
<1>8. \A p : Fresh(p) /\ p # o => Fresh(p)'
  BY <1>1, <1>2, <1>4 DEF Fresh
<1>9. RoutedAreFresh'
  BY <1>8 DEF RoutedAreFresh
<1>10. SubmittedIsFresh'
  BY DEF SubmittedIsFresh
<1>11. AckedIsNext'
  BY <1>1 DEF AckedIsNext, Fresh
<1> QED BY <1>5, <1>6, <1>7, <1>9, <1>10, <1>11 DEF PipelineInv, ReportsInv, TaskInv

\* The task reports what happened to an order behind its ack: news of one kind
\* each, of which only a cancellation may come behind an incomplete fill.
LEMMA AckFollowed ==
  ASSUME PipelineInv, mode # "stopped", phase = "acked", phase' = "recv",
         UNCHANGED <<core, venue_submit>>, failed_after_ack => failed_after_ack',
         NEW news \in SUBSET HighPriorityCommand,
         \A x \in news :
           /\ About(x, order.order_id)
           /\ x.type # "OnVenueAck"
           /\ x.type = "OnVenueSubmitFailed" => failed_after_ack'
           /\ x.type = "OnFill" => x.qty > 0 /\ x.qty <= Qty[x.order],
         \A c, d :
           /\ InFlight(c)' <=> InFlight(c) \/ c \in news
           /\ Before(c, d) => Before(c, d)'
           /\ InFlight(c) /\ d \in news => Before(c, d)'
           /\ Before(c, d)' => \/ Before(c, d)
                               \/ InFlight(c) /\ d \in news
                               \/ /\ c \in news /\ d \in news
                                  /\ c.type = "OnFill" /\ d.type = "OnVenueCancelled"
                                  /\ c.qty < Qty[c.order],
         order.order_id \in OrderIds
  PROVE  PipelineInv'
<1> DEFINE o == order.order_id
<1>1. ReportsInv /\ TaskInv
  BY DEF PipelineInv
<1>2. /\ \A d \in HighPriorityCommand : InFlight(d) /\ About(d, o) => d.type = "OnVenueAck"
      /\ \/ Unfilled(o, "Submitted")
         \/ \E d \in HighPriorityCommand : InFlight(d) /\ About(d, o)
  BY <1>1 DEF TaskInv, AckedIsNext
<1>3. \A c, d : MayFollow(c, d) => MayFollow(c, d)'
  BY DEF MayFollow
<1>4. \A d : Fits(d) => Fits(d)'
  BY DEF Fits, Unfilled, InState
<1>5. \A p, s : Unfilled(p, s)' <=> Unfilled(p, s)
  BY DEF Unfilled, InState
<1> HIDE DEF o
<1>6. \A x \in news : About(x, o) /\ \A p : About(x, p) => p = o
  BY DEF About, o
<1>7. \A x \in news : x.type \in {"OnVenueSubmitFailed", "OnVenueCancelled", "OnFill"}
  BY DEF About
<1>8. InOrder'
  <2> SUFFICES ASSUME NEW c \in HighPriorityCommand, NEW d \in HighPriorityCommand, NEW p \in OrderIds,
                      Before(c, d)', About(c, p), About(d, p)
               PROVE  MayFollow(c, d)'
    BY DEF InOrder, About
  <2>1. CASE Before(c, d)
    BY <1>1, <1>3, <2>1 DEF ReportsInv, InOrder
  <2>2. CASE InFlight(c) /\ d \in news
    <3>1. c.type = "OnVenueAck"
      BY <1>2, <1>6, <2>2
    <3> QED BY <1>7, <2>2, <3>1 DEF MayFollow
  <2>3. CASE /\ c.type = "OnFill" /\ d.type = "OnVenueCancelled"
             /\ c.qty < Qty[c.order]
    BY <2>3 DEF MayFollow
  <2> QED BY <2>1, <2>2, <2>3
<1>9. FirstFits'
  <2> SUFFICES ASSUME NEW d \in HighPriorityCommand, InFlight(d)'
               PROVE  \/ Fits(d)'
                      \/ \E c \in HighPriorityCommand, p \in OrderIds :
                           Before(c, d)' /\ About(c, p) /\ About(d, p)
    BY DEF FirstFits, About
  <2>1. CASE InFlight(d)
    BY <1>1, <1>4, <2>1 DEF ReportsInv, FirstFits
  <2>2. CASE d \in news
    <3>1. CASE Unfilled(o, "Submitted")
      <4>1. Unfilled(d.order, "Submitted")
        BY <1>6, <2>2, <3>1 DEF About
      <4>2. Unfilled(d.order, "Submitted")'
        BY <1>5, <4>1
      <4> QED BY <1>7, <2>2, <4>2 DEF Fits, Unfilled, InState
    <3>2. CASE \E c \in HighPriorityCommand : InFlight(c) /\ About(c, o)
      BY <1>6, <2>2, <3>2 DEF o
    <3> QED BY <1>2, <3>1, <3>2
  <2> QED BY <2>1, <2>2
<1>10. FillsFit'
  BY <1>1 DEF ReportsInv, FillsFit
<1>11. core.orders[o] # None
  BY <1>1, <1>2 DEF ReportsInv, ReportedIsKnown, Unfilled, InState, o
<1>12. ReportedIsKnown'
  BY <1>1, <1>6, <1>11 DEF ReportsInv, ReportedIsKnown
<1>13. \A p : Fresh(p) /\ p # o => Fresh(p)'
  BY <1>5, <1>6 DEF Fresh
<1>14. RoutedAreFresh'
  <2>1. \A k \in DOMAIN venue_submit : Fresh(venue_submit[k].order_id) /\ venue_submit[k].order_id # o
    BY <1>1 DEF TaskInv, RoutedAreFresh, o
  <2>2. \A k \in DOMAIN venue_submit : Fresh(venue_submit[k].order_id)'
    BY <1>13, <2>1
  <2> QED BY <1>1, <2>2 DEF TaskInv, RoutedAreFresh
<1>15. SubmittedIsFresh' /\ AckedIsNext'
  BY DEF SubmittedIsFresh, AckedIsNext
<1> QED BY <1>8, <1>9, <1>10, <1>12, <1>14, <1>15 DEF PipelineInv, ReportsInv, TaskInv

\* The task goes away with the reports it had not sent and the orders it had not taken.
LEMMA ReportsDropped ==
  ASSUME PipelineInv, mode # "stopped", UNCHANGED <<high_priority, core, failed_after_ack>>,
         outbox' = <<>>, venue_submit' = <<>>, phase' = "recv"
  PROVE  PipelineInv'
<1>1. ReportsInv
  BY DEF PipelineInv
<1>2. DOMAIN outbox' = {} /\ DOMAIN venue_submit' = {}
  OBVIOUS
<1>3. \A c, d : /\ InFlight(c)' => InFlight(c)
                /\ Before(c, d)' => Before(c, d)
  BY <1>2 DEF InFlight, Before
<1>4. \A c, d : InFlight(d)' /\ Before(c, d) => Before(c, d)' \/ Before(d, d)
  BY <1>2 DEF InFlight, Before
<1>5. /\ \A c, d : MayFollow(c, d)' <=> MayFollow(c, d)
      /\ \A d : Fits(d)' <=> Fits(d)
  BY DEF MayFollow, Fits, Unfilled, InState
<1>6. InOrder' /\ FillsFit' /\ ReportedIsKnown'
  BY <1>1, <1>3, <1>5 DEF ReportsInv, InOrder, FillsFit, ReportedIsKnown
<1>7. \A d \in HighPriorityCommand, o \in OrderIds : ~ (Before(d, d) /\ About(d, o))
  BY <1>1 DEF ReportsInv, InOrder, MayFollow
<1>8. FirstFits'
  BY <1>1, <1>3, <1>4, <1>5, <1>7 DEF ReportsInv, FirstFits
<1>9. TaskInv'
  BY <1>2 DEF TaskInv, RoutedAreFresh, SubmittedIsFresh, AckedIsNext
<1> QED BY <1>6, <1>8, <1>9 DEF PipelineInv, ReportsInv

\* The reports of the task are high-priority commands about its order.
LEMMA ReportTypes ==
  ASSUME NEW o \in OrderIds
  PROVE  /\ \A type \in {"OnVenueSubmitFailed", "OnVenueCancelled"} :
              /\ Report(type, o) \in HighPriorityCommand /\ About(Report(type, o), o)
              /\ Report(type, o).type = type
         /\ \A v \in VenueOrderIds :
              /\ ReportAck(o, v) \in HighPriorityCommand /\ About(ReportAck(o, v), o)
              /\ ReportAck(o, v).type = "OnVenueAck"
         /\ \A qty \in FillQtys :
              /\ ReportFill(o, qty) \in HighPriorityCommand /\ About(ReportFill(o, qty), o)
              /\ ReportFill(o, qty).type = "OnFill" /\ ReportFill(o, qty).order = o
              /\ ReportFill(o, qty).qty = qty
BY DEF Report, ReportAck, ReportFill, HighPriorityCommand, About

\* A fresh order may be acked or fail.
LEMMA FreshFits ==
  ASSUME NEW o \in OrderIds, Fresh(o)
  PROVE  /\ Fits(Report("OnVenueSubmitFailed", o))
         /\ \A v \in VenueOrderIds : Fits(ReportAck(o, v))
BY DEF Fresh, Fits, Unfilled, Report, ReportAck

\* What take_post_ack_actions may yield is one of four kinds of outbox.
LEMMA PostAckKinds ==
  ASSUME NEW o \in OrderIds, outbox' \in PostAckReports(o)
  PROVE  \/ outbox' = <<>>
         \/ outbox' = <<Report("OnVenueCancelled", o)>>
         \/ \E q \in FillQtys : 0 < q /\ q <= Qty[o] /\ outbox' = <<ReportFill(o, q)>>
         \/ \E q \in FillQtys : /\ 0 < q /\ q <= Qty[o] /\ q < Qty[o]
                                /\ outbox' = <<ReportFill(o, q), Report("OnVenueCancelled", o)>>
<1>1. Qty[o] \in Nat /\ FillQtys \subseteq Nat
  BY EngineStateAssumption
<1>2. \A q \in FillQtys : q <= Qty[o] /\ q # Qty[o] => q < Qty[o]
  BY <1>1
<1> QED BY <1>2 DEF PostAckReports

\* Taking an order off the submit channel: it is fresh, and what is left is fresh
\* and about other orders.
LEMMA RoutedTaken ==
  ASSUME TypeOK, RoutedAreFresh, venue_submit # <<>>, venue_submit' = Tail(venue_submit),
         NEW o, o = Head(venue_submit).order_id
  PROVE  /\ o \in OrderIds /\ Fresh(o)
         /\ \A k \in DOMAIN venue_submit' :
              Fresh(venue_submit'[k].order_id) /\ venue_submit'[k].order_id # o
         /\ \A j, k \in DOMAIN venue_submit' :
              venue_submit'[j].order_id = venue_submit'[k].order_id => j = k
<1> DEFINE n == Len(venue_submit)
<1>1. venue_submit \in Seq(OrderAck)
  BY DEF TypeOK
<1>2. /\ n \in Nat /\ n >= 1 /\ DOMAIN venue_submit = 1 .. n /\ DOMAIN venue_submit' = 1 .. n - 1
      /\ \A i \in 1 .. n - 1 : venue_submit'[i] = venue_submit[i + 1]
      /\ Head(venue_submit) = venue_submit[1] /\ Head(venue_submit) \in OrderAck
  BY <1>1, TailFacts
<1> HIDE DEF n
<1>3. 1 \in DOMAIN venue_submit
  BY <1>2
<1>4. \A k \in DOMAIN venue_submit' :
        k + 1 \in DOMAIN venue_submit /\ k + 1 # 1 /\ venue_submit'[k] = venue_submit[k + 1]
  BY <1>2
<1>5. o \in OrderIds /\ Fresh(o)
  BY <1>2, <1>3 DEF RoutedAreFresh, OrderAck
<1>6. \A k \in DOMAIN venue_submit' :
        Fresh(venue_submit'[k].order_id) /\ venue_submit'[k].order_id # o
  BY <1>2, <1>3, <1>4 DEF RoutedAreFresh
<1>7. ASSUME NEW j \in DOMAIN venue_submit', NEW k \in DOMAIN venue_submit',
             venue_submit'[j].order_id = venue_submit'[k].order_id
      PROVE  j = k
  <2>1. j + 1 = k + 1
    BY <1>4, <1>7 DEF RoutedAreFresh
  <2> QED BY <1>2, <1>7, <2>1
<1> QED BY <1>5, <1>6, <1>7

\* Receiving a routed order keeps the pipeline in order.
LEMMA ReceiveKeepsPipeline ==
  ASSUME TypeOK, PipelineInv, mode # "stopped", Receive
  PROVE  PipelineInv'
<1> DEFINE o == Head(venue_submit).order_id
<1>1. /\ outbox = <<>> /\ venue_submit # <<>> /\ venue_submit' = Tail(venue_submit)
      /\ phase = "recv" /\ order'.order_id = o
      /\ UNCHANGED <<high_priority, core, mode, failed_after_ack>>
  BY DEF Receive, sequencerVars, engineVars
<1>2. ReportsInv /\ RoutedAreFresh
  BY DEF PipelineInv, TaskInv
<1>3. /\ o \in OrderIds /\ Fresh(o)
      /\ \A k \in DOMAIN venue_submit' :
           Fresh(venue_submit'[k].order_id) /\ venue_submit'[k].order_id # o
      /\ \A j, k \in DOMAIN venue_submit' :
           venue_submit'[j].order_id = venue_submit'[k].order_id => j = k
  BY <1>1, <1>2, RoutedTaken
<1>4. \/ outbox' = <<Report("OnVenueSubmitFailed", o)>> /\ phase' = "recv"
      \/ \E v \in VenueOrderIds : outbox' = <<ReportAck(o, v)>> /\ phase' = "recv"
      \/ outbox' = <<>> /\ phase' = "submit"
  BY <1>1 DEF Receive
<1> HIDE DEF o
<1>5. CASE phase' = "recv"
  <2>1. PICK x \in HighPriorityCommand :
          outbox' = <<x>> /\ About(x, o) /\ Fits(x) /\ x.type # "OnFill"
    BY <1>3, <1>4, <1>5, ReportTypes, FreshFits
  <2> QED BY <1>1, <1>3, <1>5, <2>1, FreshReported
<1>6. CASE outbox' = <<>> /\ phase' = "submit"
  <2>1. \A c, d : (InFlight(c)' <=> InFlight(c)) /\ (Before(c, d)' <=> Before(c, d))
    BY <1>1, <1>6 DEF InFlight, Before
  <2>2. /\ \A c, d : MayFollow(c, d)' <=> MayFollow(c, d)
        /\ \A d : Fits(d)' <=> Fits(d)
        /\ \A p, s : Unfilled(p, s)' <=> Unfilled(p, s)
    BY <1>1 DEF MayFollow, Fits, Unfilled, InState
  <2>3. \A p : Fresh(p)' <=> Fresh(p)
    BY <2>1, <2>2 DEF Fresh
  <2>4. ReportsInv'
    BY <1>1, <1>2, <2>1, <2>2 DEF ReportsInv, InOrder, FirstFits, FillsFit, ReportedIsKnown
  <2>5. RoutedAreFresh' /\ SubmittedIsFresh' /\ AckedIsNext'
    BY <1>1, <1>3, <1>6, <2>3 DEF RoutedAreFresh, SubmittedIsFresh, AckedIsNext
  <2> QED BY <2>4, <2>5 DEF PipelineInv, TaskInv
<1> QED BY <1>4, <1>5, <1>6

\* So does the venue's answer to a submission.
LEMMA AnswerKeepsPipeline ==
  ASSUME TaskTypeOK, PipelineInv, mode # "stopped", VenueAccepts \/ VenueRejects
  PROVE  PipelineInv'
<1> DEFINE o == order.order_id
<1>1. /\ phase = "submit"
      /\ UNCHANGED <<high_priority, core, mode, failed_after_ack, venue_submit, order>>
  BY DEF VenueAccepts, VenueRejects, sequencerVars, engineVars, channelVars
<1>2. outbox = <<>> /\ Fresh(o) /\ RoutedAreFresh /\ o \in OrderIds
  BY <1>1 DEF PipelineInv, TaskInv, SubmittedIsFresh, TaskTypeOK, OrderAck
<1>3. /\ \A k \in DOMAIN venue_submit' :
           Fresh(venue_submit'[k].order_id) /\ venue_submit'[k].order_id # o
      /\ \A j, k \in DOMAIN venue_submit' :
           venue_submit'[j].order_id = venue_submit'[k].order_id => j = k
  BY <1>1, <1>2 DEF RoutedAreFresh
<1>4. \/ \E v \in VenueOrderIds : outbox' = <<ReportAck(o, v)>> /\ phase' = "acked"
      \/ outbox' = <<Report("OnVenueSubmitFailed", o)>> /\ phase' = "recv"
  BY DEF VenueAccepts, VenueRejects
<1>5. order'.order_id = o
  BY <1>1
<1> HIDE DEF o
<1>6. PICK x \in HighPriorityCommand :
        /\ outbox' = <<x>> /\ About(x, o) /\ Fits(x) /\ x.type # "OnFill"
        /\ phase' \in {"recv", "acked"} /\ (phase' = "acked" => x.type = "OnVenueAck")
  BY <1>2, <1>4, ReportTypes, FreshFits
<1> QED BY <1>1, <1>2, <1>3, <1>5, <1>6, FreshReported

\* And what comes behind the ack, or the failure to learn it.
LEMMA PostAckKeepsPipeline ==
  ASSUME TaskTypeOK, PipelineInv, mode # "stopped", TakePostAckActions \/ PostAckFails
  PROVE  PipelineInv'
<1> DEFINE o == order.order_id
<1>1. /\ phase = "acked" /\ phase' = "recv" /\ outbox = <<>>
      /\ UNCHANGED <<high_priority, core, mode, venue_submit, order>>
      /\ failed_after_ack => failed_after_ack'
  BY DEF TakePostAckActions, PostAckFails, sequencerVars, engineVars, channelVars
<1>2. o \in OrderIds
  BY <1>1 DEF TaskTypeOK, OrderAck
<1>q. Qty[o] \in Nat /\ FillQtys \subseteq Nat
  BY <1>2, EngineStateAssumption
<1> DEFINE Good(x) ==
      /\ x \in HighPriorityCommand /\ About(x, o)
      /\ x.type # "OnVenueAck"
      /\ x.type = "OnVenueSubmitFailed" => failed_after_ack'
      /\ x.type = "OnFill" => x.qty > 0 /\ x.qty <= Qty[x.order]
<1>3. CASE outbox' = <<>>
  <2> DEFINE news == {}
  <2>1. \A c, d : (InFlight(c)' <=> InFlight(c)) /\ (Before(c, d)' <=> Before(c, d))
    BY <1>1, <1>3 DEF InFlight, Before
  <2>2. \A c, d : /\ InFlight(c)' <=> InFlight(c) \/ c \in news
                  /\ Before(c, d) => Before(c, d)'
                  /\ InFlight(c) /\ d \in news => Before(c, d)'
                  /\ Before(c, d)' => Before(c, d)
    BY <2>1
  <2>3. news \in SUBSET HighPriorityCommand /\ \A y \in news : Good(y)
    OBVIOUS
  <2> HIDE DEF news
  <2> QED BY <1>1, <1>2, <2>2, <2>3, AckFollowed
<1>4. ASSUME NEW x, outbox' = <<x>>, Good(x)
      PROVE  PipelineInv'
  <2> DEFINE news == {x}
  <2>1. \A c, d : /\ InFlight(c)' <=> InFlight(c) \/ c = x
                  /\ Before(c, d)' <=> Before(c, d) \/ (InFlight(c) /\ d = x)
    BY <1>1, <1>4, ReportPosted
  <2>2. \A c, d : /\ InFlight(c)' <=> InFlight(c) \/ c \in news
                  /\ Before(c, d) => Before(c, d)'
                  /\ InFlight(c) /\ d \in news => Before(c, d)'
                  /\ Before(c, d)' => Before(c, d) \/ (InFlight(c) /\ d \in news)
    BY <2>1
  <2>3. news \in SUBSET HighPriorityCommand /\ \A y \in news : Good(y)
    BY <1>4
  <2> HIDE DEF news
  <2> QED BY <1>1, <1>2, <2>2, <2>3, AckFollowed
<1>5. ASSUME NEW q \in FillQtys, 0 < q, q <= Qty[o], q < Qty[o],
             outbox' = <<ReportFill(o, q), Report("OnVenueCancelled", o)>>
      PROVE  PipelineInv'
  <2> DEFINE x == ReportFill(o, q)
             y == Report("OnVenueCancelled", o)
             news == {x, y}
  <2>1. \A c, d : /\ InFlight(c)' <=> InFlight(c) \/ c = x \/ c = y
                  /\ Before(c, d)' <=> \/ Before(c, d)
                                       \/ InFlight(c) /\ (d = x \/ d = y)
                                       \/ c = x /\ d = y
    BY <1>1, <1>5, TwoReportsPosted
  <2>2. /\ x.type = "OnFill" /\ y.type = "OnVenueCancelled" /\ x.qty < Qty[x.order]
        /\ Good(x) /\ Good(y)
    BY <1>2, <1>5, <1>q, ReportTypes
  <2>3. news \in SUBSET HighPriorityCommand /\ \A z \in news : Good(z)
    BY <2>2
  <2> HIDE DEF x, y
  <2>4. \A c, d : /\ InFlight(c)' <=> InFlight(c) \/ c \in news
                  /\ Before(c, d) => Before(c, d)'
                  /\ InFlight(c) /\ d \in news => Before(c, d)'
                  /\ Before(c, d)' => \/ Before(c, d)
                                      \/ InFlight(c) /\ d \in news
                                      \/ /\ c \in news /\ d \in news
                                         /\ c.type = "OnFill" /\ d.type = "OnVenueCancelled"
                                         /\ c.qty < Qty[c.order]
    BY <2>1, <2>2
  <2> HIDE DEF news
  <2> QED BY <1>1, <1>2, <2>3, <2>4, AckFollowed
<1>6. CASE PostAckFails
  <2>1. outbox' = <<Report("OnVenueSubmitFailed", o)>> /\ failed_after_ack'
    BY <1>6 DEF PostAckFails
  <2>2. Good(Report("OnVenueSubmitFailed", o))
    BY <1>2, <2>1, ReportTypes
  <2> QED BY <1>4, <2>1, <2>2
<1>7. CASE TakePostAckActions
  <2>1. outbox' \in PostAckReports(o)
    BY <1>7 DEF TakePostAckActions
  <2>2. Good(Report("OnVenueCancelled", o))
    BY <1>2, ReportTypes
  <2>3. \A q \in FillQtys : 0 < q /\ q <= Qty[o] => Good(ReportFill(o, q))
    BY <1>2, <1>q, ReportTypes
  <2> HIDE DEF Good
  <2> QED BY <1>2, <1>3, <1>4, <1>5, <2>1, <2>2, <2>3, PostAckKinds
<1> QED BY <1>6, <1>7

-----------------------------------------------------------------------------
(* The sequencer's side of the pipeline *)

\* Which channel a command came from.
LEMMA TakenFrom ==
  ASSUME TypeOK, NEW cmd, Take(cmd)
  PROVE  /\ mode # "stopped"
         /\ cmd \in HighPriorityCommand =>
              /\ high_priority # <<>> /\ cmd = Head(high_priority)
              /\ high_priority' = Tail(high_priority)
         /\ cmd \in NormalCommand => high_priority' = high_priority
         /\ cmd \in Command
<1>1. \A c : ~ (c \in HighPriorityCommand /\ c \in NormalCommand)
  BY DEF HighPriorityCommand, NormalCommand
<1>2. mode # "stopped"
  BY DEF Take, NextCommand, Idle
<1>3. CASE polled
  <2>1. commands # <<>> /\ cmd = Head(commands) /\ high_priority' = high_priority
    BY <1>3 DEF Take, NextCommand
  <2>2. cmd \in NormalCommand
    BY <2>1, TailFacts DEF TypeOK
  <2> QED BY <1>1, <1>2, <2>1, <2>2 DEF Command
<1>4. CASE ~ polled
  <2>1. /\ high_priority # <<>> /\ cmd = Head(high_priority)
        /\ high_priority' = Tail(high_priority)
    BY <1>4 DEF Take, NextCommand
  <2>2. cmd \in HighPriorityCommand
    BY <2>1, TailFacts DEF TypeOK
  <2> QED BY <1>1, <1>2, <2>1, <2>2 DEF Command
<1> QED BY <1>3, <1>4

\* A command that is no report and changes no record.
LEMMA OtherCommandKeepsPipeline ==
  ASSUME TypeOK, TaskTypeOK, PipelineInv, NEW cmd, Take(cmd),
         cmd.type \notin {"OnVenueAck", "OnVenueSubmitFailed", "OnVenueCancelled", "OnFill"},
         core'.orders = core.orders, venue_submit' = venue_submit, UNCHANGED taskVars
  PROVE  PipelineInv'
<1>1. /\ UNCHANGED <<outbox, venue_submit, phase, order, failed_after_ack>>
      /\ mode # "stopped" /\ cmd \in Command
      /\ high_priority \in Seq(HighPriorityCommand) /\ outbox \in Seq(HighPriorityCommand)
  BY TakenFrom DEF taskVars, TypeOK, TaskTypeOK
<1>2. CASE cmd \in HighPriorityCommand
  <2>1. /\ high_priority # <<>> /\ cmd = Head(high_priority)
        /\ high_priority' = Tail(high_priority)
    BY <1>2, TakenFrom
  <2>2. \A o : ~ About(Head(high_priority), o)
    BY <2>1 DEF About
  <2> QED BY <1>1, <2>1, <2>2, PipelineTaken
<1>3. CASE cmd \in NormalCommand
  <2>1. high_priority' = high_priority
    BY <1>3, TakenFrom
  <2> QED BY <1>1, <2>1, PipelineKept
<1> QED BY <1>1, <1>2, <1>3 DEF Command

\* Operator commands leave the records alone.
LEMMA OperatorCommandFrame ==
  ASSUME TypeOK, HandleOperatorCommand
  PROVE  /\ core'.orders = core.orders /\ venue_submit' = venue_submit
         /\ \E cmd : /\ Take(cmd)
                     /\ cmd.type \notin {"OnVenueAck", "OnVenueSubmitFailed", "OnVenueCancelled",
                                         "OnFill"}
<1>t. core \in State
  BY DEF TypeOK
<1>1. ASSUME core' = core \/ \E b : core' = [core EXCEPT !.book = b]
      PROVE  core'.orders = core.orders
  BY <1>1, <1>t DEF State
<1>2. ASSUME \E statuses : core' = [core EXCEPT !.agent_statuses = statuses]
      PROVE  core'.orders = core.orders
  BY <1>2, <1>t DEF State
<1>3. core'.orders = core.orders
  <2>1. CASE HandleReconciliation \/ HandleUnjournaled
    BY <1>1, <2>1 DEF HandleReconciliation, HandleUnjournaled, Commit
  <2>2. CASE HandleResetCircuitBreaker \/ HandleWithoutCommit \/ HandleShutdown
    BY <1>1, <2>2 DEF HandleResetCircuitBreaker, HandleWithoutCommit, HandleShutdown, Commit, NoCommit
  <2>3. CASE HandleHaltAll
    BY <1>2, <2>3 DEF HandleHaltAll, Commit
  <2>4. CASE \E a \in Agents : HandlePauseAgent(a) \/ HandleResumeAgent(a)
    BY <1>2, <2>4 DEF HandlePauseAgent, HandleResumeAgent, Commit
  <2> QED BY <2>1, <2>2, <2>3, <2>4 DEF HandleOperatorCommand
<1>4. venue_submit' = venue_submit
  BY DEF HandleOperatorCommand, HandleReconciliation, HandleUnjournaled, HandlePauseAgent,
         HandleResumeAgent, HandleHaltAll, HandleResetCircuitBreaker, HandleWithoutCommit,
         HandleShutdown, Untouched
<1>5. \E cmd : /\ Take(cmd)
               /\ cmd.type \notin {"OnVenueAck", "OnVenueSubmitFailed", "OnVenueCancelled", "OnFill"}
  <2>1. CASE HandleReconciliation \/ HandleHaltAll \/ HandleResetCircuitBreaker \/ HandleShutdown
    <3>1. PICK type \in {"OnReconciliation", "HaltAll", "ResetCircuitBreaker", "Shutdown"} :
            Take([type |-> type])
      BY <2>1 DEF HandleReconciliation, HandleHaltAll, HandleResetCircuitBreaker, HandleShutdown
    <3> WITNESS [type |-> type]
    <3> QED BY <3>1
  <2>2. CASE HandleUnjournaled \/ HandleWithoutCommit
    <3>1. PICK type \in {"MarkToMarket", "SubmitSignal", "Snapshot", "AdjustLimits"} :
            Take([type |-> type])
      BY <2>2 DEF HandleUnjournaled, HandleWithoutCommit
    <3> WITNESS [type |-> type]
    <3> QED BY <3>1
  <2>3. CASE \E a \in Agents : HandlePauseAgent(a) \/ HandleResumeAgent(a)
    <3>1. PICK a \in Agents, type \in {"PauseAgent", "ResumeAgent"} :
            Take([type |-> type, agent |-> a])
      BY <2>3 DEF HandlePauseAgent, HandleResumeAgent
    <3> WITNESS [type |-> type, agent |-> a]
    <3> QED BY <3>1
  <2> QED BY <2>1, <2>2, <2>3 DEF HandleOperatorCommand
<1> QED BY <1>3, <1>4, <1>5

\* A new order is recorded and, if the channel is wired, routed: nothing is on
\* its way about it.
LEMMA AcceptKeepsPipeline ==
  ASSUME AckInv, TaskTypeOK, PipelineInv, NEW o \in OrderIds,
         Take([type |-> "SubmitOrder", order |-> o]), AcceptAndRoute(o), UNCHANGED taskVars
  PROVE  PipelineInv'
<1> DEFINE cid    == NextClientOrderId(AgentOf[o])
           routed == [order_id |-> o, client_order_id |-> cid]
<1>1. TypeOK /\ core \in State /\ AcksAreFiled(core)
  BY DEF AckInv, IInv, TypeOK, CoreIsFiled
<1>2. /\ mode # "stopped" /\ high_priority' = high_priority
      /\ UNCHANGED <<outbox, phase, order, failed_after_ack>>
  <2>1. [type |-> "SubmitOrder", order |-> o] \in NormalCommand
    BY DEF NormalCommand
  <2> QED BY <1>1, <2>1, TakenFrom DEF taskVars
<1>3. core.orders[o] = None
  <2>1. ExistingAcks(core, o) = {}
    BY DEF AcceptAndRoute
  <2> QED BY <1>1, <2>1, FiledMeansOwnAck
<1>4. /\ core'.orders[o] = [state |-> "Pending", client_order_id |-> cid,
                            venue_order_id |-> None, filled |-> 0]
      /\ \A p \in OrderIds : p # o => core'.orders[p] = core.orders[p]
  <2>1. core' = WithOrder(core, o, cid)
    BY DEF AcceptAndRoute, Commit
  <2> HIDE DEF cid
  <2> QED BY <1>1, <2>1 DEF WithOrder, State
<1>5. venue_submit' = venue_submit \/ venue_submit' = Append(venue_submit, routed)
  BY DEF AcceptAndRoute
<1>6. routed \in OrderAck /\ routed.order_id = o
  <2>1. cid \in ClientOrderId
    BY <1>1, EngineStateAssumption DEF NextClientOrderId, ClientOrderId, TypeOK
  <2> HIDE DEF cid
  <2> QED BY <2>1 DEF OrderAck
<1>7. Unfilled(o, "Pending")'
  <2>1. core'.orders[o] # None
    <3>1. cid \in ClientOrderId
      BY <1>1, EngineStateAssumption DEF NextClientOrderId, ClientOrderId, TypeOK
    <3> HIDE DEF cid
    <3>2. core'.orders[o] \in OrderRecord
      BY <1>4, <3>1 DEF OrderRecord, OrderState
    <3> QED BY <3>2, SequencerAssumption
  <2> HIDE DEF cid
  <2> QED BY <1>4, <2>1 DEF Unfilled, InState
<1> HIDE DEF cid, routed
<1>8. ReportsInv /\ TaskInv
  BY <1>2 DEF PipelineInv
<1>9. \A c, d : (InFlight(c)' <=> InFlight(c)) /\ (Before(c, d)' <=> Before(c, d))
  BY <1>2 DEF InFlight, Before
<1>10. \A d \in HighPriorityCommand : InFlight(d) => ~ About(d, o)
  BY <1>3, <1>8 DEF ReportsInv, ReportedIsKnown
<1>11. \A c, d : MayFollow(c, d)' <=> MayFollow(c, d)
  BY <1>2 DEF MayFollow
<1>12. ASSUME NEW d \in HighPriorityCommand, ~ About(d, o), Fits(d)
       PROVE  Fits(d)'
  <2>1. CASE \E p \in OrderIds : About(d, p)
    BY <1>2, <1>4, <1>12, <2>1, FitsFrame DEF About
  <2>2. CASE ~ \E p \in OrderIds : About(d, p)
    <3>1. d.type \notin {"OnVenueAck", "OnVenueSubmitFailed", "OnVenueCancelled", "OnFill"}
      BY <2>2 DEF HighPriorityCommand, About
    <3> QED BY <3>1 DEF Fits
  <2> QED BY <2>1, <2>2
<1>13. InOrder' /\ FillsFit'
  BY <1>8, <1>9, <1>11 DEF ReportsInv, InOrder, FillsFit
<1>14. FirstFits'
  BY <1>8, <1>9, <1>10, <1>12 DEF ReportsInv, FirstFits
<1>15. ReportedIsKnown'
  BY <1>4, <1>8, <1>9, <1>10 DEF ReportsInv, ReportedIsKnown
<1>16. ASSUME NEW p \in OrderIds, core.orders[p] # None, NEW s
       PROVE  p # o /\ (Unfilled(p, s)' <=> Unfilled(p, s))
  BY <1>3, <1>4, <1>16 DEF Unfilled, InState
<1>17. ASSUME NEW p \in OrderIds, Fresh(p) PROVE p # o /\ Fresh(p)'
  <2>1. core.orders[p] # None
    BY <1>17 DEF Fresh, Unfilled, InState
  <2> QED BY <1>9, <1>16, <1>17, <2>1 DEF Fresh
<1>18. Fresh(o)'
  BY <1>7, <1>9, <1>10 DEF Fresh
<1>19. phase # "recv" => /\ order.order_id \in OrderIds /\ order.order_id # o
                         /\ core.orders[order.order_id] # None
  <2> SUFFICES ASSUME phase # "recv"
               PROVE  /\ order.order_id \in OrderIds /\ order.order_id # o
                      /\ core.orders[order.order_id] # None
    OBVIOUS
  <2>1. order.order_id \in OrderIds /\ phase \in {"submit", "acked"}
    BY DEF TaskTypeOK, OrderAck
  <2>2. core.orders[order.order_id] # None
    BY <1>8, <2>1 DEF TaskInv, SubmittedIsFresh, AckedIsNext, Fresh, Unfilled, InState, ReportsInv,
                      ReportedIsKnown
  <2> QED BY <1>3, <2>1, <2>2
<1>20. RoutedAreFresh'
  <2>1. venue_submit \in Seq(OrderAck)
    BY <1>1 DEF TypeOK
  <2>2. \A k \in DOMAIN venue_submit : venue_submit[k].order_id \in OrderIds
    <3>1. \A k \in DOMAIN venue_submit : venue_submit[k] \in OrderAck
      BY <2>1
    <3> QED BY <3>1 DEF OrderAck
  <2>3. /\ \A k \in DOMAIN venue_submit :
             Fresh(venue_submit[k].order_id) /\ venue_submit[k].order_id # o
        /\ \A j, k \in DOMAIN venue_submit :
             venue_submit[j].order_id = venue_submit[k].order_id => j = k
        /\ phase # "recv" => \A k \in DOMAIN venue_submit : venue_submit[k].order_id # order.order_id
    BY <1>8, <1>17, <2>2 DEF TaskInv, RoutedAreFresh
  <2>4. CASE venue_submit' = venue_submit
    BY <1>2, <1>17, <2>2, <2>3, <2>4 DEF RoutedAreFresh
  <2>5. CASE venue_submit' = Append(venue_submit, routed)
    <3> DEFINE n == Len(venue_submit)
    <3>1. /\ DOMAIN venue_submit = 1 .. n /\ n \in Nat
          /\ DOMAIN venue_submit' = 1 .. n + 1
          /\ \A i \in 1 .. n : venue_submit'[i] = venue_submit[i]
          /\ venue_submit'[n + 1] = routed
      BY <1>6, <2>1, <2>5, AppendFacts
    <3> HIDE DEF n
    <3>2. \A k \in DOMAIN venue_submit' :
            \/ k \in DOMAIN venue_submit /\ venue_submit'[k] = venue_submit[k]
            \/ k = n + 1 /\ venue_submit'[k].order_id = o
      BY <1>6, <3>1
    <3>3. \A p \in OrderIds : Fresh(p) \/ p = o => Fresh(p)'
      BY <1>17, <1>18
    <3>4. \A k \in DOMAIN venue_submit' :
            /\ venue_submit'[k].order_id \in OrderIds
            /\ Fresh(venue_submit'[k].order_id) \/ venue_submit'[k].order_id = o
      BY <2>2, <2>3, <3>2
    <3>5. \A j, k \in DOMAIN venue_submit' :
            venue_submit'[j].order_id = venue_submit'[k].order_id => j = k
      BY <2>3, <3>2
    <3>6. phase # "recv" => \A k \in DOMAIN venue_submit' : venue_submit'[k].order_id # order.order_id
      BY <1>19, <2>3, <3>2
    <3> QED BY <1>2, <3>3, <3>4, <3>5, <3>6 DEF RoutedAreFresh
  <2> QED BY <1>5, <2>4, <2>5
<1>21. SubmittedIsFresh'
  BY <1>2, <1>8, <1>17, <1>19 DEF TaskInv, SubmittedIsFresh
<1>22. AckedIsNext'
  BY <1>2, <1>8, <1>9, <1>16, <1>19 DEF TaskInv, AckedIsNext
<1> QED BY <1>13, <1>14, <1>15, <1>20, <1>21, <1>22 DEF PipelineInv, ReportsInv, TaskInv

\* Whatever becomes of a submission, the pipeline stays in order.
LEMMA SubmitKeepsPipeline ==
  ASSUME AckInv, TaskTypeOK, PipelineInv, NEW o \in OrderIds, HandleSubmitOrder(o),
         UNCHANGED taskVars
  PROVE  PipelineInv'
<1>1. TypeOK /\ Take([type |-> "SubmitOrder", order |-> o])
  BY DEF AckInv, IInv, HandleSubmitOrder
<1>2. CASE AcceptAndRoute(o)
  BY <1>1, <1>2, AcceptKeepsPipeline
<1>3. CASE ReturnCachedAck(o) \/ RejectByRisk(o) \/ RejectByRoute(o)
  <2>1. core' = core /\ venue_submit' = venue_submit
    BY <1>3 DEF ReturnCachedAck, RejectByRisk, RejectByRoute, NoCommit, Commit
  <2> QED BY <1>1, <2>1, OtherCommandKeepsPipeline
<1> QED BY <1>2, <1>3 DEF HandleSubmitOrder

\* The record a venue event leaves behind.
LEMMA VenueEventRecords ==
  ASSUME TypeOK, NEW o \in OrderIds, NEW r, core' = [core EXCEPT !.orders[o] = r]
  PROVE  core'.orders[o] = r /\ \A p \in OrderIds : p # o => core'.orders[p] = core.orders[p]
<1>1. core \in State
  BY DEF TypeOK
<1> QED BY <1>1 DEF State

\* A report meets a record that allows it, and leaves one that allows the next.
LEMMA VenueEventKeepsPipeline ==
  ASSUME TypeOK, TaskTypeOK, PipelineInv, HandleVenueEvent, UNCHANGED taskVars
  PROVE  PipelineInv'
<1> SUFFICES ASSUME NEW o \in OrderIds,
                    \/ \E v \in VenueOrderIds : HandleVenueAck(o, v)
                    \/ HandleVenueSubmitFailed(o)
                    \/ HandleVenueCancelled(o)
                    \/ \E qty \in FillQtys : HandleFill(o, qty)
             PROVE  PipelineInv'
  BY DEF HandleVenueEvent
<1>1. /\ UNCHANGED <<outbox, phase, order, failed_after_ack, venue_submit>>
      /\ high_priority \in Seq(HighPriorityCommand) /\ outbox \in Seq(HighPriorityCommand)
      /\ core \in State
  BY DEF taskVars, TypeOK, TaskTypeOK, HandleVenueAck, HandleVenueSubmitFailed,
         HandleVenueCancelled, HandleFill, Untouched
<1>2. ASSUME NEW cmd \in HighPriorityCommand, Take(cmd), About(cmd, o),
             NEW r \in OrderRecord, core' = [core EXCEPT !.orders[o] = r],
             \A d \in HighPriorityCommand : About(d, o) /\ MayFollow(cmd, d) => Fits(d)',
             cmd.type = "OnVenueAck" => Unfilled(o, "Submitted")'
      PROVE  PipelineInv'
  <2>1. /\ mode # "stopped" /\ high_priority # <<>> /\ cmd = Head(high_priority)
        /\ high_priority' = Tail(high_priority)
    BY <1>2, TakenFrom
  <2>2. core'.orders[o] # None /\ \A p \in OrderIds : p # o => core'.orders[p] = core.orders[p]
    BY <1>2, VenueEventRecords, SequencerAssumption
  <2> QED BY <1>1, <1>2, <2>1, <2>2, PipelineReported
<1>3. ASSUME NEW cmd \in HighPriorityCommand, Take(cmd)
      PROVE  Fits(cmd)
  BY <1>1, <1>3, TakenFrom, HeadFits
<1>4. CASE \E v \in VenueOrderIds : HandleVenueAck(o, v)
  <2>1. PICK v \in VenueOrderIds : HandleVenueAck(o, v)
    BY <1>4
  <2> DEFINE cmd == ReportAck(o, v)
             r   == [core.orders[o] EXCEPT !.state = "Submitted", !.venue_order_id = v]
  <2>2. Take(cmd) /\ core' = [core EXCEPT !.orders[o] = r]
    BY <2>1 DEF HandleVenueAck, Commit, ReportAck
  <2>3. cmd \in HighPriorityCommand /\ About(cmd, o) /\ cmd.type = "OnVenueAck" /\ cmd.order = o
    BY ReportTypes DEF ReportAck
  <2> HIDE DEF cmd
  <2>4. Unfilled(o, "Pending")
    BY <1>3, <2>2, <2>3 DEF Fits
  <2>5. core.orders[o] \in OrderRecord /\ core.orders[o].filled = 0
    BY <1>1, <2>4 DEF Unfilled, InState, State
  <2>6. r \in OrderRecord /\ r.filled = 0 /\ r.state = "Submitted"
    BY <2>5 DEF OrderRecord, OrderState
  <2> HIDE DEF r
  <2>7. core'.orders[o] = r /\ r # None
    BY <2>2, <2>6, VenueEventRecords, SequencerAssumption
  <2>8. Unfilled(o, "Submitted")'
    BY <2>6, <2>7 DEF Unfilled, InState
  <2>9. ASSUME NEW d \in HighPriorityCommand, About(d, o), MayFollow(cmd, d)
        PROVE  Fits(d)'
    <3>1. d.order = o
      BY <2>9 DEF About
    <3>2. Unfilled(d.order, "Submitted")'
      BY <2>6, <2>7, <3>1 DEF Unfilled, InState
    <3>3. \/ d.type \in {"OnFill", "OnVenueCancelled"}
          \/ d.type = "OnVenueSubmitFailed" /\ failed_after_ack'
      BY <1>1, <2>3, <2>9 DEF MayFollow
    <3> QED BY <3>2, <3>3 DEF Fits, Unfilled, InState
  <2> QED BY <1>2, <2>2, <2>3, <2>6, <2>8, <2>9
<1>5. CASE HandleVenueSubmitFailed(o) \/ HandleVenueCancelled(o)
  <2>1. PICK type \in {"OnVenueSubmitFailed", "OnVenueCancelled"}, state \in {"Rejected", "Cancelled"} :
          /\ Take(Report(type, o)) /\ core' = [core EXCEPT !.orders[o].state = state]
          /\ core.orders[o] # None
    BY <1>5 DEF HandleVenueSubmitFailed, HandleVenueCancelled, Commit, Report, InState
  <2> DEFINE cmd == Report(type, o)
             r   == [core.orders[o] EXCEPT !.state = state]
  <2>2. Take(cmd) /\ core' = [core EXCEPT !.orders[o] = r]
    BY <2>1
  <2>3. cmd \in HighPriorityCommand /\ About(cmd, o) /\ cmd.type = type
    BY ReportTypes
  <2>4. core.orders[o] \in OrderRecord
    BY <1>1, <2>1 DEF State
  <2>5. r \in OrderRecord
    BY <2>4 DEF OrderRecord, OrderState
  <2>6. \A d \in HighPriorityCommand : ~ MayFollow(cmd, d)
    BY <2>1, <2>3 DEF MayFollow
  <2> HIDE DEF cmd, r
  <2> QED BY <1>2, <2>1, <2>2, <2>3, <2>5, <2>6
<1>6. CASE \E qty \in FillQtys : HandleFill(o, qty)
  <2>1. PICK qty \in FillQtys : HandleFill(o, qty)
    BY <1>6
  <2> DEFINE cmd   == ReportFill(o, qty)
             total == core.orders[o].filled + qty
             state == IF total = Qty[o] THEN "Filled" ELSE "PartiallyFilled"
             r     == [core.orders[o] EXCEPT !.filled = total, !.state = state]
  <2>2. Take(cmd) /\ core' = [core EXCEPT !.orders[o] = r]
    BY <2>1 DEF HandleFill, Commit, WithFill, ReportFill
  <2>3. /\ cmd \in HighPriorityCommand /\ About(cmd, o) /\ cmd.type = "OnFill" /\ cmd.order = o
        /\ cmd.qty = qty
    BY ReportTypes
  <2> HIDE DEF cmd
  <2>4. Unfilled(o, "Submitted")
    BY <1>3, <2>2, <2>3 DEF Fits
  <2>5. core.orders[o] \in OrderRecord /\ core.orders[o].filled = 0
    BY <1>1, <2>4 DEF Unfilled, InState, State
  <2>6. /\ total = qty /\ qty \in Nat /\ Qty[o] \in Nat
    BY <2>5, EngineStateAssumption
  <2>7. state \in OrderState /\ (qty < Qty[o] => state = "PartiallyFilled")
    BY <2>6 DEF OrderState
  <2> HIDE DEF total, state
  <2>8. r \in OrderRecord /\ r.state = state
    BY <2>5, <2>6, <2>7 DEF OrderRecord
  <2> HIDE DEF r
  <2>9. core'.orders[o] = r /\ r # None
    BY <2>2, <2>8, VenueEventRecords, SequencerAssumption
  <2>10. ASSUME NEW d \in HighPriorityCommand, About(d, o), MayFollow(cmd, d)
         PROVE  Fits(d)'
    <3>1. d.order = o
      BY <2>10 DEF About
    <3>2. d.type = "OnVenueCancelled" /\ qty < Qty[o]
      BY <2>3, <2>10 DEF MayFollow
    <3>3. InState(core, d.order, {"PartiallyFilled"})'
      BY <2>7, <2>8, <2>9, <3>1, <3>2 DEF InState
    <3> QED BY <3>2, <3>3 DEF Fits, InState
  <2> QED BY <1>2, <2>2, <2>3, <2>8, <2>10
<1> QED BY <1>4, <1>5, <1>6

\* The sequencer, its clients and its end keep the pipeline in order.
LEMMA SequencerKeepsPipeline ==
  ASSUME EngineInv, SequencerStep \/ ClientSends \/ SequencerFails
  PROVE  PipelineInv'
<1>1. AckInv /\ TypeOK /\ TaskTypeOK /\ PipelineInv /\ core \in State
  BY DEF EngineInv, AckInv, IInv, TypeOK
<1>2. UNCHANGED taskVars /\ UNCHANGED <<outbox, phase, order, failed_after_ack>>
  BY DEF SequencerStep, ClientSends, SequencerFails, taskVars
<1>3. CASE Handle
  <2>1. CASE HandleOperatorCommand
    BY <1>1, <1>2, <2>1, OperatorCommandFrame, OtherCommandKeepsPipeline
  <2> QED BY <1>1, <1>2, <1>3, <2>1, SubmitKeepsPipeline, VenueEventKeepsPipeline DEF Handle
<1>4. CASE PollHighPriority \/ WaitForCommand
  <2>1. UNCHANGED <<high_priority, venue_submit, core, mode>>
    BY <1>4 DEF PollHighPriority, WaitForCommand, channelVars
  <2> QED BY <1>1, <1>2, <2>1, PipelineKept
<1>5. CASE Persist
  <2>1. /\ UNCHANGED <<high_priority, venue_submit, mode>>
        /\ core' = core \/ core' = [core EXCEPT !.last_sequence_id = commit.snapshot.sequence_id]
    BY <1>5 DEF Persist, PersistCommit, PersistSnapshot, PersistEvents, Committed, channelVars
  <2>2. core'.orders = core.orders
    BY <1>1, <2>1 DEF State
  <2> QED BY <1>1, <1>2, <2>1, <2>2, PipelineKept
<1>6. CASE FinishShutdown \/ CommandFails \/ PersistFails \/ HandlesDropped
  <2>1. mode' = "stopped"
    BY <1>6 DEF FinishShutdown, CommandFails, PersistFails, HandlesDropped, Stop
  <2> QED BY <2>1 DEF PipelineInv
<1>7. CASE SendOffered
  <2>1. PICK cmd \in Offered : Send(cmd)
    BY <1>7 DEF SendOffered
  <2>2. /\ mode # "stopped" /\ UNCHANGED <<core, mode, venue_submit>>
        /\ high_priority \in Seq(HighPriorityCommand)
    BY <1>1, <2>1 DEF Send, engineVars, TypeOK
  <2>3. CASE cmd \in HighPriorityCommand
    <3>1. high_priority' = Append(high_priority, cmd) /\ \A o : ~ About(cmd, o)
      BY <2>1, <2>3, TradingEngineAssumption DEF Send, About
    <3> QED BY <1>1, <1>2, <2>2, <2>3, <3>1, PipelineSent
  <2>4. CASE cmd \notin HighPriorityCommand
    <3>1. high_priority' = high_priority
      BY <2>1, <2>4 DEF Send
    <3> QED BY <1>1, <1>2, <2>2, <3>1, PipelineKept
  <2> QED BY <2>3, <2>4
<1> QED BY <1>3, <1>4, <1>5, <1>6, <1>7 DEF SequencerStep, ClientSends, SequencerFails, Step

-----------------------------------------------------------------------------
(* The invariant of the two tasks *)

\* The task and its process keep the pipeline in order.
LEMMA TaskKeepsPipeline ==
  ASSUME EngineInv, TaskStep \/ TaskPanics \/ ProcessStarts \/ ProcessCrashes
  PROVE  PipelineInv'
<1>1. TypeOK /\ TaskTypeOK /\ PipelineInv /\ high_priority \in Seq(HighPriorityCommand)
      /\ outbox \in Seq(HighPriorityCommand)
  BY DEF EngineInv, AckInv, IInv, TypeOK, TaskTypeOK
<1>2. CASE mode' = "stopped"
  BY <1>2 DEF PipelineInv
<1>3. CASE ProcessStarts
  <2>1. /\ high_priority' = <<>> /\ venue_submit' = <<>> /\ outbox' = <<>> /\ phase' = "recv"
    BY <1>3 DEF ProcessStarts, Bootstrap, NewProcess
  <2>2. DOMAIN high_priority' = {} /\ DOMAIN venue_submit' = {} /\ DOMAIN outbox' = {}
    BY <2>1
  <2>3. \A c, d : ~ InFlight(c)' /\ ~ Before(c, d)'
    BY <2>2 DEF InFlight, Before
  <2>4. ReportsInv'
    BY <2>3 DEF ReportsInv, InOrder, FirstFits, FillsFit, ReportedIsKnown
  <2>5. TaskInv'
    BY <2>1, <2>2 DEF TaskInv, RoutedAreFresh, SubmittedIsFresh, AckedIsNext
  <2> QED BY <2>4, <2>5 DEF PipelineInv
<1>4. CASE ProcessCrashes
  BY <1>2, <1>4 DEF ProcessCrashes, Crash
<1>5. CASE TaskPanics
  <2>1. /\ mode # "stopped" /\ UNCHANGED <<high_priority, core, failed_after_ack>>
        /\ outbox' = <<>> /\ venue_submit' = <<>> /\ phase' = "recv"
    BY <1>5 DEF TaskPanics, DropReceiver, engineVars
  <2> QED BY <1>1, <2>1, ReportsDropped
<1>6. CASE TaskStep
  <2>1. mode' = mode
    BY <1>6 DEF TaskStep, Receive, VenueAccepts, VenueRejects, SendReport, Send, SendFails,
                TakePostAckActions, PostAckFails, sequencerVars, engineVars
  <2> SUFFICES ASSUME mode # "stopped" PROVE PipelineInv'
    BY <1>2, <2>1
  <2>2. CASE SendReport
    <3>1. Head(outbox) \in HighPriorityCommand /\ outbox # <<>>
      BY <1>1, <2>2, TailFacts DEF SendReport
    <3>2. /\ high_priority' = Append(high_priority, Head(outbox)) /\ outbox' = Tail(outbox)
          /\ UNCHANGED <<venue_submit, phase, order, failed_after_ack, core>>
      BY <2>2, <3>1 DEF SendReport, Send, engineVars
    <3> QED BY <1>1, <3>1, <3>2, PipelineMoves
  <2>3. ~ SendFails
    BY DEF SendFails
  <2> QED BY <1>1, <1>6, <2>2, <2>3, ReceiveKeepsPipeline, AnswerKeepsPipeline, PostAckKeepsPipeline
          DEF TaskStep
<1> QED BY <1>3, <1>4, <1>5, <1>6

\* Outboxes are sequences of commands.
LEMMA OutboxTypes ==
  /\ <<>> \in Seq(HighPriorityCommand)
  /\ \A x \in HighPriorityCommand : <<x>> \in Seq(HighPriorityCommand)
  /\ \A x, y \in HighPriorityCommand : <<x, y>> \in Seq(HighPriorityCommand)
OBVIOUS

\* The task keeps its types.
LEMMA TaskType ==
  ASSUME TypeOK, TaskTypeOK, [EngineNext]_allVars
  PROVE  TaskTypeOK'
<1>1. CASE UNCHANGED taskVars
  BY <1>1 DEF taskVars, TaskTypeOK
<1>2. CASE ProcessStarts \/ ProcessCrashes \/ TaskPanics
  <2>1. outbox' \in Seq(HighPriorityCommand)
    BY <1>2, OutboxTypes DEF ProcessStarts, ProcessCrashes, TaskPanics, NewProcess
  <2> QED BY <1>2, <2>1 DEF ProcessStarts, ProcessCrashes, TaskPanics, NewProcess, TaskTypeOK
<1>3. CASE Receive
  <2>1. order' \in OrderAck
    BY <1>3, TailFacts DEF Receive, TypeOK
  <2>2. order'.order_id \in OrderIds
    BY <2>1 DEF OrderAck
  <2>3. outbox' \in Seq(HighPriorityCommand)
    <3> DEFINE o == order'.order_id
    <3>1. \/ outbox' \in {<<>>, <<Report("OnVenueSubmitFailed", o)>>}
          \/ \E v \in VenueOrderIds : outbox' = <<ReportAck(o, v)>>
      BY <1>3 DEF Receive
    <3>2. o \in OrderIds
      BY <2>2
    <3> HIDE DEF o
    <3>3. outbox' = <<>> \/ \E x \in HighPriorityCommand : outbox' = <<x>>
      BY <3>1, <3>2, ReportTypes
    <3> QED BY <3>3, OutboxTypes
  <2>4. phase' \in {"recv", "submit"}
    BY <1>3 DEF Receive
  <2>5. UNCHANGED <<venue_orders, failed_after_ack>>
    BY <1>3 DEF Receive
  <2> QED BY <2>1, <2>3, <2>4, <2>5 DEF TaskTypeOK
<1>4. CASE VenueAccepts \/ VenueRejects \/ TakePostAckActions \/ PostAckFails
  <2>1. order' = order /\ order \in OrderAck /\ order.order_id \in OrderIds
    BY <1>4 DEF VenueAccepts, VenueRejects, TakePostAckActions, PostAckFails, TaskTypeOK, OrderAck
  <2>2. outbox' \in Seq(HighPriorityCommand)
    <3>1. CASE TakePostAckActions
      <4>1. outbox' \in PostAckReports(order.order_id)
        BY <3>1 DEF TakePostAckActions
      <4>2. \/ outbox' = <<>>
            \/ \E x \in HighPriorityCommand : outbox' = <<x>>
            \/ \E x, y \in HighPriorityCommand : outbox' = <<x, y>>
        BY <2>1, <4>1, PostAckKinds, ReportTypes
      <4> QED BY <4>2, OutboxTypes
    <3>2. CASE VenueAccepts \/ VenueRejects \/ PostAckFails
      <4>1. \/ outbox' = <<Report("OnVenueSubmitFailed", order.order_id)>>
            \/ \E v \in VenueOrderIds : outbox' = <<ReportAck(order.order_id, v)>>
        BY <3>2 DEF VenueAccepts, VenueRejects, PostAckFails
      <4>2. \E x \in HighPriorityCommand : outbox' = <<x>>
        BY <2>1, <4>1, ReportTypes
      <4> QED BY <4>2, OutboxTypes
    <3> QED BY <1>4, <3>1, <3>2
  <2>3. phase' \in {"recv", "acked"} /\ venue_orders' \subseteq venue_orders \cup {order}
        /\ failed_after_ack' \in {failed_after_ack, TRUE}
    BY <1>4 DEF VenueAccepts, VenueRejects, TakePostAckActions, PostAckFails
  <2> QED BY <2>1, <2>2, <2>3 DEF TaskTypeOK
<1>5. CASE SendReport \/ SendFails
  <2>1. outbox' \in Seq(HighPriorityCommand)
    <3>1. CASE SendReport
      <4>1. outbox # <<>> /\ outbox \in Seq(HighPriorityCommand) /\ outbox' = Tail(outbox)
        BY <3>1 DEF SendReport, TaskTypeOK
      <4> QED BY <4>1, TailFacts
    <3>2. CASE SendFails
      BY <3>2, OutboxTypes DEF SendFails
    <3> QED BY <1>5, <3>1, <3>2
  <2>2. UNCHANGED <<order, venue_orders, failed_after_ack>> /\ phase' \in {phase, "recv"}
    BY <1>5 DEF SendReport, SendFails
  <2> QED BY <2>1, <2>2 DEF TaskTypeOK
<1> QED BY <1>1, <1>2, <1>3, <1>4, <1>5
        DEF EngineNext, SequencerStep, ClientSends, SequencerFails, TaskStep, allVars

\* To the sequencer a step of the engine is one of its own, or a report sent.
LEMMA EngineStepKinds ==
  ASSUME [EngineNext]_allVars
  PROVE  [Next]_vars \/ SendReport
<1>1. CASE ProcessStarts \/ SequencerStep \/ ClientSends \/ SequencerFails \/ TaskPanics \/ ProcessCrashes
  BY <1>1 DEF ProcessStarts, SequencerStep, ClientSends, SequencerFails, TaskPanics, ProcessCrashes,
              Next, Fault, Environment
<1>2. CASE Receive
  <2>1. TakeRouted
    BY <1>2 DEF Receive, TakeRouted, sequencerVars
  <2> QED BY <2>1 DEF Next, Environment
<1>3. CASE VenueAccepts \/ VenueRejects \/ SendFails \/ TakePostAckActions \/ PostAckFails
  BY <1>3 DEF VenueAccepts, VenueRejects, SendFails, TakePostAckActions, PostAckFails, sequencerVars,
              vars
<1>4. CASE UNCHANGED allVars
  BY <1>4 DEF allVars
<1> QED BY <1>1, <1>2, <1>3, <1>4 DEF EngineNext, TaskStep

\* A report sent leaves everything of the sequencer but its channel alone.
LEMMA SendReportFrame ==
  ASSUME TypeOK, TaskTypeOK, SendReport
  PROVE  /\ TypeOK'
         /\ UNCHANGED <<engineVars, journalVars, venue_submit, venue_submit_tx, historyVars>>
<1>1. Head(outbox) \in Command /\ Send(Head(outbox)) /\ sent' = sent
  BY TailFacts DEF SendReport, TaskTypeOK, Command
<1>2. TypeOK'
  BY <1>1, SendType DEF TypeOK
<1> QED BY <1>1, <1>2 DEF Send, historyVars

\* What is proved of the sequencer holds in the engine: the acks are filed.
LEMMA EngineKeepsAcks ==
  ASSUME EngineInv, [EngineNext]_allVars
  PROVE  AckInv'
<1>1. AckInv /\ IInv /\ TypeOK /\ TaskTypeOK
  BY DEF EngineInv, AckInv, IInv
<1>2. CASE [Next]_vars
  BY <1>1, <1>2, NextInvariant, AcksKept DEF AckInv
<1>3. CASE SendReport
  <2>1. TypeOK' /\ UNCHANGED engineVars /\ UNCHANGED journalVars
    BY <1>1, <1>3, SendReportFrame
  <2>2. IInv'
    BY <1>1, <2>1, FrameKeepsInvariant DEF engineVars
  <2>3. core' = core /\ mode' = mode /\ generators' = generators /\ Recovered' = Recovered
    BY <2>1, RecoveredUnchanged DEF engineVars, journalVars
  <2> QED BY <1>1, <2>2, <2>3 DEF AckInv, CoreIsFiled, DurableIsFiled, CountersAhead
<1> QED BY <1>2, <1>3, EngineStepKinds

\* The invariant holds before the first start.
LEMMA EngineInitInvariant == EngineInit => EngineInv
<1> SUFFICES ASSUME EngineInit PROVE EngineInv
  OBVIOUS
<1>1. Init /\ TaskInit /\ mode = "stopped"
  BY DEF EngineInit, Init
<1>2. AckInv
  BY <1>1, InitAckInvariant
<1>3. TaskTypeOK
  <2>1. outbox \in Seq(HighPriorityCommand)
    BY <1>1 DEF TaskInit
  <2> QED BY <1>1, <2>1 DEF TaskInit, TaskTypeOK
<1> QED BY <1>1, <1>2, <1>3 DEF EngineInv, PipelineInv

\* Every step of the engine keeps it.
LEMMA EngineNextInvariant == EngineInv /\ [EngineNext]_allVars => EngineInv'
<1> SUFFICES ASSUME EngineInv, [EngineNext]_allVars PROVE EngineInv'
  OBVIOUS
<1>1. AckInv' /\ TaskTypeOK'
  BY EngineKeepsAcks, TaskType DEF EngineInv, AckInv, IInv
<1>2. CASE UNCHANGED allVars
  <2>1. UNCHANGED <<high_priority, outbox, venue_submit, phase, order, failed_after_ack, core, mode>>
    BY <1>2 DEF allVars, vars, engineVars, channelVars, taskVars
  <2> QED BY <1>1, <2>1, PipelineKept DEF EngineInv
<1>3. CASE EngineNext
  BY <1>1, <1>3, SequencerKeepsPipeline, TaskKeepsPipeline DEF EngineNext, EngineInv
<1> QED BY <1>2, <1>3

\* So it holds always.
LEMMA EngineInvariant == EngineSafety => []EngineInv
BY EngineInitInvariant, EngineNextInvariant, PTL DEF EngineSafety

\* No report of the submit task ever meets its order in a state that does not
\* allow it, unless the task reported a failure behind an ack: the sequencer is
\* not stopped by an illegal transition, for any number of orders, any channel
\* capacities, crashes and restarts.
THEOREM ReportsMeetTheirOrders == EngineSafety => []ReportsAreLegal
<1> DEFINE LegalInv == EngineInv /\ ReportsAreLegal
<1>1. EngineInit => LegalInv
  BY EngineInitInvariant DEF EngineInit, Init, ReportsAreLegal
<1>2. LegalInv /\ [EngineNext]_allVars => LegalInv'
  <2> SUFFICES ASSUME EngineInv, ReportsAreLegal, [EngineNext]_allVars
               PROVE  ReportsAreLegal'
    BY EngineNextInvariant
  <2>1. TypeOK /\ TaskTypeOK /\ PipelineInv /\ high_priority \in Seq(HighPriorityCommand)
        /\ outbox \in Seq(HighPriorityCommand) /\ core \in State
    BY DEF EngineInv, AckInv, IInv, TypeOK, TaskTypeOK
  <2>2. failed_after_ack => failed_after_ack'
    BY DEF EngineNext, ProcessStarts, NewProcess, SequencerStep, ClientSends, SequencerFails, TaskStep,
           Receive, VenueAccepts, VenueRejects, SendReport, SendFails, TakePostAckActions,
           PostAckFails, TaskPanics, ProcessCrashes, taskVars, allVars
  <2>3. CASE CommandFails
    <3>1. PICK cmd \in Command : /\ NextCommand(cmd)
                                 /\ Illegal(cmd) \/ stop_cause' = "core failure"
      BY <2>3 DEF CommandFails, Stop
    <3>2. CASE Illegal(cmd)
      <4>1. cmd \in HighPriorityCommand
        BY <3>2 DEF Illegal, Command, HighPriorityCommand, NormalCommand
      <4>2. mode # "stopped" /\ high_priority # <<>> /\ cmd = Head(high_priority)
        <5>1. \A c : ~ (c \in HighPriorityCommand /\ c \in NormalCommand)
          BY DEF HighPriorityCommand, NormalCommand
        <5>2. mode # "stopped" /\ \/ high_priority # <<>> /\ cmd = Head(high_priority)
                                  \/ commands # <<>> /\ cmd = Head(commands)
          BY <3>1 DEF NextCommand, Idle
        <5>3. commands # <<>> => Head(commands) \in NormalCommand
          BY <2>1, TailFacts DEF TypeOK
        <5> QED BY <4>1, <5>1, <5>2, <5>3
      <4>3. Fits(cmd) /\ (cmd.type = "OnFill" => cmd.qty > 0 /\ cmd.qty <= Qty[cmd.order])
        BY <2>1, <4>2, HeadFits
      <4>4. cmd.type = "OnFill" => FillAccepted(core, cmd.order, cmd.qty)
        <5>1. ASSUME cmd.type = "OnFill"
              PROVE  cmd.order \in OrderIds /\ cmd.qty \in FillQtys
          BY <4>1, <5>1 DEF HighPriorityCommand
        <5>2. ASSUME cmd.type = "OnFill"
              PROVE  core.orders[cmd.order].filled + cmd.qty <= Qty[cmd.order]
          <6>1. core.orders[cmd.order].filled = 0
            BY <4>3, <5>2 DEF Fits, Unfilled
          <6>2. cmd.qty \in Nat /\ cmd.qty <= Qty[cmd.order]
            BY <4>3, <5>1, <5>2, EngineStateAssumption
          <6> QED BY <6>1, <6>2
        <5> QED BY <4>3, <5>2 DEF Fits, Unfilled, InState, FillAccepted
      <4>5. failed_after_ack
        BY <3>2, <4>3, <4>4 DEF Illegal, Fits, Unfilled, InState
      <4> QED BY <2>2, <4>5 DEF ReportsAreLegal
    <3>3. CASE stop_cause' = "core failure"
      BY <3>3 DEF ReportsAreLegal
    <3> QED BY <3>1, <3>2, <3>3
  <2>4. CASE ~ CommandFails
    <3>1. CASE SendReport
      BY <2>1, <2>2, <3>1, SendReportFrame DEF engineVars, ReportsAreLegal
    <3>2. CASE [Next]_vars
      <4>1. stop_cause' = stop_cause \/ stop_cause' # "illegal command"
        <5>1. CASE Handle
          BY <2>1, <5>1, HandleStep DEF HandlerStep
        <5>2. CASE Bootstrap \/ Environment \/ UNCHANGED vars
          BY <5>2 DEF Bootstrap, Environment, SendOffered, Send, TakeRouted, DropReceiver, engineVars,
                      vars
        <5>3. CASE PollHighPriority \/ WaitForCommand \/ Persist \/ FinishShutdown
          BY <5>3 DEF PollHighPriority, WaitForCommand, Persist, PersistCommit, PersistEvents,
                      PersistSnapshot, Committed, FinishShutdown, Stop
        <5>4. CASE Fault
          BY <2>4, <5>4 DEF Fault, PersistFails, HandlesDropped, Crash, Stop
        <5> QED BY <3>2, <5>1, <5>2, <5>3, <5>4 DEF Next, Step
      <4> QED BY <2>2, <4>1 DEF ReportsAreLegal
    <3> QED BY <3>1, <3>2, EngineStepKinds
  <2> QED BY <2>3, <2>4
<1>3. LegalInv => ReportsAreLegal
  OBVIOUS
<1> QED BY <1>1, <1>2, <1>3, PTL DEF EngineSafety

-----------------------------------------------------------------------------
(* Orders a venue accepted *)

\* What the venues and the task hold was routed under this epoch or an earlier one.
EpochsPast ==
  /\ \A r \in venue_orders : r.client_order_id.epoch <= restart_epoch
  /\ phase # "recv" => order.client_order_id.epoch <= restart_epoch
  /\ \A k \in DOMAIN venue_submit : venue_submit[k].client_order_id.epoch <= restart_epoch

\* An order accepted under this epoch is on record, and acked or about to be.
AcceptedAreKnown ==
  mode # "stopped" /\ venue_submit_tx = "open" =>
    \A r \in venue_orders : r.client_order_id.epoch = restart_epoch =>
      /\ core.orders[r.order_id] # None
      /\ InState(core, r.order_id, {"Pending"}) =>
           \E v \in VenueOrderIds : InFlight(ReportAck(r.order_id, v))

AcceptInv == EngineInv /\ EpochsPast /\ AcceptedAreKnown

\* Of what is on its way the sequencer takes only the command it handles.
LEMMA OnlyTheCommandIsTaken ==
  ASSUME TypeOK, TaskTypeOK, NEW cmd, Take(cmd), outbox' = outbox, NEW d, InFlight(d)
  PROVE  d = cmd \/ InFlight(d)'
<1>1. high_priority \in Seq(HighPriorityCommand) /\ outbox \in Seq(HighPriorityCommand)
  BY DEF TypeOK, TaskTypeOK
<1>2. CASE cmd \in HighPriorityCommand
  <2>1. high_priority # <<>> /\ cmd = Head(high_priority) /\ high_priority' = Tail(high_priority)
    BY <1>2, TakenFrom
  <2> QED BY <1>1, <2>1, HeadTaken
<1>3. CASE cmd \in NormalCommand
  <2>1. high_priority' = high_priority
    BY <1>3, TakenFrom
  <2> QED BY <2>1 DEF InFlight
<1> QED BY <1>2, <1>3, TakenFrom DEF Command

\* A known order stays known; it is Pending afterwards only if it was before and
\* its ack was not taken.
LEMMA PendingKept ==
  ASSUME AckInv, TaskTypeOK, Handle, UNCHANGED taskVars, NEW p \in OrderIds, core.orders[p] # None
  PROVE  /\ core'.orders[p] # None
         /\ InState(core, p, {"Pending"})' =>
              /\ InState(core, p, {"Pending"})
              /\ \A v \in VenueOrderIds : InFlight(ReportAck(p, v)) => InFlight(ReportAck(p, v))'
<1>1. TypeOK /\ core \in State /\ AcksAreFiled(core) /\ outbox' = outbox
  BY DEF AckInv, IInv, TypeOK, CoreIsFiled, taskVars
<1>2. ASSUME NEW cmd, Take(cmd), core'.orders[p] = core.orders[p], cmd.type # "OnVenueAck" \/ cmd.order # p
      PROVE  /\ core'.orders[p] # None
             /\ InState(core, p, {"Pending"})' =>
                  /\ InState(core, p, {"Pending"})
                  /\ \A v \in VenueOrderIds : InFlight(ReportAck(p, v)) => InFlight(ReportAck(p, v))'
  <2>1. \A v : cmd # ReportAck(p, v)
    BY <1>2 DEF ReportAck
  <2>2. \A v \in VenueOrderIds : InFlight(ReportAck(p, v)) => InFlight(ReportAck(p, v))'
    BY <1>1, <1>2, <2>1, OnlyTheCommandIsTaken
  <2> QED BY <1>2, <2>2 DEF InState
<1>3. CASE HandleOperatorCommand
  BY <1>1, <1>2, <1>3, OperatorCommandFrame
<1>4. CASE \E o \in OrderIds : HandleSubmitOrder(o)
  <2>1. PICK o \in OrderIds : HandleSubmitOrder(o)
    BY <1>4
  <2>2. Take([type |-> "SubmitOrder", order |-> o])
    BY <2>1 DEF HandleSubmitOrder
  <2>3. core'.orders[p] = core.orders[p]
    <3>1. CASE AcceptAndRoute(o)
      <4>1. ExistingAcks(core, o) = {} /\ core' = WithOrder(core, o, NextClientOrderId(AgentOf[o]))
        BY <3>1 DEF AcceptAndRoute, Commit
      <4>2. p # o
        BY <1>1, <4>1, FiledMeansOwnAck
      <4> QED BY <1>1, <4>1, <4>2 DEF WithOrder, State
    <3>2. CASE ReturnCachedAck(o) \/ RejectByRisk(o) \/ RejectByRoute(o)
      BY <3>2 DEF ReturnCachedAck, RejectByRisk, RejectByRoute, NoCommit, Commit
    <3> QED BY <2>1, <3>1, <3>2 DEF HandleSubmitOrder
  <2> QED BY <1>2, <2>2, <2>3
<1>5. CASE HandleVenueEvent
  <2>1. core'.orders[p] # None
    BY <1>1, <1>5, VenueEventKeepsIds DEF SameIds
  <2>2. PICK o, cmd, r :
          /\ o \in OrderIds
          /\ Take(cmd) /\ cmd.order = o /\ core' = [core EXCEPT !.orders[o] = r]
          /\ r.state # "Pending"
    <3>1. PICK o \in OrderIds : \/ \E v \in VenueOrderIds : HandleVenueAck(o, v)
                                \/ HandleVenueSubmitFailed(o)
                                \/ HandleVenueCancelled(o)
                                \/ \E qty \in FillQtys : HandleFill(o, qty)
      BY <1>5 DEF HandleVenueEvent
    <3>2. core.orders[o] \in OrderRecord
      BY <1>1, <3>1 DEF HandleVenueAck, HandleVenueSubmitFailed, HandleVenueCancelled, HandleFill,
                        InState, FillAccepted, State
    <3>3. CASE \E v \in VenueOrderIds : HandleVenueAck(o, v)
      <4>1. PICK v \in VenueOrderIds : HandleVenueAck(o, v)
        BY <3>3
      <4> DEFINE r == [core.orders[o] EXCEPT !.state = "Submitted", !.venue_order_id = v]
      <4>2. Take(ReportAck(o, v)) /\ ReportAck(o, v).order = o /\ core' = [core EXCEPT !.orders[o] = r]
        BY <4>1 DEF HandleVenueAck, Commit, ReportAck
      <4>3. r.state # "Pending"
        BY <3>2 DEF OrderRecord
      <4> QED BY <4>2, <4>3
    <3>4. CASE HandleVenueSubmitFailed(o) \/ HandleVenueCancelled(o)
      <4>1. PICK type \in {"OnVenueSubmitFailed", "OnVenueCancelled"},
                 state \in {"Rejected", "Cancelled"} :
              Take(Report(type, o)) /\ core' = [core EXCEPT !.orders[o].state = state]
        BY <3>4 DEF HandleVenueSubmitFailed, HandleVenueCancelled, Commit, Report
      <4> DEFINE r == [core.orders[o] EXCEPT !.state = state]
      <4>2. Report(type, o).order = o /\ core' = [core EXCEPT !.orders[o] = r]
        BY <4>1 DEF Report
      <4>3. r.state # "Pending"
        BY <3>2 DEF OrderRecord
      <4> QED BY <4>1, <4>2, <4>3
    <3>5. CASE \E qty \in FillQtys : HandleFill(o, qty)
      <4>1. PICK qty \in FillQtys : HandleFill(o, qty)
        BY <3>5
      <4> DEFINE total == core.orders[o].filled + qty
                 state == IF total = Qty[o] THEN "Filled" ELSE "PartiallyFilled"
                 r     == [core.orders[o] EXCEPT !.filled = total, !.state = state]
      <4>2. Take(ReportFill(o, qty)) /\ ReportFill(o, qty).order = o /\ core' = [core EXCEPT !.orders[o] = r]
        BY <4>1 DEF HandleFill, Commit, WithFill, ReportFill
      <4>3. state # "Pending"
        OBVIOUS
      <4> HIDE DEF total, state
      <4>4. r.state # "Pending"
        BY <3>2, <4>3 DEF OrderRecord
      <4> QED BY <4>2, <4>4
    <3> QED BY <3>1, <3>3, <3>4, <3>5
  <2>3. core'.orders[o] = r /\ \A q \in OrderIds : q # o => core'.orders[q] = core.orders[q]
    BY <1>1, <2>2, VenueEventRecords
  <2>4. CASE p = o
    BY <2>1, <2>2, <2>3, <2>4 DEF InState
  <2>5. CASE p # o
    BY <1>2, <2>2, <2>3, <2>5
  <2> QED BY <2>4, <2>5
<1> QED BY <1>3, <1>4, <1>5 DEF Handle

\* What a step does to the submit channel, the task's order and the venues' orders.
LEMMA RoutedFrame ==
  ASSUME TypeOK, TaskTypeOK, [EngineNext]_allVars, ~ ProcessStarts
  PROVE  /\ restart_epoch' = restart_epoch
         /\ (order' = order /\ (phase' # "recv" => phase # "recv")) \/ Receive
         /\ venue_orders' = venue_orders \/ VenueAccepts
         /\ \/ venue_submit' \in {venue_submit, <<>>}
            \/ Receive
            \/ \E r \in OrderAck : /\ r.client_order_id.epoch = restart_epoch
                                   /\ r \in dispatched'
                                   /\ venue_submit' = Append(venue_submit, r)
<1>1. (order' = order /\ (phase' # "recv" => phase # "recv")) \/ Receive
  BY DEF EngineNext, SequencerStep, ClientSends, SequencerFails, TaskStep, VenueAccepts, VenueRejects,
         SendReport, SendFails, TakePostAckActions, PostAckFails, TaskPanics, ProcessCrashes, NewProcess,
         taskVars, allVars
<1>2. venue_orders' = venue_orders \/ VenueAccepts
  BY DEF EngineNext, SequencerStep, ClientSends, SequencerFails, TaskStep, Receive, VenueRejects,
         SendReport, SendFails, TakePostAckActions, PostAckFails, TaskPanics, ProcessCrashes, NewProcess,
         taskVars, allVars
<1>3. CASE \E o \in OrderIds : HandleSubmitOrder(o)
  <2>1. PICK o \in OrderIds : HandleSubmitOrder(o)
    BY <1>3
  <2> DEFINE cid == NextClientOrderId(AgentOf[o])
             r   == [order_id |-> o, client_order_id |-> cid]
  <2>2. restart_epoch' = restart_epoch
    BY <2>1, SubmitSpendsOneId
  <2>3. venue_submit' = venue_submit \/ (venue_submit' = Append(venue_submit, r) /\ r \in dispatched')
    BY <2>1 DEF HandleSubmitOrder, ReturnCachedAck, RejectByRisk, RejectByRoute, AcceptAndRoute
  <2>4. cid \in ClientOrderId /\ cid.epoch = restart_epoch
    BY EngineStateAssumption DEF NextClientOrderId, ClientOrderId, TypeOK
  <2> HIDE DEF cid
  <2>5. r \in OrderAck /\ r.client_order_id.epoch = restart_epoch
    BY <2>4 DEF OrderAck
  <2> QED BY <1>1, <1>2, <2>2, <2>3, <2>5
<1>4. CASE TaskStep
  BY <1>1, <1>2, <1>4 DEF TaskStep, Receive, VenueAccepts, VenueRejects, SendReport, Send, SendFails,
                          TakePostAckActions, PostAckFails, sequencerVars, engineVars, channelVars
<1>5. CASE TaskPanics \/ ProcessCrashes \/ ClientSends \/ SequencerFails
  BY <1>1, <1>2, <1>5 DEF TaskPanics, DropReceiver, ProcessCrashes, Crash, ClientSends, SendOffered,
                          Send, SequencerFails, CommandFails, PersistFails, HandlesDropped, Stop, engineVars
<1>6. CASE SequencerStep /\ ~ \E o \in OrderIds : HandleSubmitOrder(o)
  <2>1. CASE HandleVenueEvent
    BY <1>1, <1>2, <2>1 DEF HandleVenueEvent, HandleVenueAck, HandleVenueSubmitFailed,
                            HandleVenueCancelled, HandleFill, Take, Untouched
  <2>2. CASE HandleOperatorCommand
    BY <1>1, <1>2, <2>2 DEF HandleOperatorCommand, HandleReconciliation, HandleUnjournaled,
                            HandlePauseAgent, HandleResumeAgent, HandleHaltAll,
                            HandleResetCircuitBreaker, HandleWithoutCommit, HandleShutdown, Take, Untouched
  <2>3. CASE PollHighPriority \/ WaitForCommand \/ Persist \/ FinishShutdown
    BY <1>1, <1>2, <2>3 DEF PollHighPriority, WaitForCommand, Persist, PersistCommit, PersistEvents,
                            PersistSnapshot, Committed, FinishShutdown, Stop, channelVars
  <2> QED BY <1>6, <2>1, <2>2, <2>3 DEF SequencerStep, Step, Handle
<1>7. CASE UNCHANGED allVars
  BY <1>1, <1>2, <1>7 DEF allVars, vars, engineVars, channelVars
<1> QED BY <1>3, <1>4, <1>5, <1>6, <1>7 DEF EngineNext

\* Epochs only go up, and new orders are routed under the latest.
LEMMA EpochsKept ==
  ASSUME FreshEpoch, TypeOK, TaskTypeOK, EpochsPast, [EngineNext]_allVars
  PROVE  EpochsPast'
<1>1. restart_epoch \in Nat /\ venue_submit \in Seq(OrderAck)
  BY DEF TypeOK
<1>2. \A r \in OrderAck : r.client_order_id.epoch \in Nat
  BY DEF OrderAck, ClientOrderId
<1>3. /\ \A r \in venue_orders : r.client_order_id.epoch \in Nat
      /\ phase # "recv" => order.client_order_id.epoch \in Nat
  BY <1>2 DEF TaskTypeOK
<1>4. CASE ProcessStarts
  <2>1. /\ restart_epoch' = restart_epoch + 1 /\ venue_submit' = <<>>
        /\ phase' = "recv" /\ venue_orders' = venue_orders
    BY <1>4 DEF ProcessStarts, Bootstrap, NewProcess
  <2>2. \A r \in venue_orders : r.client_order_id.epoch <= restart_epoch + 1
    BY <1>1, <1>3 DEF EpochsPast
  <2>3. DOMAIN venue_submit' = {}
    BY <2>1
  <2> QED BY <2>1, <2>2, <2>3 DEF EpochsPast
<1>5. CASE ~ ProcessStarts
  <2>1. /\ restart_epoch' = restart_epoch
        /\ (order' = order /\ (phase' # "recv" => phase # "recv")) \/ Receive
        /\ venue_orders' = venue_orders \/ VenueAccepts
        /\ \/ venue_submit' \in {venue_submit, <<>>}
           \/ Receive
           \/ \E r \in OrderAck : /\ r.client_order_id.epoch = restart_epoch
                                  /\ venue_submit' = Append(venue_submit, r)
    BY <1>5, RoutedFrame
  <2>2. ASSUME Receive
        PROVE  /\ order'.client_order_id.epoch <= restart_epoch
               /\ \A k \in DOMAIN venue_submit' : venue_submit'[k].client_order_id.epoch <= restart_epoch
    <3>1. venue_submit # <<>> /\ venue_submit' = Tail(venue_submit) /\ order' = Head(venue_submit)
      BY <2>2 DEF Receive
    <3> DEFINE n == Len(venue_submit)
    <3>2. /\ n \in Nat /\ n >= 1 /\ DOMAIN venue_submit = 1 .. n /\ DOMAIN venue_submit' = 1 .. n - 1
          /\ \A i \in 1 .. n - 1 : venue_submit'[i] = venue_submit[i + 1]
          /\ order' = venue_submit[1]
      BY <1>1, <3>1, TailFacts
    <3> HIDE DEF n
    <3>3. 1 \in DOMAIN venue_submit
      BY <3>2
    <3>4. \A k \in DOMAIN venue_submit' : k + 1 \in DOMAIN venue_submit /\ venue_submit'[k] = venue_submit[k + 1]
      BY <3>2
    <3> QED BY <3>2, <3>3, <3>4 DEF EpochsPast
  <2>3. \A r \in venue_orders' : r.client_order_id.epoch <= restart_epoch
    <3>1. CASE VenueAccepts
      <4>1. venue_orders' = venue_orders \cup {order} /\ phase = "submit"
        BY <3>1 DEF VenueAccepts
      <4> QED BY <4>1 DEF EpochsPast
    <3> QED BY <2>1, <3>1 DEF EpochsPast
  <2>4. phase' # "recv" => order'.client_order_id.epoch <= restart_epoch
    BY <2>1, <2>2 DEF EpochsPast
  <2>5. \A k \in DOMAIN venue_submit' : venue_submit'[k].client_order_id.epoch <= restart_epoch
    <3>1. CASE venue_submit' = venue_submit
      BY <3>1 DEF EpochsPast
    <3>2. CASE venue_submit' = <<>>
      <4>1. DOMAIN venue_submit' = {}
        BY <3>2
      <4> QED BY <4>1
    <3>3. CASE \E r \in OrderAck : /\ r.client_order_id.epoch = restart_epoch
                                   /\ venue_submit' = Append(venue_submit, r)
      <4>1. PICK r \in OrderAck : /\ r.client_order_id.epoch = restart_epoch
                                  /\ venue_submit' = Append(venue_submit, r)
        BY <3>3
      <4> DEFINE n == Len(venue_submit)
      <4>2. /\ DOMAIN venue_submit = 1 .. n /\ n \in Nat
            /\ DOMAIN venue_submit' = 1 .. n + 1
            /\ \A i \in 1 .. n : venue_submit'[i] = venue_submit[i]
            /\ venue_submit'[n + 1] = r
        BY <1>1, <4>1, AppendFacts
      <4> HIDE DEF n
      <4>3. \A k \in DOMAIN venue_submit' :
              (k \in DOMAIN venue_submit /\ venue_submit'[k] = venue_submit[k]) \/ venue_submit'[k] = r
        BY <4>2
      <4>4. r.client_order_id.epoch <= restart_epoch
        BY <1>1, <4>1
      <4> QED BY <4>3, <4>4 DEF EpochsPast
    <3> QED BY <2>1, <2>2, <3>1, <3>2, <3>3
  <2> QED BY <2>1, <2>3, <2>4, <2>5 DEF EpochsPast
<1> QED BY <1>4, <1>5

\* A step in which nothing on its way is lost and no record changes.
LEMMA AcceptedFrame ==
  ASSUME AcceptedAreKnown, mode' # "stopped" => mode # "stopped",
         venue_submit_tx' = "open" => venue_submit_tx = "open",
         UNCHANGED <<restart_epoch, venue_orders>>, core'.orders = core.orders,
         \A d : InFlight(d) => InFlight(d)'
  PROVE  AcceptedAreKnown'
BY DEF AcceptedAreKnown, InState

\* Every step keeps the venues' orders known, and acked or about to be.
LEMMA AcceptedKept ==
  ASSUME FreshEpoch, AcceptInv, [EngineNext]_allVars
  PROVE  AcceptedAreKnown'
<1>1. /\ EngineInv /\ AckInv /\ TypeOK /\ TaskTypeOK /\ PipelineInv /\ core \in State
      /\ EpochsPast /\ AcceptedAreKnown
      /\ high_priority \in Seq(HighPriorityCommand) /\ outbox \in Seq(HighPriorityCommand)
      /\ restart_epoch \in Nat
  BY DEF AcceptInv, EngineInv, AckInv, IInv, TypeOK, TaskTypeOK
<1>2. \A r \in venue_orders : r.order_id \in OrderIds /\ r.client_order_id.epoch \in Nat
  BY <1>1 DEF TaskTypeOK, OrderAck, ClientOrderId
<1>3. CASE mode' = "stopped" \/ venue_submit_tx' # "open"
  BY <1>3 DEF AcceptedAreKnown
<1>4. CASE ProcessStarts
  <2>1. restart_epoch' = restart_epoch + 1 /\ venue_orders' = venue_orders
    BY <1>4 DEF ProcessStarts, Bootstrap, NewProcess
  <2>2. \A r \in venue_orders : r.client_order_id.epoch # restart_epoch + 1
    BY <1>1, <1>2 DEF EpochsPast
  <2> QED BY <2>1, <2>2 DEF AcceptedAreKnown
<1>5. CASE UNCHANGED allVars
  <2>1. \A d : InFlight(d) => InFlight(d)'
    BY <1>5 DEF InFlight, allVars, vars, channelVars, taskVars
  <2> QED BY <1>1, <1>5, <2>1, AcceptedFrame DEF allVars, vars, engineVars, channelVars, taskVars
<1>6. CASE ClientSends
  <2>1. PICK cmd \in Offered : Send(cmd)
    BY <1>6 DEF ClientSends, SendOffered
  <2>2. UNCHANGED <<outbox, venue_orders, restart_epoch, core, mode, venue_submit_tx>>
    BY <1>6, <2>1 DEF ClientSends, Send, engineVars, taskVars
  <2>3. \A d : InFlight(d) => InFlight(d)'
    <3>1. CASE cmd \in HighPriorityCommand
      BY <1>1, <2>1, <2>2, <3>1, CommandQueued DEF Send
    <3>2. CASE cmd \notin HighPriorityCommand
      BY <2>1, <2>2, <3>2 DEF Send, InFlight
    <3> QED BY <3>1, <3>2
  <2> QED BY <1>1, <2>2, <2>3, AcceptedFrame
<1>7. CASE SequencerFails \/ ProcessCrashes \/ TaskPanics
  BY <1>3, <1>7 DEF SequencerFails, CommandFails, PersistFails, HandlesDropped, Stop, ProcessCrashes,
                    Crash, TaskPanics, DropReceiver
<1>8. CASE SequencerStep
  <2>1. UNCHANGED taskVars /\ UNCHANGED <<outbox, venue_orders>>
    BY <1>8 DEF SequencerStep, taskVars
  <2>2. CASE Handle
    <3>1. /\ UNCHANGED <<restart_epoch, venue_submit_tx>> /\ mode # "stopped"
      BY <1>1, <2>2, HandleStep DEF HandlerStep, Idle
    <3> SUFFICES ASSUME NEW r \in venue_orders, venue_submit_tx = "open",
                        r.client_order_id.epoch = restart_epoch
                 PROVE  /\ core'.orders[r.order_id] # None
                        /\ InState(core, r.order_id, {"Pending"})' =>
                             \E v \in VenueOrderIds : InFlight(ReportAck(r.order_id, v))'
      BY <2>1, <3>1 DEF AcceptedAreKnown, InState, ReportAck
    <3> DEFINE p == r.order_id
    <3>2. /\ p \in OrderIds /\ core.orders[p] # None
          /\ InState(core, p, {"Pending"}) => \E v \in VenueOrderIds : InFlight(ReportAck(p, v))
      BY <1>1, <1>2, <3>1 DEF AcceptedAreKnown
    <3> HIDE DEF p
    <3>3. /\ core'.orders[p] # None
          /\ InState(core, p, {"Pending"})' =>
               \E v \in VenueOrderIds : InFlight(ReportAck(p, v))'
      BY <1>1, <2>1, <2>2, <3>2, PendingKept
    <3> QED BY <3>3 DEF p
  <2>3. CASE PollHighPriority \/ WaitForCommand
    <3>1. UNCHANGED <<high_priority, core, mode, restart_epoch, venue_submit_tx>>
      BY <2>3 DEF PollHighPriority, WaitForCommand, channelVars
    <3>2. \A d : InFlight(d) => InFlight(d)'
      BY <2>1, <3>1 DEF InFlight
    <3> QED BY <1>1, <2>1, <3>1, <3>2, AcceptedFrame
  <2>4. CASE Persist
    <3>1. /\ UNCHANGED <<high_priority, mode, restart_epoch, venue_submit_tx>>
          /\ core' = core \/ core' = [core EXCEPT !.last_sequence_id = commit.snapshot.sequence_id]
      BY <2>4 DEF Persist, PersistCommit, PersistSnapshot, PersistEvents, Committed, channelVars
    <3>2. core'.orders = core.orders
      BY <1>1, <3>1 DEF State
    <3>3. \A d : InFlight(d) => InFlight(d)'
      BY <2>1, <3>1 DEF InFlight
    <3> QED BY <1>1, <2>1, <3>1, <3>2, <3>3, AcceptedFrame
  <2>5. CASE FinishShutdown
    BY <1>3, <2>5 DEF FinishShutdown, Stop
  <2> QED BY <1>8, <2>2, <2>3, <2>4, <2>5 DEF SequencerStep, Step
<1>9. CASE TaskStep
  <2>1. UNCHANGED <<mode, core, restart_epoch, venue_submit_tx>>
    BY <1>9 DEF TaskStep, Receive, VenueAccepts, VenueRejects, SendReport, Send, SendFails,
                TakePostAckActions, PostAckFails, sequencerVars, engineVars, channelVars
  <2> SUFFICES ASSUME mode # "stopped" PROVE AcceptedAreKnown'
    BY <1>3, <2>1
  <2>2. CASE SendReport
    <3>1. /\ outbox # <<>> /\ outbox' = Tail(outbox) /\ venue_orders' = venue_orders
          /\ high_priority' = Append(high_priority, Head(outbox))
      BY <1>1, <2>2, TailFacts DEF SendReport, Send
    <3>2. \A d : InFlight(d) => InFlight(d)'
      BY <1>1, <3>1, ReportMoves
    <3> QED BY <1>1, <2>1, <3>1, <3>2, AcceptedFrame
  <2>3. CASE ~ SendReport
    <3>1. outbox = <<>> /\ high_priority' = high_priority
      BY <1>1, <1>9, <2>3 DEF TaskStep, Receive, VenueAccepts, VenueRejects, SendFails,
                              TakePostAckActions, PostAckFails, PipelineInv, TaskInv, SubmittedIsFresh,
                              channelVars
    <3>2. \A d : InFlight(d) => InFlight(d)'
      BY <3>1 DEF InFlight
    <3>3. CASE venue_orders' = venue_orders
      BY <1>1, <2>1, <3>2, <3>3, AcceptedFrame
    <3>4. CASE VenueAccepts
      <4>1. PICK p \in OrderIds, v \in VenueOrderIds : p = order.order_id /\ outbox' = <<ReportAck(p, v)>>
        BY <1>1, <3>4 DEF VenueAccepts, TaskTypeOK, OrderAck
      <4>2. InFlight(ReportAck(p, v))'
        <5>1. 1 \in DOMAIN outbox' /\ outbox'[1] = ReportAck(p, v)
          BY <4>1
        <5> QED BY <5>1 DEF InFlight, ReportAck
      <4>3. core.orders[order.order_id] # None
        BY <1>1, <3>4 DEF VenueAccepts, PipelineInv, TaskInv, SubmittedIsFresh, Fresh, Unfilled, InState
      <4>4. venue_orders' = venue_orders \cup {order}
        BY <3>4 DEF VenueAccepts
      <4> SUFFICES ASSUME NEW r \in venue_orders \cup {order}, venue_submit_tx = "open",
                          r.client_order_id.epoch = restart_epoch
                   PROVE  /\ core.orders[r.order_id] # None
                          /\ InState(core, r.order_id, {"Pending"}) =>
                               \E u \in VenueOrderIds : InFlight(ReportAck(r.order_id, u))'
        BY <2>1, <4>4 DEF AcceptedAreKnown, ReportAck, InState
      <4>5. CASE r = order
        BY <4>1, <4>2, <4>3, <4>5
      <4>6. CASE r \in venue_orders
        BY <1>1, <3>2, <4>6 DEF AcceptedAreKnown
      <4> QED BY <4>5, <4>6
    <3> QED BY <1>1, <1>9, <3>3, <3>4, RoutedFrame DEF EngineNext, ProcessStarts, Bootstrap
  <2> QED BY <2>2, <2>3
<1> QED BY <1>4, <1>5, <1>6, <1>7, <1>8, <1>9 DEF EngineNext

\* As long as both tasks live, the engine does not lose sight of an order a venue
\* accepted in this process: while its record is Pending, the ack is on its way.
\* It needs every start to bring a new epoch: two processes with one epoch could
\* both have had the order.
THEOREM AcceptedOrdersAreReported ==
  ASSUME FreshEpoch
  PROVE  EngineSafety => []AcceptedOrderIsReported
<1>1. EngineInit => AcceptInv
  <2> SUFFICES ASSUME EngineInit PROVE AcceptInv
    OBVIOUS
  <2>1. EngineInv
    BY EngineInitInvariant
  <2>2. venue_orders = {} /\ phase = "recv" /\ venue_submit = <<>>
    BY DEF EngineInit, TaskInit, Init
  <2>3. DOMAIN venue_submit = {}
    BY <2>2
  <2> QED BY <2>1, <2>2, <2>3 DEF AcceptInv, EpochsPast, AcceptedAreKnown
<1>2. AcceptInv /\ [EngineNext]_allVars => AcceptInv'
  <2> SUFFICES ASSUME AcceptInv, [EngineNext]_allVars PROVE AcceptInv'
    OBVIOUS
  <2>1. EngineInv /\ TypeOK /\ TaskTypeOK /\ EpochsPast
    BY DEF AcceptInv, EngineInv, AckInv, IInv
  <2> QED BY <2>1, EngineNextInvariant, EpochsKept, AcceptedKept DEF AcceptInv
<1>3. AcceptInv => AcceptedOrderIsReported
  BY DEF AcceptInv, AcceptedAreKnown, AcceptedOrderIsReported
<1> QED BY <1>1, <1>2, <1>3, PTL DEF EngineSafety

-----------------------------------------------------------------------------
(* The persisted orders implement LiveOrder *)

\* The LiveOrder an order record stands for.
Image(o, r) ==
  IF r = None THEN None
  ELSE [venue_state |-> VenueStateOf[r.state],
        summary |-> IF r.state \in {"PartiallyFilled", "Filled", "Cancelled"}
                    THEN [filled_qty |-> r.filled, remaining_qty |-> Qty[o] - r.filled]
                    ELSE None,
        venue_order_id |-> r.venue_order_id,
        filled_qty |-> r.filled,
        remaining_qty |-> Qty[o] - r.filled]

\* What one command may do to the record of an order.
RecordMoves(o, r, s) ==
  \/ /\ r = None
     /\ s.state = "Pending" /\ s.venue_order_id = None /\ s.filled = 0
  \/ /\ r # None
     /\ \/ /\ r.state = "Pending" /\ s.state = "Submitted"
           /\ s.venue_order_id \in VenueOrderIds /\ s.filled = r.filled
        \/ /\ r.state = "Pending" /\ s.state = "Rejected"
           /\ s.venue_order_id = r.venue_order_id /\ s.filled = r.filled
        \/ /\ r.state \in {"Submitted", "PartiallyFilled"} /\ s.state = "Cancelled"
           /\ s.venue_order_id = r.venue_order_id /\ s.filled = r.filled
        \/ /\ r.state \in {"Submitted", "PartiallyFilled"}
           /\ s.venue_order_id = r.venue_order_id
           /\ s.filled > r.filled /\ s.filled <= Qty[o]
           /\ s.state = IF s.filled = Qty[o] THEN "Filled" ELSE "PartiallyFilled"

\* At most one order moved.
OneMoved(st, new) ==
  \/ new.orders = st.orders
  \/ \E o \in OrderIds : /\ new.orders[o] # None
                         /\ RecordMoves(o, st.orders[o], new.orders[o])
                         /\ \A p \in OrderIds : p # o => new.orders[p] = st.orders[p]

NoneOverfilled(st) == \A o \in OrderIds : st.orders[o] # None => st.orders[o].filled <= Qty[o]

\* The commit in progress moves at most one order on from the durable state.
CommitMoves == commit # None => OneMoved(Recovered.state, core)

DurableNotOverfilled == NoneOverfilled(Recovered.state)

LifecycleInv == EngineInv /\ CommitMoves /\ DurableNotOverfilled

\* The mapping takes each durable record by itself.
LEMMA ImageOfDurable ==
  \A o \in OrderIds : LiveOrderOf(o) = Image(o, Recovered.state.orders[o])
BY DEF LiveOrderOf, Image, Durable

\* A record that is not overfilled stands for a LiveOrder.
LEMMA ImageType ==
  ASSUME NEW o \in OrderIds, NEW r \in OrderRecord, r.filled <= Qty[o]
  PROVE  /\ Image(o, r) \in Lifecycle!Order /\ Image(o, r) # None
         /\ Image(o, r).venue_state = VenueStateOf[r.state]
         /\ Image(o, r).venue_order_id = r.venue_order_id
         /\ Image(o, r).filled_qty = r.filled
         /\ Image(o, r).remaining_qty = Qty[o] - r.filled
<1>1. r # None
  BY SequencerAssumption
<1>2. r.filled \in Nat /\ Qty[o] \in Nat /\ Qty[o] - r.filled \in Nat /\ r.state \in OrderState
  BY EngineStateAssumption DEF OrderRecord
<1>3. VenueStateOf[r.state] \in Lifecycle!VenueState
  BY <1>2 DEF VenueStateOf, OrderState, Lifecycle!VenueState
<1>4. Image(o, r) \in Lifecycle!Order
  BY <1>1, <1>2, <1>3 DEF Image, Lifecycle!Order, Lifecycle!FillSummary, OrderRecord
<1> QED BY <1>1, <1>4, LifecycleAssumption DEF Image

\* A move never overfills the record.
LEMMA MoveNotOverfilled ==
  ASSUME NEW o \in OrderIds, NEW r \in OrderRecord \cup {None}, NEW s \in OrderRecord,
         r # None => r.filled <= Qty[o], RecordMoves(o, r, s)
  PROVE  s.filled <= Qty[o]
BY EngineStateAssumption DEF RecordMoves, OrderRecord

\* Fields of a LiveOrder replaced one after the other.
LEMMA FieldReplaced ==
  ASSUME NEW x, NEW state, NEW summary, NEW id, NEW filled, NEW remaining,
         x = [venue_state |-> state, summary |-> summary, venue_order_id |-> id,
              filled_qty |-> filled, remaining_qty |-> remaining]
  PROVE  /\ \A new : [x EXCEPT !.venue_state = new]
                       = [venue_state |-> new, summary |-> summary, venue_order_id |-> id,
                          filled_qty |-> filled, remaining_qty |-> remaining]
         /\ \A new : [x EXCEPT !.venue_order_id = new]
                       = [venue_state |-> state, summary |-> summary, venue_order_id |-> new,
                          filled_qty |-> filled, remaining_qty |-> remaining]
         /\ \A new : [x EXCEPT !.summary = new]
                       = [venue_state |-> state, summary |-> new, venue_order_id |-> id,
                          filled_qty |-> filled, remaining_qty |-> remaining]
OBVIOUS

\* A move of one durable record is a step of its LiveOrder.
LEMMA LifecycleStep ==
  ASSUME NEW o \in OrderIds, NEW r \in OrderRecord \cup {None}, NEW s \in OrderRecord,
         r # None => r.filled <= Qty[o], RecordMoves(o, r, s),
         Recovered.state.orders[o] = r, Recovered'.state.orders[o] = s,
         \A p \in OrderIds : p # o => Recovered'.state.orders[p] = Recovered.state.orders[p]
  PROVE  Lifecycle!Next
<1> DEFINE L == [p \in OrderIds |-> LiveOrderOf(p)]
<1>1. L[o] = Image(o, r)
  BY ImageOfDurable
<1>2. L' = [L EXCEPT ![o] = Image(o, s)]
  <2>1. ASSUME NEW p \in OrderIds
        PROVE  LiveOrderOf(p)' = IF p = o THEN Image(o, s) ELSE LiveOrderOf(p)
    <3>1. LiveOrderOf(p)' = Image(p, Recovered'.state.orders[p])
      BY DEF LiveOrderOf, Image, Durable
    <3>2. LiveOrderOf(p) = Image(p, Recovered.state.orders[p])
      BY ImageOfDurable
    <3> QED BY <3>1, <3>2
  <2> QED BY <2>1
<1>3. L \in [OrderIds -> {L[p] : p \in OrderIds}]
  OBVIOUS
<1>4. /\ s.filled \in Nat /\ Qty[o] \in Nat /\ s.filled <= Qty[o]
      /\ r # None => /\ r \in OrderRecord /\ r.filled \in Nat
                     /\ Image(o, r) # None
                     /\ Image(o, r).venue_state = VenueStateOf[r.state]
  <2>1. s.filled \in Nat /\ Qty[o] \in Nat /\ s.filled <= Qty[o]
    BY MoveNotOverfilled, EngineStateAssumption DEF OrderRecord
  <2> QED BY <2>1, ImageType DEF OrderRecord
<1>5. s # None
  BY SequencerAssumption
<1>6. CASE r = None
  <2>1. Image(o, s) = [venue_state |-> "Submitted", summary |-> None, venue_order_id |-> None,
                       filled_qty |-> 0, remaining_qty |-> Qty[o]]
    BY <1>4, <1>5, <1>6 DEF RecordMoves, Image, VenueStateOf
  <2>2. L[o] = None
    BY <1>1, <1>6 DEF Image
  <2>3. Lifecycle!FromRouted(o)
    BY <1>2, <2>1, <2>2 DEF Lifecycle!FromRouted, Lifecycle!Submitted
  <2> QED BY <2>3 DEF Lifecycle!Next
<1>7. CASE r # None
  <2>1. L[o] # None /\ L[o].venue_state = VenueStateOf[r.state]
    BY <1>1, <1>4, <1>7
  <2>x. PICK summary : L[o] = [venue_state |-> VenueStateOf[r.state], summary |-> summary,
                               venue_order_id |-> r.venue_order_id, filled_qty |-> r.filled,
                               remaining_qty |-> Qty[o] - r.filled]
                       /\ (r.state = "Pending" => summary = None)
    BY <1>1, <1>7 DEF Image
  <2>2. CASE /\ r.state = "Pending" /\ s.state = "Submitted"
             /\ s.venue_order_id \in VenueOrderIds /\ s.filled = r.filled
    <3>1. Image(o, s) = [[L[o] EXCEPT !.venue_state = "Accepted"] EXCEPT !.venue_order_id = s.venue_order_id]
      <4>1. Image(o, s) = [venue_state |-> "Accepted", summary |-> summary,
                           venue_order_id |-> s.venue_order_id, filled_qty |-> r.filled,
                           remaining_qty |-> Qty[o] - r.filled]
        BY <1>5, <2>2, <2>x DEF Image, VenueStateOf
      <4> DEFINE x == L[o]
                 y == [x EXCEPT !.venue_state = "Accepted"]
      <4>2. x = [venue_state |-> VenueStateOf[r.state], summary |-> summary,
                 venue_order_id |-> r.venue_order_id, filled_qty |-> r.filled,
                 remaining_qty |-> Qty[o] - r.filled]
        BY <2>x
      <4> HIDE DEF L, x
      <4>3. y = [venue_state |-> "Accepted", summary |-> summary,
                 venue_order_id |-> r.venue_order_id, filled_qty |-> r.filled,
                 remaining_qty |-> Qty[o] - r.filled]
        BY <4>2, FieldReplaced
      <4> HIDE DEF y
      <4>4. [y EXCEPT !.venue_order_id = s.venue_order_id] = Image(o, s)
        BY <4>1, <4>3, FieldReplaced
      <4> QED BY <4>4 DEF x, y
    <3>2. Lifecycle!Transition(o, "Accepted")
      BY <2>1, <2>2 DEF Lifecycle!Transition, Lifecycle!Submitted, Lifecycle!MayBecome, VenueStateOf
    <3>3. L' = [L EXCEPT ![o].venue_state = "Accepted", ![o].venue_order_id = s.venue_order_id]
      BY <1>2, <1>3, <3>1
    <3>4. Lifecycle!OnAccepted(o, s.venue_order_id)
      BY <3>2, <3>3 DEF Lifecycle!OnAccepted
    <3> QED BY <2>2, <3>4 DEF Lifecycle!Next
  <2>3. CASE /\ r.state = "Pending" /\ s.state = "Rejected"
             /\ s.venue_order_id = r.venue_order_id /\ s.filled = r.filled
    <3>1. Image(o, s) = [L[o] EXCEPT !.venue_state = "VenueRejected"]
      BY <1>1, <1>5, <1>7, <2>3 DEF Image, VenueStateOf
    <3>2. Lifecycle!Transition(o, "VenueRejected")
      BY <2>1, <2>3 DEF Lifecycle!Transition, Lifecycle!Submitted, Lifecycle!MayBecome, VenueStateOf
    <3>3. Lifecycle!OnReject(o)
      BY <1>2, <3>1, <3>2 DEF Lifecycle!OnReject
    <3> QED BY <3>3 DEF Lifecycle!Next
  <2>4. CASE /\ r.state \in {"Submitted", "PartiallyFilled"} /\ s.state = "Cancelled"
             /\ s.venue_order_id = r.venue_order_id /\ s.filled = r.filled
    <3>1. Image(o, s) = [[L[o] EXCEPT !.venue_state = "Cancelled"] EXCEPT
                           !.summary = [filled_qty |-> L[o].filled_qty,
                                        remaining_qty |-> L[o].remaining_qty]]
      <4>1. Image(o, s) = [venue_state |-> "Cancelled",
                           summary |-> [filled_qty |-> r.filled, remaining_qty |-> Qty[o] - r.filled],
                           venue_order_id |-> r.venue_order_id, filled_qty |-> r.filled,
                           remaining_qty |-> Qty[o] - r.filled]
        BY <1>5, <2>4 DEF Image, VenueStateOf
      <4> DEFINE x == L[o]
                 y == [x EXCEPT !.venue_state = "Cancelled"]
      <4>2. /\ x = [venue_state |-> VenueStateOf[r.state], summary |-> summary,
                    venue_order_id |-> r.venue_order_id, filled_qty |-> r.filled,
                    remaining_qty |-> Qty[o] - r.filled]
            /\ x.filled_qty = r.filled /\ x.remaining_qty = Qty[o] - r.filled
        BY <2>x
      <4> HIDE DEF L, x
      <4>3. y = [venue_state |-> "Cancelled", summary |-> summary,
                 venue_order_id |-> r.venue_order_id, filled_qty |-> r.filled,
                 remaining_qty |-> Qty[o] - r.filled]
        BY <4>2, FieldReplaced
      <4> HIDE DEF y
      <4>4. [y EXCEPT !.summary = [filled_qty |-> x.filled_qty, remaining_qty |-> x.remaining_qty]]
              = Image(o, s)
        BY <4>1, <4>2, <4>3, FieldReplaced
      <4> QED BY <4>4 DEF x, y
    <3>2. Lifecycle!Transition(o, "Cancelled")
      BY <2>1, <2>4 DEF Lifecycle!Transition, Lifecycle!Submitted, Lifecycle!MayBecome, VenueStateOf
    <3>3. L' = [L EXCEPT ![o].venue_state = "Cancelled",
                         ![o].summary = [filled_qty |-> L[o].filled_qty,
                                         remaining_qty |-> L[o].remaining_qty]]
      BY <1>2, <1>3, <3>1
    <3>4. Lifecycle!OnCancel(o)
      BY <3>2, <3>3 DEF Lifecycle!OnCancel, Lifecycle!Close
    <3> QED BY <3>4 DEF Lifecycle!Next
  <2>5. CASE /\ r.state \in {"Submitted", "PartiallyFilled"}
             /\ s.venue_order_id = r.venue_order_id
             /\ s.filled > r.filled /\ s.filled <= Qty[o]
             /\ s.state = IF s.filled = Qty[o] THEN "Filled" ELSE "PartiallyFilled"
    <3> DEFINE qty == s.filled - r.filled
    <3>1. /\ qty \in 1 .. Qty[o] /\ qty > 0 /\ qty <= Qty[o] - r.filled
          /\ r.filled + qty = s.filled /\ (Qty[o] - r.filled) - qty = Qty[o] - s.filled
          /\ (Qty[o] - s.filled = 0) <=> (s.filled = Qty[o])
      BY <1>4, <1>7, <2>5
    <3> HIDE DEF qty
    <3>2. /\ L[o].filled_qty = r.filled /\ L[o].remaining_qty = Qty[o] - r.filled
          /\ L[o].venue_order_id = r.venue_order_id
      BY <1>1, <1>7 DEF Image
    <3>3. VenueStateOf[s.state] = IF Qty[o] - s.filled = 0 THEN "Filled" ELSE "PartiallyFilled"
      BY <2>5, <3>1 DEF VenueStateOf
    <3>4. Lifecycle!FilledBy(L[o], qty) =
            [venue_state |-> VenueStateOf[s.state],
             summary |-> [filled_qty |-> s.filled, remaining_qty |-> Qty[o] - s.filled],
             venue_order_id |-> r.venue_order_id,
             filled_qty |-> s.filled,
             remaining_qty |-> Qty[o] - s.filled]
      BY <3>1, <3>2, <3>3 DEF Lifecycle!FilledBy
    <3>5. Image(o, s) = Lifecycle!FilledBy(L[o], qty)
      BY <1>5, <2>5, <3>4 DEF Image
    <3>6. Lifecycle!Transition(o, Lifecycle!FilledBy(L[o], qty).venue_state)
      <4>1. Lifecycle!FilledBy(L[o], qty).venue_state \in {"Filled", "PartiallyFilled"}
        BY <3>3, <3>4
      <4>2. L[o].venue_state \in {"Accepted", "PartiallyFilled"}
        BY <2>1, <2>5 DEF VenueStateOf
      <4> QED BY <2>1, <4>1, <4>2 DEF Lifecycle!Transition, Lifecycle!Submitted, Lifecycle!MayBecome
    <3>7. L' = [L EXCEPT ![o] = Lifecycle!FilledBy(L[o], qty)]
      BY <1>2, <3>5
    <3>8. Lifecycle!OnFill(o, qty)
      BY <2>1, <3>1, <3>2, <3>6, <3>7 DEF Lifecycle!OnFill, Lifecycle!Submitted
    <3> QED BY <3>1, <3>8 DEF Lifecycle!Next
  <2> QED BY <1>7, <2>2, <2>3, <2>4, <2>5 DEF RecordMoves
<1> QED BY <1>6, <1>7

\* What a handler commits moves at most one record on, and only as a LiveOrder
\* may move.
LEMMA HandlerMoves ==
  ASSUME EngineInv, Handle
  PROVE  OneMoved(core, core')
<1>1. /\ AckInv /\ TypeOK /\ TaskTypeOK /\ PipelineInv /\ core \in State /\ AcksAreFiled(core)
      /\ high_priority \in Seq(HighPriorityCommand) /\ outbox \in Seq(HighPriorityCommand)
  BY DEF EngineInv, AckInv, IInv, TypeOK, TaskTypeOK, CoreIsFiled
<1>2. ASSUME NEW o \in OrderIds, NEW r \in OrderRecord, core' = [core EXCEPT !.orders[o] = r],
             RecordMoves(o, core.orders[o], r)
      PROVE  OneMoved(core, core')
  <2>1. core'.orders[o] = r /\ \A p \in OrderIds : p # o => core'.orders[p] = core.orders[p]
    BY <1>1, <1>2, VenueEventRecords
  <2>2. r # None
    BY SequencerAssumption
  <2> QED BY <1>2, <2>1, <2>2 DEF OneMoved
<1>3. ASSUME NEW cmd \in HighPriorityCommand, Take(cmd)
      PROVE  Fits(cmd)
  BY <1>1, <1>3, TakenFrom, HeadFits
<1>4. ASSUME NEW o \in OrderIds, HandleSubmitOrder(o)
      PROVE  OneMoved(core, core')
  <2>1. CASE AcceptAndRoute(o)
    <3> DEFINE cid == NextClientOrderId(AgentOf[o])
    <3>1. ExistingAcks(core, o) = {} /\ core' = WithOrder(core, o, cid)
      BY <2>1 DEF AcceptAndRoute, Commit
    <3>2. core.orders[o] = None
      BY <1>1, <3>1, FiledMeansOwnAck
    <3>5. cid \in ClientOrderId
      BY <1>1, EngineStateAssumption DEF NextClientOrderId, ClientOrderId, TypeOK
    <3> HIDE DEF cid
    <3>3. /\ core'.orders[o] = [state |-> "Pending", client_order_id |-> cid,
                                venue_order_id |-> None, filled |-> 0]
          /\ \A p \in OrderIds : p # o => core'.orders[p] = core.orders[p]
      BY <1>1, <3>1 DEF WithOrder, State
    <3>4. RecordMoves(o, core.orders[o], core'.orders[o])
      BY <3>2, <3>3 DEF RecordMoves
    <3>6. core'.orders[o] \in OrderRecord
      BY <3>3, <3>5 DEF OrderRecord, OrderState
    <3> QED BY <3>3, <3>4, <3>6, SequencerAssumption DEF OneMoved
  <2>2. CASE ReturnCachedAck(o) \/ RejectByRisk(o) \/ RejectByRoute(o)
    <3>1. core' = core
      BY <2>2 DEF ReturnCachedAck, RejectByRisk, RejectByRoute, NoCommit, Commit
    <3> QED BY <3>1 DEF OneMoved
  <2> QED BY <1>4, <2>1, <2>2 DEF HandleSubmitOrder
<1>5. ASSUME NEW o \in OrderIds, NEW v \in VenueOrderIds, HandleVenueAck(o, v)
      PROVE  OneMoved(core, core')
  <2> DEFINE r == [core.orders[o] EXCEPT !.state = "Submitted", !.venue_order_id = v]
  <2>1. core' = [core EXCEPT !.orders[o] = r] /\ InState(core, o, {"Pending"})
    BY <1>5 DEF HandleVenueAck, Commit
  <2>2. core.orders[o] \in OrderRecord
    BY <1>1, <2>1 DEF InState, State
  <2>3. /\ r \in OrderRecord
        /\ r.state = "Submitted" /\ r.venue_order_id = v /\ r.filled = core.orders[o].filled
    BY <2>2 DEF OrderRecord, OrderState
  <2> HIDE DEF r
  <2>4. RecordMoves(o, core.orders[o], r)
    BY <2>1, <2>3 DEF InState, RecordMoves
  <2> QED BY <1>2, <2>1, <2>3, <2>4
<1>6. ASSUME NEW o \in OrderIds, HandleVenueSubmitFailed(o) \/ HandleVenueCancelled(o)
      PROVE  OneMoved(core, core')
  <2>1. PICK state \in {"Rejected", "Cancelled"} :
          /\ core' = [core EXCEPT !.orders[o] = [@ EXCEPT !.state = state]]
          /\ \/ state = "Rejected" /\ InState(core, o, {"Pending"})
             \/ state = "Cancelled" /\ InState(core, o, {"Submitted", "PartiallyFilled"})
    BY <1>6 DEF HandleVenueSubmitFailed, HandleVenueCancelled, Commit
  <2> DEFINE r == [core.orders[o] EXCEPT !.state = state]
  <2>2. core' = [core EXCEPT !.orders[o] = r]
    BY <2>1
  <2>3. core.orders[o] \in OrderRecord
    BY <1>1, <2>1 DEF InState, State
  <2>4. /\ r \in OrderRecord
        /\ r.state = state /\ r.venue_order_id = core.orders[o].venue_order_id
        /\ r.filled = core.orders[o].filled
    BY <2>3 DEF OrderRecord, OrderState
  <2> HIDE DEF r
  <2>5. RecordMoves(o, core.orders[o], r)
    BY <2>1, <2>4 DEF InState, RecordMoves
  <2> QED BY <1>2, <2>2, <2>4, <2>5
<1>7. ASSUME NEW o \in OrderIds, NEW qty \in FillQtys, HandleFill(o, qty)
      PROVE  OneMoved(core, core')
  <2> DEFINE cmd   == ReportFill(o, qty)
             total == core.orders[o].filled + qty
             state == IF total = Qty[o] THEN "Filled" ELSE "PartiallyFilled"
             r     == [core.orders[o] EXCEPT !.filled = total, !.state = state]
  <2>1. /\ Take(cmd) /\ core' = [core EXCEPT !.orders[o] = r]
        /\ qty > 0 /\ total <= Qty[o]
    BY <1>7 DEF HandleFill, Commit, WithFill, ReportFill, FillAccepted
  <2>2. cmd \in HighPriorityCommand /\ cmd.type = "OnFill" /\ cmd.order = o
    BY ReportTypes
  <2> HIDE DEF cmd
  <2>3. Unfilled(o, "Submitted")
    BY <1>3, <2>1, <2>2 DEF Fits
  <2>4. core.orders[o] \in OrderRecord
    BY <1>1, <2>3 DEF Unfilled, InState, State
  <2>5. /\ qty \in Nat /\ core.orders[o].filled \in Nat
        /\ total > core.orders[o].filled /\ total \in Nat
    BY <2>1, <2>4, EngineStateAssumption DEF OrderRecord
  <2>6. /\ state = IF total = Qty[o] THEN "Filled" ELSE "PartiallyFilled"
        /\ state \in OrderState
    BY DEF OrderState
  <2> HIDE DEF total, state
  <2>7. /\ r \in OrderRecord
        /\ r.filled = total /\ r.state = state /\ r.venue_order_id = core.orders[o].venue_order_id
    BY <2>4, <2>5, <2>6 DEF OrderRecord
  <2> HIDE DEF r
  <2>8. RecordMoves(o, core.orders[o], r)
    BY <2>1, <2>3, <2>5, <2>6, <2>7 DEF Unfilled, InState, RecordMoves
  <2> QED BY <1>2, <2>1, <2>7, <2>8
<1>8. ASSUME HandleOperatorCommand
      PROVE  OneMoved(core, core')
  BY <1>1, <1>8, OperatorCommandFrame DEF OneMoved
<1> QED BY <1>4, <1>5, <1>6, <1>7, <1>8 DEF Handle, HandleVenueEvent

\* What a step of the engine does to the durable orders and to the commit.
LEMMA LifecycleKinds ==
  ASSUME EngineInv, [EngineNext]_allVars
  PROVE  \/ Recovered' = Recovered /\ commit' = None
         \/ Recovered' = Recovered /\ commit # None /\ core' = core
         \/ Recovered' = Recovered /\ core = Recovered.state /\ OneMoved(core, core')
         \/ commit # None /\ commit' = None /\ Recovered'.state.orders = core.orders
<1>1. IInv /\ TypeOK /\ TaskTypeOK /\ core \in State
  BY DEF EngineInv, AckInv, IInv, TypeOK
<1>2. ASSUME snapshots' = snapshots, commit' = commit, core' = core
      PROVE  Recovered' = Recovered /\ (commit' = None \/ (commit # None /\ core' = core))
  BY <1>2, RecoveredUnchanged
<1>3. CASE SendReport
  <2>1. snapshots' = snapshots /\ commit' = commit /\ core' = core
    BY <1>1, <1>3, SendReportFrame DEF engineVars, journalVars
  <2> QED BY <1>2, <2>1
<1>4. CASE PollHighPriority \/ WaitForCommand \/ Environment \/ UNCHANGED vars
  <2>1. snapshots' = snapshots /\ commit' = commit /\ core' = core
    BY <1>4 DEF PollHighPriority, WaitForCommand, Environment, SendOffered, Send, TakeRouted,
                DropReceiver, vars, engineVars, journalVars
  <2> QED BY <1>2, <2>1
<1>5. CASE Bootstrap \/ FinishShutdown \/ Fault
  <2>1. snapshots' = snapshots /\ commit' = None
    BY <1>5 DEF Bootstrap, FinishShutdown, Fault, CommandFails, PersistFails, HandlesDropped,
                Crash, Stop, journalVars
  <2> QED BY <2>1, RecoveredUnchanged
<1>6. CASE Handle
  <2>1. HandlerStep
    BY <1>1, <1>6, HandleStep
  <2>2. snapshots' = snapshots /\ commit = None /\ mode # "stopped"
    BY <2>1 DEF HandlerStep, journalVars, Idle
  <2>3. core = Recovered.state
    BY <1>1, <2>2 DEF IInv, CoreIsCached, CacheIsDurable
  <2> QED BY <1>6, <2>2, <2>3, HandlerMoves, RecoveredUnchanged
<1>7. CASE PersistEvents
  <2>1. commit # None /\ snapshots' = snapshots /\ core' = core
    BY <1>7 DEF PersistEvents, AppendBatch, PersistRows
  <2> QED BY <2>1, RecoveredUnchanged
<1>8. CASE PersistCommit \/ PersistSnapshot
  <2>1. commit # None /\ commit.snapshot # None /\ commit' = None
    BY <1>1, <1>8, CommitRowFacts DEF PersistCommit, PersistSnapshot, Committed
  <2>2. snapshots' = ReplaceAndPrune(snapshots, commit.snapshot)
    BY <1>8, <2>1 DEF PersistCommit, PersistSnapshot, SaveSnapshot, PersistRows
  <2>3. Recovered.sequence_id < commit.snapshot.sequence_id /\ commit.snapshot \in SnapshotRow
    BY <1>1, <2>1, CommitRowFacts DEF IInv, CommitIsNext, CacheIsDurable
  <2>4. Recovered' = commit.snapshot
    BY <1>1, <2>2, <2>3, SnapshotReplaced DEF IInv, TypeOK
  <2>5. commit.snapshot.state = [core EXCEPT !.last_sequence_id = commit.snapshot.sequence_id]
    BY <1>1, <2>1 DEF IInv, CommitIsNext
  <2>6. commit.snapshot.state.orders = core.orders
    BY <1>1, <2>5 DEF State
  <2> QED BY <2>1, <2>4, <2>6
<1> QED BY <1>3, <1>4, <1>5, <1>6, <1>7, <1>8, EngineStepKinds DEF Next, Step, Persist

\* One record moved, from a state of which none is overfilled.
LEMMA MovedNotOverfilled ==
  ASSUME NEW st \in State, NEW new \in State, NoneOverfilled(st), OneMoved(st, new)
  PROVE  NoneOverfilled(new)
<1>1. CASE new.orders = st.orders
  BY <1>1 DEF NoneOverfilled
<1>2. ASSUME NEW o \in OrderIds, new.orders[o] # None, RecordMoves(o, st.orders[o], new.orders[o]),
             \A p \in OrderIds : p # o => new.orders[p] = st.orders[p]
      PROVE  NoneOverfilled(new)
  <2>1. st.orders[o] \in OrderRecord \cup {None} /\ new.orders[o] \in OrderRecord \cup {None}
    BY DEF State
  <2>2. new.orders[o] # None => new.orders[o].filled <= Qty[o]
    BY <1>2, <2>1, MoveNotOverfilled DEF NoneOverfilled
  <2> QED BY <1>2, <2>2 DEF NoneOverfilled
<1> QED BY <1>1, <1>2 DEF OneMoved

\* Every step keeps what the mapping rests on.
LEMMA LifecycleInvariant == EngineSafety => []LifecycleInv
<1>1. EngineInit => LifecycleInv
  <2> SUFFICES ASSUME EngineInit PROVE CommitMoves /\ DurableNotOverfilled
    BY EngineInitInvariant DEF LifecycleInv
  <2>1. Recovered = [sequence_id |-> 0, state |-> EmptyState] /\ commit = None
    BY RecoveredFacts DEF EngineInit, Init, JournalInit, OneSnapshot
  <2> QED BY <2>1 DEF CommitMoves, DurableNotOverfilled, NoneOverfilled, EmptyState
<1>2. LifecycleInv /\ [EngineNext]_allVars => LifecycleInv'
  <2> SUFFICES ASSUME LifecycleInv, [EngineNext]_allVars
               PROVE  CommitMoves' /\ DurableNotOverfilled'
    BY EngineNextInvariant DEF LifecycleInv
  <2>1. EngineInv /\ CommitMoves /\ DurableNotOverfilled /\ core \in State /\ Recovered.state \in State
    <3>1. IInv /\ EngineInv
      BY DEF LifecycleInv, EngineInv, AckInv
    <3>2. Recovered \in SnapshotRow
      BY <3>1, RecoveredFacts DEF IInv, TypeOK
    <3> QED BY <3>1, <3>2 DEF LifecycleInv, IInv, TypeOK, SnapshotRow
  <2>2. CASE Recovered' = Recovered
    <3>1. DurableNotOverfilled'
      BY <2>1, <2>2 DEF DurableNotOverfilled, NoneOverfilled
    <3>2. CASE commit' = None
      BY <3>1, <3>2 DEF CommitMoves
    <3>3. CASE commit # None /\ core' = core
      BY <2>1, <2>2, <3>1, <3>3 DEF CommitMoves, OneMoved, RecordMoves
    <3>4. CASE core = Recovered.state /\ OneMoved(core, core')
      BY <2>2, <3>1, <3>4 DEF CommitMoves, OneMoved, RecordMoves
    <3>5. CASE commit # None /\ commit' = None
      BY <3>2, <3>5
    <3> QED BY <2>1, <3>2, <3>3, <3>4, <3>5, LifecycleKinds
  <2>3. CASE commit # None /\ commit' = None /\ Recovered'.state.orders = core.orders
    <3>1. NoneOverfilled(core)
      BY <2>1, <2>3, MovedNotOverfilled DEF CommitMoves, DurableNotOverfilled
    <3> QED BY <2>3, <3>1 DEF CommitMoves, DurableNotOverfilled, NoneOverfilled
  <2> QED BY <2>1, <2>2, <2>3, LifecycleKinds
<1> QED BY <1>1, <1>2, PTL DEF EngineSafety

\* Every step of the engine is one step of one LiveOrder, or none.
LEMMA StepSimulation ==
  ASSUME LifecycleInv, [EngineNext]_allVars
  PROVE  [Lifecycle!Next]_[o \in OrderIds |-> LiveOrderOf(o)]
<1>1. EngineInv /\ CommitMoves /\ DurableNotOverfilled /\ core \in State /\ Recovered.state \in State
  <2>1. IInv /\ EngineInv
    BY DEF LifecycleInv, EngineInv, AckInv
  <2>2. Recovered \in SnapshotRow
    BY <2>1, RecoveredFacts DEF IInv, TypeOK
  <2> QED BY <2>1, <2>2 DEF LifecycleInv, IInv, TypeOK, SnapshotRow
<1>2. CASE Recovered'.state.orders = Recovered.state.orders
  BY <1>2 DEF LiveOrderOf, Durable
<1>3. CASE commit # None /\ Recovered'.state.orders = core.orders
  <2>1. CASE core.orders = Recovered.state.orders
    BY <1>2, <1>3, <2>1
  <2>2. ASSUME NEW o \in OrderIds, core.orders[o] # None,
               RecordMoves(o, Recovered.state.orders[o], core.orders[o]),
               \A p \in OrderIds : p # o => core.orders[p] = Recovered.state.orders[p]
        PROVE  Lifecycle!Next
    <3> DEFINE r == Recovered.state.orders[o]
               s == core.orders[o]
    <3>1. r \in OrderRecord \cup {None} /\ s \in OrderRecord \cup {None}
      BY <1>1 DEF State
    <3>2. r # None => r.filled <= Qty[o]
      BY <1>1 DEF DurableNotOverfilled, NoneOverfilled
    <3>3. s # None
      BY <2>2
    <3>4. /\ Recovered'.state.orders[o] = s
          /\ \A p \in OrderIds : p # o => Recovered'.state.orders[p] = Recovered.state.orders[p]
      BY <1>3, <2>2
    <3> QED BY <2>2, <3>1, <3>2, <3>3, <3>4, LifecycleStep
  <2> QED BY <1>1, <1>3, <2>1, <2>2 DEF CommitMoves, OneMoved
<1> QED BY <1>1, <1>2, <1>3, LifecycleKinds

\* The orders the engine persists live as LiveOrders do, for any number of
\* orders, whatever is lost and however often the engine restarts.
THEOREM EngineImplementsLiveOrder == EngineSafety => ImplementsLiveOrder
<1>1. EngineInit => Lifecycle!Init
  <2> SUFFICES ASSUME EngineInit PROVE Lifecycle!Init
    OBVIOUS
  <2>1. Recovered = [sequence_id |-> 0, state |-> EmptyState]
    BY RecoveredFacts DEF EngineInit, Init, JournalInit, OneSnapshot
  <2>2. \A o \in OrderIds : LiveOrderOf(o) = None
    BY <2>1 DEF LiveOrderOf, Durable, EmptyState
  <2> QED BY <2>2 DEF Lifecycle!Init
<1>2. LifecycleInv /\ [EngineNext]_allVars => [Lifecycle!Next]_[o \in OrderIds |-> LiveOrderOf(o)]
  BY StepSimulation
<1> QED BY <1>1, <1>2, LifecycleInvariant, PTL DEF EngineSafety, ImplementsLiveOrder, Lifecycle!Spec

-----------------------------------------------------------------------------
(* What the sequencer promises alone it keeps with the submit task *)

\* A report sent keeps what is invariant of the sequencer.
LEMMA SendReportKeeps ==
  ASSUME EngineInv, SendReport
  PROVE  /\ IdInv => IdInv'
         /\ DispatchInv => DispatchInv'
         /\ ExplainInv => ExplainInv'
         /\ OnceInv => OnceInv'
<1>1. IInv /\ TypeOK /\ TaskTypeOK
  BY DEF EngineInv, AckInv, IInv
<1>2. /\ TypeOK'
      /\ UNCHANGED <<engineVars, journalVars, venue_submit, venue_submit_tx, historyVars>>
  BY <1>1, SendReportFrame
<1>3. IInv'
  BY <1>1, <1>2, FrameKeepsInvariant DEF engineVars
<1>4. Recovered' = Recovered /\ core' = core /\ mode' = mode /\ dispatched' = dispatched
      /\ commit' = commit /\ snapshot_cache' = snapshot_cache /\ events' = events
      /\ generators' = generators /\ restart_epoch' = restart_epoch /\ snapshots' = snapshots
  BY <1>2, RecoveredUnchanged DEF engineVars, journalVars, historyVars
<1>5. IdInv => IdInv'
  BY <1>3, <1>4 DEF IdInv, IdsAreSpent, ClientOrderIdNamesOneOrder
<1>6. DispatchInv => DispatchInv'
  BY <1>2, <1>3, <1>4
     DEF DispatchInv, ChannelIsWired, CoreWasDispatched, DurableWasDispatched, WasDispatched
<1>7. ASSUME ExplainInv PROVE ExplainInv'
  <2>1. JournalExplainsOrders'
    BY <1>4, <1>7, ExplainsFrame DEF ExplainInv
  <2>2. CommitRows' = CommitRows
    BY <1>4 DEF CommitRows
  <2> QED BY <1>3, <1>4, <1>7, <2>1, <2>2 DEF ExplainInv, CommitAccounts, TailIsCommit
<1>8. AckInv'
  BY EngineKeepsAcks DEF EngineNext, TaskStep
<1>9. ASSUME OnceInv PROVE OnceInv'
  <2>1. DispatchedAreKnown' /\ DispatchedOncePerEpoch'
    BY <1>4, <1>9 DEF OnceInv, DispatchedAreKnown, DispatchedOncePerEpoch
  <2>2. CoreIsLatest' /\ DurableIsLatest'
    BY <1>4, <1>9 DEF OnceInv, CoreIsLatest, DurableIsLatest, RecordIsLatest
  <2> QED BY <1>5, <1>8, <1>9, <2>1, <2>2 DEF OnceInv
<1> QED BY <1>5, <1>6, <1>7, <1>9

\* Readers of the snapshot see what a restart would find, and every order finds
\* its own ack, while the submit task reports into the same loop.
THEOREM EngineMemoryIsDurable == EngineSafety => [](MemoryMatchesDisk /\ EveryOrderKeepsItsAck)
<1>1. EngineInv => MemoryMatchesDisk
  BY DEF EngineInv, AckInv, IInv, CacheIsDurable, CoreIsCached, MemoryMatchesDisk, Durable
<1>2. EngineInv => EveryOrderKeepsItsAck
  BY FiledMeansOwnAck DEF EngineInv, AckInv, IInv, TypeOK, CoreIsFiled, EveryOrderKeepsItsAck
<1> QED BY <1>1, <1>2, EngineInvariant, PTL

\* Reports interleaved with commits lose no event and put none among old ones.
THEOREM EngineJournalIsComplete == EngineSafety => CommitIsJournaled /\ JournalAppendOnly
<1>1. ASSUME EngineInv, [EngineNext]_allVars
      PROVE  /\ [snapshot_cache' # snapshot_cache /\ commit # None => CommitRows \subseteq events']_vars
             /\ [/\ events \subseteq events'
                 /\ \A r \in events' \ events :
                      \A t \in events : t.sequence_id < r.sequence_id]_events
  <2>1. IInv /\ TypeOK /\ TaskTypeOK
    BY <1>1 DEF EngineInv, AckInv, IInv
  <2>2. CASE SendReport
    BY <2>1, <2>2, SendReportFrame DEF engineVars, journalVars
  <2>3. CASE Next
    BY <2>1, <2>3, CommitStepJournals, JournalStepAppends
  <2>4. CASE UNCHANGED vars
    BY <2>4 DEF vars, journalVars
  <2> QED BY <1>1, <2>2, <2>3, <2>4, EngineStepKinds
<1>2. EngineInv /\ [EngineNext]_allVars =>
        [snapshot_cache' # snapshot_cache /\ commit # None => CommitRows \subseteq events']_vars
  BY <1>1
<1>3. EngineInv /\ [EngineNext]_allVars =>
        [/\ events \subseteq events'
         /\ \A r \in events' \ events : \A t \in events : t.sequence_id < r.sequence_id]_events
  BY <1>1
<1> QED BY <1>2, <1>3, EngineInvariant, PTL DEF EngineSafety, CommitIsJournaled, JournalAppendOnly

\* Nor does a report ever leave a durable order without the event that explains it.
THEOREM EngineJournalExplainsOrders == EngineSafety => []JournalExplainsOrders
<1> DEFINE EInv == EngineInv /\ ExplainInv
<1>1. EngineInit => EInv
  BY EngineInitInvariant, InitExplainInvariant DEF EngineInit
<1>2. EInv /\ [EngineNext]_allVars => EInv'
  <2> SUFFICES ASSUME EngineInv, ExplainInv, [EngineNext]_allVars PROVE ExplainInv'
    BY EngineNextInvariant
  <2>1. CASE [Next]_vars
    BY <2>1, NextInvariant, ExplainKept DEF ExplainInv
  <2> QED BY <2>1, SendReportKeeps, EngineStepKinds
<1>3. EInv => JournalExplainsOrders
  BY DEF ExplainInv
<1> QED BY <1>1, <1>2, <1>3, PTL DEF EngineSafety

\* A durable order is not sent to a venue again because a report came in between.
THEOREM EngineDoesNotRedispatch == EngineSafety => DurableOrderNotRedispatched
<1>1. EngineInv /\ [EngineNext]_allVars =>
        [\A r \in dispatched' \ dispatched : Durable.state.orders[r.order_id] = None]_vars
  <2> SUFFICES ASSUME EngineInv, [EngineNext]_allVars, NEW r \in dispatched' \ dispatched
               PROVE  Durable.state.orders[r.order_id] = None
    OBVIOUS
  <2>1. AckInv /\ TypeOK /\ TaskTypeOK
    BY DEF EngineInv, AckInv, IInv
  <2>2. ~ SendReport
    BY <2>1, SendReportFrame DEF historyVars
  <2> QED BY <2>1, <2>2, DispatchStepIsFirst, EngineStepKinds
<1> QED BY <1>1, EngineInvariant, PTL DEF EngineSafety, DurableOrderNotRedispatched

\* What is durable was handed to the submit channel, whatever the task does.
THEOREM EngineRecordsWhatItDispatched == EngineSafety => []DurableOrderWasDispatched
<1>1. CASE "none" \in Wirings
  <2>1. DurableOrderWasDispatched
    BY <1>1 DEF DurableOrderWasDispatched
  <2> QED BY <2>1, PTL
<1>2. CASE "none" \notin Wirings
  <2> DEFINE DInv == EngineInv /\ DispatchInv
  <2>1. EngineInit => DInv
    BY EngineInitInvariant, InitDispatchInvariant DEF EngineInit
  <2>2. DInv /\ [EngineNext]_allVars => DInv'
    <3> SUFFICES ASSUME EngineInv, DispatchInv, [EngineNext]_allVars PROVE DispatchInv'
      BY EngineNextInvariant
    <3>1. CASE [Next]_vars
      BY <1>2, <3>1, NextInvariant, DispatchKept DEF DispatchInv
    <3> QED BY <3>1, SendReportKeeps, EngineStepKinds
  <2>3. DInv => DurableOrderWasDispatched
    BY DEF DispatchInv, DurableWasDispatched, WasDispatched, DurableOrderWasDispatched, Durable
  <2> QED BY <2>1, <2>2, <2>3, PTL DEF EngineSafety
<1> QED BY <1>1, <1>2

-----------------------------------------------------------------------------
(* What venues may hold *)

\* What is queued for the task, at work in it and at the venues was dispatched.
RoutedWereDispatched ==
  /\ \A k \in DOMAIN venue_submit : venue_submit[k] \in dispatched
  /\ phase # "recv" => order \in dispatched
  /\ received \subseteq dispatched
  /\ venue_orders \subseteq dispatched

\* Nothing reaches the task but what the sequencer dispatched.
LEMMA RoutedKept ==
  ASSUME TypeOK, TaskTypeOK, RoutedWereDispatched, [EngineNext]_allVars
  PROVE  RoutedWereDispatched'
<1>1. venue_submit \in Seq(OrderAck)
  BY DEF TypeOK
<1>2. dispatched \subseteq dispatched'
  <2>1. CASE SendReport
    BY <2>1, SendReportFrame DEF historyVars
  <2> QED BY <2>1, DispatchesStay, EngineStepKinds
<1>3. CASE ProcessStarts
  <2>1. /\ venue_submit' = <<>> /\ phase' = "recv" /\ venue_orders' = venue_orders
        /\ received' = received
    BY <1>3 DEF ProcessStarts, Bootstrap, NewProcess
  <2>2. DOMAIN venue_submit' = {}
    BY <2>1
  <2> QED BY <1>2, <2>1, <2>2 DEF RoutedWereDispatched
<1>4. CASE Receive
  <2>1. /\ venue_submit # <<>> /\ venue_submit' = Tail(venue_submit) /\ order' = Head(venue_submit)
        /\ received' = received \cup {order'} /\ venue_orders' = venue_orders
    BY <1>4 DEF Receive
  <2> DEFINE n == Len(venue_submit)
  <2>2. /\ n \in Nat /\ n >= 1 /\ DOMAIN venue_submit = 1 .. n /\ DOMAIN venue_submit' = 1 .. n - 1
        /\ \A i \in 1 .. n - 1 : venue_submit'[i] = venue_submit[i + 1]
        /\ order' = venue_submit[1]
    BY <1>1, <2>1, TailFacts
  <2> HIDE DEF n
  <2>3. 1 \in DOMAIN venue_submit
    BY <2>2
  <2>4. \A k \in DOMAIN venue_submit' : k + 1 \in DOMAIN venue_submit /\ venue_submit'[k] = venue_submit[k + 1]
    BY <2>2
  <2> QED BY <1>2, <2>1, <2>2, <2>3, <2>4 DEF RoutedWereDispatched
<1>5. CASE ~ ProcessStarts /\ ~ Receive
  <2>1. /\ order' = order /\ (phase' # "recv" => phase # "recv")
        /\ venue_orders' = venue_orders \/ VenueAccepts
    BY <1>5, RoutedFrame
  <2>2. received' = received
    BY <1>5 DEF EngineNext, SequencerStep, ClientSends, SequencerFails, TaskStep, VenueAccepts,
                VenueRejects, SendReport, SendFails, TakePostAckActions, PostAckFails, TaskPanics,
                ProcessCrashes, NewProcess, taskVars, allVars
  <2>3. venue_orders' \subseteq dispatched'
    <3>1. CASE VenueAccepts
      <4>1. venue_orders' = venue_orders \cup {order} /\ phase = "submit"
        BY <3>1 DEF VenueAccepts
      <4> QED BY <1>2, <4>1 DEF RoutedWereDispatched
    <3> QED BY <1>2, <2>1, <3>1 DEF RoutedWereDispatched
  <2>4. \A k \in DOMAIN venue_submit' : venue_submit'[k] \in dispatched'
    <3>1. CASE venue_submit' = venue_submit
      BY <1>2, <3>1 DEF RoutedWereDispatched
    <3>2. CASE venue_submit' = <<>>
      <4>1. DOMAIN venue_submit' = {}
        BY <3>2
      <4> QED BY <4>1
    <3>3. CASE \E r \in OrderAck \cap dispatched' : venue_submit' = Append(venue_submit, r)
      <4>1. PICK r \in OrderAck \cap dispatched' : venue_submit' = Append(venue_submit, r)
        BY <3>3
      <4> DEFINE n == Len(venue_submit)
      <4>2. /\ DOMAIN venue_submit = 1 .. n /\ n \in Nat
            /\ DOMAIN venue_submit' = 1 .. n + 1
            /\ \A i \in 1 .. n : venue_submit'[i] = venue_submit[i]
            /\ venue_submit'[n + 1] = r
        BY <1>1, <4>1, AppendFacts
      <4> HIDE DEF n
      <4>3. \A k \in DOMAIN venue_submit' :
              (k \in DOMAIN venue_submit /\ venue_submit'[k] = venue_submit[k]) \/ venue_submit'[k] = r
        BY <4>2
      <4> QED BY <1>2, <4>1, <4>3 DEF RoutedWereDispatched
    <3> QED BY <1>5, <3>1, <3>2, <3>3, RoutedFrame
  <2> QED BY <1>2, <2>1, <2>2, <2>3, <2>4 DEF RoutedWereDispatched
<1> QED BY <1>3, <1>4, <1>5

RoutedInv == EngineInv /\ OnceInv /\ RoutedWereDispatched

\* What venues may hold: an id stands for one order, an order came once under
\* each epoch, and the durable record names the one that came last.
VenuesHoldOrdersOnce ==
  \A d \in venue_orders :
    /\ \A e \in venue_orders :
         /\ d.client_order_id = e.client_order_id => d.order_id = e.order_id
         /\ d.order_id = e.order_id /\ d.client_order_id.epoch = e.client_order_id.epoch => d = e
    /\ Durable.state.orders[d.order_id] # None =>
         \/ d.client_order_id = Durable.state.orders[d.order_id].client_order_id
         \/ d.client_order_id.epoch < Durable.state.orders[d.order_id].client_order_id.epoch

\* However clients resubmit and whatever crashes in between, a venue accepts an
\* order once between two starts, under an id of its own; what it holds beyond
\* the durable record was sent by an earlier process that lost its commit.
THEOREM VenuesSeeOrdersOncePerEpoch ==
  ASSUME FreshEpoch
  PROVE  EngineSafety => []VenuesHoldOrdersOnce
<1>1. EngineInit => RoutedInv
  BY EngineInitInvariant, InitOnceInvariant
     DEF EngineInit, Init, TaskInit, RoutedInv, RoutedWereDispatched
<1>2. RoutedInv /\ [EngineNext]_allVars => RoutedInv'
  <2> SUFFICES ASSUME RoutedInv, [EngineNext]_allVars PROVE RoutedInv'
    OBVIOUS
  <2>1. EngineInv' /\ RoutedWereDispatched'
    BY EngineNextInvariant, RoutedKept DEF RoutedInv, EngineInv, AckInv, IInv
  <2>2. CASE [Next]_vars
    <3>1. OnceInv'
      BY <2>2, OnceKept, LatestKept, IdsKept, AcksKept, NextInvariant
         DEF RoutedInv, OnceInv, IdInv, AckInv
    <3> QED BY <2>1, <3>1 DEF RoutedInv
  <2> QED BY <2>1, <2>2, SendReportKeeps, EngineStepKinds DEF RoutedInv
<1>3. RoutedInv => VenuesHoldOrdersOnce
  BY DEF RoutedInv, RoutedWereDispatched, OnceInv, IdInv, ClientOrderIdNamesOneOrder,
         DispatchedOncePerEpoch, DurableIsLatest, RecordIsLatest, Durable, VenuesHoldOrdersOnce
<1> QED BY <1>1, <1>2, <1>3, PTL DEF EngineSafety
=============================================================================
