---------------------- MODULE CircuitBreakerBankProofs ----------------------
(* Proofs about the latches of CircuitBreakerBank, for every configuration and *)
(* every set of contexts.                                                      *)
EXTENDS CircuitBreakerBank, TLAPS, WellFoundedInduction

\* A nonempty set of natural numbers has a least element.
LEMMA LeastIndex ==
  ASSUME NEW T, T \subseteq Nat, T # {}
  PROVE  \E i \in T : \A j \in T : i <= j
<1> DEFINE R == {ss \in Nat \X Nat : ss[1] < ss[2]}
<1>1. IsWellFoundedOn(R, Nat)
  BY NatLessThanWellFounded DEF OpToRel
<1> HIDE DEF R
<1>2. \E i \in T : \A j \in T : ~ (<<j, i>> \in R)
  BY <1>1, WFMin, Zenon
<1>3. PICK i \in T : \A j \in T : ~ (<<j, i>> \in R)
  BY <1>2
<1>4. ASSUME NEW j \in T PROVE i <= j
  <2>1. i \in Nat /\ j \in Nat
    OBVIOUS
  <2>2. j < i => <<j, i>> \in R
    BY <2>1 DEF R
  <2>3. ~ (j < i)
    BY <1>3, <2>2
  <2> QED BY <2>1, <2>3
<1> QED BY <1>4

\* FirstIn finds a member of the set if the sequence has one, and None if not.
LEMMA FirstInFound ==
  ASSUME NEW order, DOMAIN order \subseteq Nat, NEW set
  PROVE  \/ /\ \E i \in DOMAIN order : order[i] \in set
            /\ FirstIn(order, set) \in set
         \/ /\ ~ \E i \in DOMAIN order : order[i] \in set
            /\ FirstIn(order, set) = None
<1> DEFINE hits == {i \in DOMAIN order : order[i] \in set}
<1>1. CASE hits = {}
  BY <1>1 DEF FirstIn
<1>2. CASE hits # {}
  <2>1. \E i \in hits : \A j \in hits : i <= j
    BY <1>2, LeastIndex
  <2>2. (CHOOSE i \in hits : \A j \in hits : i <= j) \in hits
    BY <2>1
  <2> QED BY <1>2, <2>2 DEF FirstIn
<1> QED BY <1>1, <1>2

\* The two orders of check_all name every breaker they are about.
LEMMA Orders ==
  /\ DOMAIN LatchOrder \subseteq Nat /\ DOMAIN CheckOrder \subseteq Nat
  /\ \A b \in Latching : \E i \in DOMAIN LatchOrder : LatchOrder[i] = b
  /\ \A b \in Breaker : \E i \in DOMAIN CheckOrder : CheckOrder[i] = b
<1>1. DOMAIN LatchOrder = 1 .. 3 /\ DOMAIN CheckOrder = 1 .. 11
  BY DEF LatchOrder, CheckOrder
<1>2. \A b \in Latching : \E i \in DOMAIN LatchOrder : LatchOrder[i] = b
  BY <1>1 DEF LatchOrder, Latching
<1>3. \A b \in Breaker : \E i \in DOMAIN CheckOrder : CheckOrder[i] = b
  <2>1. /\ CheckOrder[1] = "CB-10" /\ CheckOrder[2] = "CB-4" /\ CheckOrder[3] = "CB-5"
        /\ CheckOrder[4] = "CB-3" /\ CheckOrder[5] = "CB-11" /\ CheckOrder[6] = "CB-1"
        /\ CheckOrder[7] = "CB-2" /\ CheckOrder[8] = "CB-6" /\ CheckOrder[9] = "CB-7"
        /\ CheckOrder[10] = "CB-8" /\ CheckOrder[11] = "CB-9"
    BY DEF CheckOrder
  <2> QED BY <1>1, <2>1 DEF Breaker
<1> QED BY <1>1, <1>2, <1>3

\* What check_all objects to: a latch that applies, else a breach that applies.
LEMMA ObjectionFacts ==
  ASSUME NEW ctx, tripped \subseteq Latching
  PROVE  LET exempt == Exempt(ctx.operation_kind)
         IN  /\ tripped \ exempt # {} => Objection(ctx) \in tripped \ exempt
             /\ tripped \ exempt = {} /\ Breached(ctx) \ exempt # {}
                  => Objection(ctx) \in Breached(ctx) \ exempt
             /\ tripped \ exempt = {} /\ Breached(ctx) \ exempt = {} => Objection(ctx) = None
<1> DEFINE exempt  == Exempt(ctx.operation_kind)
           latched == tripped \ exempt
           fresh   == Breached(ctx) \ exempt
<1>0. Objection(ctx) = IF latched # {} THEN FirstIn(LatchOrder, latched)
                       ELSE FirstIn(CheckOrder, fresh)
  BY DEF Objection
<1>1. fresh \subseteq Breaker
  BY DEF Breached
<1>2. latched # {} => FirstIn(LatchOrder, latched) \in latched
  BY Orders, FirstInFound
<1>3. fresh # {} => FirstIn(CheckOrder, fresh) \in fresh
  BY <1>1, Orders, FirstInFound
<1>4. fresh = {} => FirstIn(CheckOrder, fresh) = None
  BY Orders, FirstInFound
<1> HIDE DEF latched, fresh
<1>5. /\ latched # {} => Objection(ctx) \in latched
      /\ latched = {} /\ fresh # {} => Objection(ctx) \in fresh
      /\ latched = {} /\ fresh = {} => Objection(ctx) = None
  BY <1>0, <1>2, <1>3, <1>4
<1> QED BY <1>5 DEF latched, fresh

\* A call passes exactly if no breaker objects.
LEMMA VerdictFacts ==
  /\ Verdict(None) = "Pass"
  /\ \A b \in Breaker : Verdict(b) # "Pass"
BY CircuitBreakerBankAssumption DEF Verdict, Breaker

Inv ==
  /\ TypeOK
  /\ halted = tripped
  /\ OneLatchAtATime
  /\ last.verdict = Verdict(last.breaker)
  /\ last.operation_kind = "NewOrder" /\ tripped # {} => last.breaker \in tripped
  /\ PassMeansClear

\* The invariant implies the properties of the runs.
LEMMA InvImplies == Inv => TypeOK /\ HaltHolds /\ PassMeansClear /\ OneLatchAtATime
<1> SUFFICES ASSUME Inv PROVE HaltHolds
  BY DEF Inv
<1> SUFFICES ASSUME last.operation_kind = "NewOrder", tripped # {}
             PROVE  /\ last.verdict # "Pass"
                    /\ "CB-4" \in tripped => last.verdict = "HaltAll"
  BY DEF HaltHolds, Inv
<1>1. last.breaker \in tripped /\ last.breaker \in Latching
  BY DEF Inv, TypeOK
<1>2. last.breaker # None /\ last.verdict # "Pass"
  BY <1>1, CircuitBreakerBankAssumption DEF Inv, Verdict, Latching, Breaker
<1>3. "CB-4" \in tripped => last.breaker = "CB-4"
  BY <1>1 DEF Inv, OneLatchAtATime
<1> QED BY <1>2, <1>3 DEF Inv, Verdict

\* A call of check_all preserves the invariant.
LEMMA InvCheckAll ==
  ASSUME Inv, NEW ctx \in Contexts, CheckAll(ctx)
  PROVE  Inv'
<1> DEFINE kind    == ctx.operation_kind
           breaker == Objection(ctx)
           exempt  == Exempt(kind)
<1>k. kind \in OperationKind
  BY CircuitBreakerBankAssumption
<1>s. /\ tripped' = tripped \cup ({breaker} \cap Latching)
      /\ halted' = halted \cup ({breaker} \cap Latching)
      /\ last'.operation_kind = kind /\ last'.verdict = Verdict(breaker)
      /\ last'.breaker = breaker /\ last'.breached = Breached(ctx)
  BY DEF CheckAll
<1>t. tripped \subseteq Latching
  BY DEF Inv, TypeOK
<1>o. /\ tripped \ exempt # {} => breaker \in tripped \ exempt
      /\ tripped \ exempt = {} /\ Breached(ctx) \ exempt # {} => breaker \in Breached(ctx) \ exempt
      /\ tripped \ exempt = {} /\ Breached(ctx) \ exempt = {} => breaker = None
  BY <1>t, ObjectionFacts
<1>b. breaker \in Breaker \cup {None}
  BY <1>t, <1>o DEF Breached, Latching, Breaker
<1>e. exempt = IF kind = "Cancel" THEN Breaker
               ELSE IF kind = "ReduceOnly" THEN {"CB-1", "CB-3", "CB-4", "CB-5"} ELSE {}
  BY <1>k DEF Exempt, OperationKind
<1>1. TypeOK'
  <2>1. Verdict(breaker) \in {"Pass", "Reject", "HaltAll"}
    BY DEF Verdict
  <2>2. Breached(ctx) \in SUBSET Breaker
    BY DEF Breached
  <2>3. last' \in [operation_kind: OperationKind \cup {None},
                   verdict: {"Pass", "Reject", "HaltAll"}, breaker: Breaker \cup {None},
                   breached: SUBSET Breaker]
    BY <1>k, <1>b, <2>1, <2>2 DEF CheckAll
  <2> QED BY <1>s, <1>t, <2>3 DEF TypeOK, Inv
<1>2. (halted = tripped)'
  BY <1>s DEF Inv
<1> HIDE DEF breaker, exempt
<1>3. OneLatchAtATime'
  <2>1. CASE breaker \in Latching /\ tripped = {}
    BY <1>s, <2>1 DEF OneLatchAtATime
  <2>2. CASE breaker \in Latching /\ tripped # {}
    <3>1. exempt \cap Latching = {} \/ Latching \subseteq exempt
      BY <1>e DEF Latching, Breaker
    <3>2. breaker \notin exempt
      BY <1>o, <2>2, CircuitBreakerBankAssumption DEF Latching, Breaker
    <3>3. tripped \ exempt # {}
      BY <1>t, <2>2, <3>1, <3>2
    <3>4. breaker \in tripped
      BY <3>3, <1>o
    <3> QED BY <3>4, <1>s DEF Inv, OneLatchAtATime
  <2>3. CASE breaker \notin Latching
    BY <1>s, <2>3 DEF Inv, OneLatchAtATime
  <2> QED BY <2>1, <2>2, <2>3
<1>4. (last.verdict = Verdict(last.breaker))'
  BY <1>s DEF Verdict
<1>5. (last.operation_kind = "NewOrder" /\ tripped # {} => last.breaker \in tripped)'
  <2> SUFFICES ASSUME kind = "NewOrder", tripped' # {}
               PROVE  breaker \in tripped'
    BY <1>s
  <2>1. exempt = {}
    BY <1>e
  <2> QED BY <2>1, <1>o, <1>s
<1>6. PassMeansClear'
  <2> SUFFICES /\ Verdict(breaker) = "Pass" => Breached(ctx) \subseteq exempt
               /\ Verdict(breaker) # "Pass" => breaker \in (Breached(ctx) \cup tripped') \ exempt
    BY <1>s DEF PassMeansClear, exempt
  <2>1. Verdict(breaker) = "Pass" <=> breaker = None
    BY <1>b, VerdictFacts DEF breaker
  <2>3. breaker = None => Breached(ctx) \subseteq exempt
    <3>1. None \notin tripped /\ None \notin Breached(ctx)
      BY <1>t, CircuitBreakerBankAssumption DEF Breached, Latching, Breaker
    <3> QED BY <3>1, <1>o
  <2>4. breaker # None => breaker \in (Breached(ctx) \cup tripped') \ exempt
    BY <1>o, <1>s
  <2> QED BY <2>1, <2>3, <2>4
<1> QED BY <1>1, <1>2, <1>3, <1>4, <1>5, <1>6 DEF Inv

\* A reset preserves the invariant.
LEMMA InvReset ==
  ASSUME Inv, NEW b \in Breaker, NEW reason \in ResetReason, Reset(b, reason)
  PROVE  Inv'
<1>1. tripped' = tripped \ {b} /\ halted' = halted \ {b} /\ last' = NoCall
  BY DEF Reset, ResetAccepted
<1>2. TypeOK'
  BY <1>1 DEF Inv, TypeOK, NoCall
<1>3. (last.verdict = Verdict(last.breaker))'
  <2>1. last'.verdict = "Pass" /\ last'.breaker = None
    BY <1>1 DEF NoCall
  <2> QED BY <2>1, CircuitBreakerBankAssumption DEF Verdict, Breaker
<1>4. last'.operation_kind = None
  BY <1>1 DEF NoCall
<1>5. None # "NewOrder"
  BY CircuitBreakerBankAssumption DEF OperationKind
<1> QED BY <1>1, <1>2, <1>3, <1>4, <1>5 DEF Inv, OneLatchAtATime, PassMeansClear

\* The invariant holds of every behaviour.
LEMMA Invariance == Spec => []Inv
<1>1. Init => Inv
  <2> SUFFICES ASSUME Init PROVE Inv
    OBVIOUS
  <2>1. TypeOK
    BY DEF Init, TypeOK, NoCall
  <2>2. None # "NewOrder"
    BY CircuitBreakerBankAssumption DEF OperationKind
  <2>3. last.verdict = Verdict(last.breaker)
    BY VerdictFacts DEF Init, NoCall
  <2> QED BY <2>1, <2>2, <2>3 DEF Init, Inv, NoCall, OneLatchAtATime, PassMeansClear
<1>2. Inv /\ [Next]_vars => Inv'
  <2> SUFFICES ASSUME Inv, [Next]_vars PROVE Inv'
    OBVIOUS
  <2>1. CASE UNCHANGED vars
    BY <2>1 DEF vars, Inv, TypeOK, OneLatchAtATime, PassMeansClear, Verdict, Exempt
  <2>2. CASE Next
    BY <2>2, InvCheckAll, InvReset DEF Next
  <2> QED BY <2>1, <2>2
<1> QED BY <1>1, <1>2, PTL DEF Spec

\* Type correctness of the bank.
THEOREM TypeCorrect == Spec => []TypeOK
BY Invariance, InvImplies, PTL

\* A latched breaker keeps new orders out until it is properly reset, and a
\* daily-loss halt is answered HaltAll until the CIO lifts it (check_all, reset).
THEOREM HaltsHold == Spec => []HaltHolds
BY Invariance, InvImplies, PTL

\* check_all passes exactly the calls no applicable breaker objects to.
THEOREM PassIsClear == Spec => []PassMeansClear
BY Invariance, InvImplies, PTL

\* Never are two breakers latched at once.
THEOREM OneLatch == Spec => []OneLatchAtATime
BY Invariance, InvImplies, PTL

\* No halt stops de-risking: reduce-only orders and cancels are never answered
\* HaltAll, cancels always pass, and neither moves a latch (the exemptions of
\* check_all).
THEOREM DeRiskingUnhalted == Spec => DeRiskingIgnoresHalts
<1> DEFINE DeRisking ==
      last'.operation_kind \in {"ReduceOnly", "Cancel"} =>
        /\ last'.verdict # "HaltAll"
        /\ last'.breaker \notin Latching
        /\ last'.operation_kind = "Cancel" => last'.verdict = "Pass"
        /\ tripped' = tripped
<1>1. Inv /\ [Next]_vars => [DeRisking]_vars
  <2> SUFFICES ASSUME Inv, Next PROVE DeRisking
    OBVIOUS
  <2>1. ASSUME NEW ctx \in Contexts, CheckAll(ctx) PROVE DeRisking
    <3> DEFINE breaker == Objection(ctx)
               kind == ctx.operation_kind
               exempt == Exempt(kind)
    <3> SUFFICES ASSUME kind \in {"ReduceOnly", "Cancel"}
                 PROVE  /\ Verdict(breaker) # "HaltAll"
                        /\ breaker \notin Latching
                        /\ kind = "Cancel" => Verdict(breaker) = "Pass"
      BY <2>1 DEF CheckAll
    <3>1. tripped \subseteq Latching
      BY DEF Inv, TypeOK
    <3>2. exempt = IF kind = "Cancel" THEN Breaker ELSE {"CB-1", "CB-3", "CB-4", "CB-5"}
      BY DEF Exempt
    <3>3. Latching \subseteq exempt
      BY <3>2 DEF Latching, Breaker
    <3>4. breaker = None \/ breaker \in Breached(ctx) \ exempt
      BY <3>1, <3>3, ObjectionFacts
    <3>5. breaker \in (Breaker \ exempt) \cup {None}
      BY <3>4 DEF Breached
    <3>6. breaker \notin Latching
      BY <3>3, <3>5, CircuitBreakerBankAssumption DEF Latching, Breaker
    <3>7. kind = "Cancel" => breaker = None
      BY <3>2, <3>5
    <3>8. Verdict(breaker) # "HaltAll"
      BY <3>6 DEF Verdict, Latching
    <3> QED BY <3>6, <3>7, <3>8, VerdictFacts
  <2>2. ASSUME NEW b \in Breaker, NEW reason \in ResetReason, Reset(b, reason) PROVE DeRisking
    BY <2>2, CircuitBreakerBankAssumption DEF Reset, NoCall, OperationKind
  <2> QED BY <2>1, <2>2 DEF Next
<1> QED BY <1>1, Invariance, PTL DEF Spec, DeRiskingIgnoresHalts
=============================================================================
