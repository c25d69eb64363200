------------------------- MODULE OrderIntakeProofs -------------------------
(***************************************************************************)
(* Proofs about the bridge, the gate and the book for any agents,          *)
(* instruments, venues, limits, orders and signals.                        *)
(*                                                                         *)
(* First the gate's projection of one exposure.  Then sums: the book adds  *)
(* over agents, venues and instruments, and what a sum is for every finite *)
(* set comes from a least counterexample.  Then what a fill does to the    *)
(* figures of the book, what an approval says of them, and the theorems:   *)
(* the bridge meets the gate, the limits hold of the book up to what is    *)
(* approved and not in it yet, a resize is final.                          *)
(***************************************************************************)
EXTENDS OrderIntake, FiniteSetTheorems, WellFoundedInduction, TLAPS

\* The gross exposure after a trade, in terms of the two sides of the book: it
\* falls while the trade covers the opposite side and rises from there on.
GrossAfter(long, short, delta) ==
  IF delta >= 0
    THEN IF delta < short THEN long + short - delta ELSE long - short + delta
    ELSE IF -delta < long THEN long + short + delta ELSE short - long - delta

\* A trade is a part of another: same side, at most its size.
PartOf(part, whole) == IF whole >= 0 THEN part \in 0 .. whole ELSE -part \in 0 .. -whole

\* The projection recovers the two sides from net and gross.
LEMMA ProjectionOfSides ==
  ASSUME NEW long \in Nat, NEW short \in Nat, NEW delta \in Int, NEW net, NEW gross,
         net = long - short, gross = long + short
  PROVE  ProjectNetAndGross(net, gross, delta) =
           [net |-> net + delta, gross |-> GrossAfter(long, short, delta)]
<1>1. (gross + net) \div 2 = long /\ (gross - net) \div 2 = short
  OBVIOUS
<1>2. CASE delta >= 0
  BY <1>1, <1>2 DEF ProjectNetAndGross, Abs, GrossAfter
<1>3. CASE ~ (delta >= 0)
  BY <1>1, <1>3 DEF ProjectNetAndGross, Abs, GrossAfter
<1> QED BY <1>2, <1>3

\* While an order is filled in parts, the exposure stays at or below what it
\* was before the order or what evaluate projected for the whole of it: a limit
\* that both respect is respected all the way (project_net_and_gross).
THEOREM PartialFillStaysWithin ==
  ASSUME NEW long \in Nat, NEW short \in Nat, NEW whole \in Int, NEW part \in Int,
         PartOf(part, whole), NEW limit \in Int,
         NEW net, NEW gross, net = long - short, gross = long + short,
         gross <= limit,
         ProjectNetAndGross(net, gross, whole).gross <= limit
  PROVE  ProjectNetAndGross(net, gross, part).gross <= limit
<1>1. /\ ProjectNetAndGross(net, gross, whole).gross = GrossAfter(long, short, whole)
      /\ ProjectNetAndGross(net, gross, part).gross = GrossAfter(long, short, part)
  BY ProjectionOfSides
<1>2. GrossAfter(long, short, whole) <= limit => GrossAfter(long, short, part) <= limit
  BY DEF PartOf, GrossAfter
<1> QED BY <1>1, <1>2

\* Projecting the rest of an order from the book its first part left gives what
\* was projected for the whole of it: the parts an order is filled in, and how
\* often the gate looks in between, do not matter (project_net_and_gross).
THEOREM PartialFillsCompose ==
  ASSUME NEW long \in Nat, NEW short \in Nat, NEW whole \in Int, NEW part \in Int,
         PartOf(part, whole),
         NEW net, NEW gross, net = long - short, gross = long + short
  PROVE  LET first == ProjectNetAndGross(net, gross, part)
         IN  ProjectNetAndGross(first.net, first.gross, whole - part)
               = ProjectNetAndGross(net, gross, whole)
<1>1. \E l \in Nat, s \in Nat :
        /\ l - s = net + part
        /\ l + s = GrossAfter(long, short, part)
        /\ GrossAfter(l, s, whole - part) = GrossAfter(long, short, whole)
  <2> DEFINE covered == IF part >= 0 THEN IF part < short THEN part ELSE short
                                     ELSE IF -part < long THEN -part ELSE long
             l == IF part >= 0 THEN long + part - covered ELSE long - covered
             s == IF part >= 0 THEN short - covered ELSE short - part - covered
  <2>1. l \in Nat /\ s \in Nat
    OBVIOUS
  <2>2. l - s = net + part /\ l + s = GrossAfter(long, short, part)
    BY DEF GrossAfter
  <2>3. GrossAfter(l, s, whole - part) = GrossAfter(long, short, whole)
    BY DEF GrossAfter, PartOf
  <2> QED BY <2>1, <2>2, <2>3
<1>2. PICK l \in Nat, s \in Nat :
        /\ l - s = net + part
        /\ l + s = GrossAfter(long, short, part)
        /\ GrossAfter(l, s, whole - part) = GrossAfter(long, short, whole)
  BY <1>1
<1> DEFINE first == ProjectNetAndGross(net, gross, part)
<1>3. first.net = l - s /\ first.gross = l + s
  <2>1. first = [net |-> net + part, gross |-> GrossAfter(long, short, part)]
    BY ProjectionOfSides
  <2> HIDE DEF first
  <2> QED BY <1>2, <2>1
<1>4. ProjectNetAndGross(first.net, first.gross, whole - part)
        = [net |-> first.net + (whole - part), gross |-> GrossAfter(l, s, whole - part)]
  <2> HIDE DEF first
  <2> QED BY <1>3, ProjectionOfSides
<1>5. ProjectNetAndGross(net, gross, whole)
        = [net |-> net + whole, gross |-> GrossAfter(long, short, whole)]
  BY ProjectionOfSides
<1>6. first.net + (whole - part) = net + whole
  BY <1>2, <1>3
<1> QED BY <1>2, <1>4, <1>5, <1>6

\* One step of the recursion by which SumFunctionOnSet is defined.
SumStep(f, g, s) == IF s = {} THEN 0
                    ELSE LET x == CHOOSE x \in s : TRUE IN f[x] + g[s \ {x}]

\* g computes the sums of f over the sets of D.
Sums(f, g, D) == g = [s \in D |-> SumStep(f, g, s)]

\* A sum over a set is one value plus the sum over the rest.
LEMMA SumUnfold ==
  ASSUME NEW f, NEW S, \E g : Sums(f, g, SUBSET S)
  PROVE  \E g : Sums(f, g, SUBSET S) /\ SumFunctionOnSet(f, S) = g[S]
<1> DEFINE G == CHOOSE g : Sums(f, g, SUBSET S)
<1>1. Sums(f, G, SUBSET S)
  OBVIOUS
<1>2. SumFunctionOnSet(f, S) = G[S]
  BY DEF SumFunctionOnSet, FoldFunctionOnSet, MapThenFoldSet, SumStep, Sums
<1> HIDE DEF G
<1> QED BY <1>1, <1>2

\* What is true of zero, and of n whenever it is true of everything below n, is
\* true of every natural number: here as the least element of a set.
LEMMA LeastElement ==
  ASSUME NEW T, T \subseteq Nat, T # {}
  PROVE  \E x \in T : \A y \in T : x <= y
<1>1. \E x \in T : \A y \in T : ~ (<<y, x>> \in OpToRel(<, Nat))
  BY NatLessThanWellFounded, WFMin
<1>2. \A x \in T, y \in T : ~ (<<y, x>> \in OpToRel(<, Nat)) => x <= y
  BY DEF OpToRel
<1> QED BY <1>1, <1>2

\* Taking an element out of a finite set makes it smaller by one.
LEMMA SubsetCardinality ==
  ASSUME NEW S, IsFiniteSet(S), NEW s, s \subseteq S
  PROVE  /\ IsFiniteSet(s) /\ Cardinality(s) \in Nat /\ Cardinality(s) <= Cardinality(S)
         /\ Cardinality(s) = 0 <=> s = {}
         /\ \A x \in s : Cardinality(s \ {x}) = Cardinality(s) - 1
BY FS_Subset, FS_CardinalityType, FS_EmptySet, FS_RemoveElement

\* There is a function that computes the sums over all subsets of a finite set.
LEMMA SumsExist ==
  ASSUME NEW f, NEW S, IsFiniteSet(S)
  PROVE  \E g : Sums(f, g, SUBSET S)
<1> DEFINE Small(n) == {s \in SUBSET S : Cardinality(s) <= n}
           Bad == {n \in Nat : ~ \E g : Sums(f, g, Small(n))}
<1>1. Bad = {}
  <2> SUFFICES ASSUME Bad # {} PROVE FALSE
    OBVIOUS
  <2>1. Bad \subseteq Nat
    OBVIOUS
  <2>2. PICK n \in Bad : \A m \in Bad : n <= m
    <3> HIDE DEF Bad
    <3> QED BY <2>1, LeastElement
  <2>3. CASE n = 0
    <3> DEFINE g == [s \in Small(0) |-> 0]
    <3>1. \A s \in Small(0) : s = {}
      BY SubsetCardinality
    <3>2. \A s \in Small(0) : SumStep(f, g, s) = 0
      BY <3>1 DEF SumStep
    <3>3. Sums(f, g, Small(0))
      <4> HIDE DEF Small
      <4> QED BY <3>2 DEF Sums
    <3> QED BY <2>2, <2>3, <3>3
  <2>4. CASE n # 0
    <3>1. n \in Nat /\ n - 1 \in Nat /\ n - 1 \notin Bad
      <4> HIDE DEF Bad
      <4> QED BY <2>1, <2>2, <2>4
    <3>2. PICK g : Sums(f, g, Small(n - 1))
      BY <3>1
    <3> DEFINE h == [s \in Small(n) |-> SumStep(f, g, s)]
    <3>3. ASSUME NEW s \in Small(n)
          PROVE  SumStep(f, g, s) = SumStep(f, h, s)
      <4>1. CASE s = {}
        BY <4>1 DEF SumStep
      <4>2. CASE s # {}
        <5> DEFINE x == CHOOSE x \in s : TRUE
        <5>1. x \in s
          BY <4>2
        <5> HIDE DEF x
        <5>2. Cardinality(s \ {x}) = Cardinality(s) - 1 /\ Cardinality(s) \in Nat
          BY <5>1, SubsetCardinality
        <5>3. s \ {x} \in Small(n - 1) /\ s \ {x} \in Small(n)
          BY <3>1, <5>2
        <5>4. g[s \ {x}] = SumStep(f, g, s \ {x})
          <6> HIDE DEF Small
          <6> QED BY <3>2, <5>3 DEF Sums
        <5>5. h[s \ {x}] = SumStep(f, g, s \ {x})
          <6> HIDE DEF Small
          <6> QED BY <5>3
        <5>6. g[s \ {x}] = h[s \ {x}]
          BY <5>4, <5>5
        <5> HIDE DEF h
        <5> QED BY <4>2, <5>6 DEF SumStep, x
      <4> QED BY <4>1, <4>2
    <3>4. Sums(f, h, Small(n))
      <4> HIDE DEF Small
      <4> QED BY <3>3 DEF Sums
    <3> QED BY <2>2, <3>4
  <2> QED BY <2>3, <2>4
<1>2. Cardinality(S) \in Nat /\ Small(Cardinality(S)) = SUBSET S
  BY SubsetCardinality
<1>3. \E g : Sums(f, g, Small(Cardinality(S)))
  BY <1>1, <1>2
<1> QED BY <1>2, <1>3

\* SumFunction is the last of those sums.
LEMMA SumIsComputed ==
  ASSUME NEW f, NEW S, IsFiniteSet(S)
  PROVE  \E g : Sums(f, g, SUBSET S) /\ SumFunctionOnSet(f, S) = g[S]
BY SumsExist, SumUnfold

\* Some element of a set is taken out first, and nothing is the sum of none.
TakesOne(f, g, S) ==
  \A s \in SUBSET S : /\ s = {} => g[s] = 0
                      /\ s # {} => \E x \in s : g[s] = f[x] + g[s \ {x}]

\* The sums are numbers, and any element may be taken out first.
TakesAny(f, g, S) ==
  \A s \in SUBSET S : g[s] \in Int /\ \A y \in s : g[s] = f[y] + g[s \ {y}]

\* Computed sums take one element at a time.
LEMMA SumsStep ==
  ASSUME NEW f, NEW S, NEW g, Sums(f, g, SUBSET S)
  PROVE  TakesOne(f, g, S)
<1> SUFFICES ASSUME NEW s \in SUBSET S
             PROVE  /\ s = {} => g[s] = 0
                    /\ s # {} => \E x \in s : g[s] = f[x] + g[s \ {x}]
  BY DEF TakesOne
<1>1. g[s] = SumStep(f, g, s)
  BY DEF Sums
<1>2. CASE s # {}
  <2> DEFINE x == CHOOSE x \in s : TRUE
  <2>1. x \in s
    BY <1>2
  <2>2. g[s] = f[x] + g[s \ {x}]
    BY <1>1, <1>2 DEF SumStep
  <2> HIDE DEF x
  <2> QED BY <1>2, <2>1, <2>2
<1> QED BY <1>1, <1>2 DEF SumStep

\* Any element may be the one that is taken out first.
LEMMA SumsSplit ==
  ASSUME NEW f, NEW S, IsFiniteSet(S), NEW g, Sums(f, g, SUBSET S),
         \A x \in S : f[x] \in Int
  PROVE  TakesAny(f, g, S)
<1>0. \A s \in SUBSET S : /\ s = {} => g[s] = 0
                          /\ s # {} => \E x \in s : g[s] = f[x] + g[s \ {x}]
  <2>1. TakesOne(f, g, S)
    BY SumsStep
  <2> QED BY <2>1 DEF TakesOne
<1> DEFINE Good(s) == g[s] \in Int /\ \A y \in s : g[s] = f[y] + g[s \ {y}]
           Bad == {n \in Nat : \E s \in SUBSET S : Cardinality(s) = n /\ ~ Good(s)}
<1>1. Bad = {}
  <2> SUFFICES ASSUME Bad # {} PROVE FALSE
    OBVIOUS
  <2>1. Bad \subseteq Nat
    OBVIOUS
  <2>2. PICK n \in Bad : \A m \in Bad : n <= m
    <3> HIDE DEF Bad
    <3> QED BY <2>1, LeastElement
  <2>3. PICK s \in SUBSET S : Cardinality(s) = n /\ ~ Good(s)
    BY <2>2
  <2>4. \A t \in SUBSET S : Cardinality(t) \in Nat /\ Cardinality(t) < n => Good(t)
    <3> HIDE DEF Good
    <3> QED BY <2>2
  <2>5. s # {}
    BY <2>3, <1>0
  <2>6. PICK x \in s : g[s] = f[x] + g[s \ {x}]
    BY <2>5, <1>0
  <2>7. \A y \in s : /\ s \ {y} \in SUBSET S
                     /\ Cardinality(s \ {y}) \in Nat /\ Cardinality(s \ {y}) < n
    BY <2>3, SubsetCardinality
  <2>8. \A y \in s : Good(s \ {y})
    <3> HIDE DEF Good
    <3> QED BY <2>4, <2>7
  <2>9. g[s] \in Int
    BY <2>6, <2>8
  <2>10. ASSUME NEW y \in s PROVE g[s] = f[y] + g[s \ {y}]
    <3>1. CASE y = x
      BY <2>6, <3>1
    <3>2. CASE y # x
      <4>1. g[s \ {x}] = f[y] + g[(s \ {x}) \ {y}]
        BY <2>8, <3>2
      <4>2. g[s \ {y}] = f[x] + g[(s \ {y}) \ {x}]
        BY <2>8, <3>2
      <4>3. (s \ {x}) \ {y} = (s \ {y}) \ {x}
        OBVIOUS
      <4>4. (s \ {x}) \ {y} \in SUBSET S /\ Cardinality((s \ {x}) \ {y}) \in Nat
            /\ Cardinality((s \ {x}) \ {y}) < n
        <5>1. s \ {x} \in SUBSET S /\ y \in s \ {x}
          BY <3>2
        <5>2. /\ Cardinality((s \ {x}) \ {y}) = Cardinality(s \ {x}) - 1
              /\ Cardinality(s \ {x}) \in Nat
              /\ Cardinality((s \ {x}) \ {y}) \in Nat
          BY <5>1, SubsetCardinality
        <5>3. n \in Nat /\ Cardinality(s \ {x}) < n
          BY <2>1, <2>7
        <5> HIDE DEF Good, Bad
        <5> QED BY <5>1, <5>2, <5>3
      <4>5. g[(s \ {x}) \ {y}] \in Int
        BY <4>4, <2>4
      <4>6. f[x] \in Int /\ f[y] \in Int
        OBVIOUS
      <4>7. PICK r \in Int : r = g[(s \ {x}) \ {y}]
        BY <4>5
      <4>8. g[s \ {x}] = f[y] + r /\ g[s \ {y}] = f[x] + r
        BY <4>1, <4>2, <4>3, <4>7
      <4> HIDE DEF Good, Bad
      <4> QED BY <2>6, <4>6, <4>8
    <3> QED BY <3>1, <3>2
  <2> QED BY <2>3, <2>9, <2>10
<1>2. \A s \in SUBSET S : Cardinality(s) \in Nat
  BY SubsetCardinality
<1> HIDE DEF Good
<1>3. \A s \in SUBSET S : Good(s)
  BY <1>1, <1>2
<1> QED BY <1>3 DEF Good, TakesAny

SameOn(f, h, T) == \A x \in T : f[x] = h[x]

\* Functions that agree on a set have the same sum over it.
LEMMA SumsAgree ==
  ASSUME NEW f, NEW h, NEW S, IsFiniteSet(S), NEW g, Sums(f, g, SUBSET S),
         NEW k, Sums(h, k, SUBSET S), NEW T \in SUBSET S,
         SameOn(f, h, T)
  PROVE  g[T] = k[T]
<1>1. \A s \in SUBSET S :
        /\ s = {} => g[s] = 0 /\ k[s] = 0
        /\ s # {} => /\ g[s] = SumStep(f, g, s)
                     /\ k[s] = SumStep(h, k, s)
  BY DEF Sums, SumStep
<1> DEFINE Bad == {n \in Nat : \E s \in SUBSET T : Cardinality(s) = n /\ g[s] # k[s]}
<1>2. Bad = {}
  <2> SUFFICES ASSUME Bad # {} PROVE FALSE
    OBVIOUS
  <2>1. Bad \subseteq Nat
    OBVIOUS
  <2>2. PICK n \in Bad : \A m \in Bad : n <= m
    <3> HIDE DEF Bad
    <3> QED BY <2>1, LeastElement
  <2>3. PICK s \in SUBSET T : Cardinality(s) = n /\ g[s] # k[s]
    BY <2>2
  <2>4. s # {}
    BY <1>1, <2>3
  <2> DEFINE x == CHOOSE x \in s : TRUE
  <2>5. x \in s /\ f[x] = h[x]
    BY <2>4 DEF SameOn
  <2>6. g[s] = f[x] + g[s \ {x}] /\ k[s] = h[x] + k[s \ {x}]
    BY <1>1, <2>4 DEF SumStep
  <2> HIDE DEF x
  <2>7. Cardinality(s \ {x}) \in Nat /\ Cardinality(s \ {x}) < n /\ s \ {x} \in SUBSET T
    <3>1. n \in Nat
      BY <2>1
    <3>2. Cardinality(s \ {x}) = n - 1 /\ Cardinality(s \ {x}) \in Nat
      BY <2>3, <2>5, SubsetCardinality
    <3> HIDE DEF Bad
    <3> QED BY <3>1, <3>2
  <2>8. g[s \ {x}] = k[s \ {x}]
    <3>1. Cardinality(s \ {x}) \notin Bad
      <4> HIDE DEF Bad
      <4> QED BY <2>1, <2>2, <2>7
    <3> QED BY <3>1, <2>7
  <2> QED BY <2>3, <2>5, <2>6, <2>8
<1>3. Cardinality(T) \in Nat
  BY SubsetCardinality
<1> QED BY <1>2, <1>3

\* The sum of a function over a finite set is a number; the values at one
\* element may change while the rest of the sum stays.
LEMMA SumTyped ==
  ASSUME NEW S, IsFiniteSet(S), NEW f \in [S -> Int]
  PROVE  SumFunction(f) \in Int
<1>1. PICK g : Sums(f, g, SUBSET S) /\ SumFunctionOnSet(f, S) = g[S]
  BY SumIsComputed
<1>2. g[S] \in Int
  <2>1. TakesAny(f, g, S)
    BY <1>1, SumsSplit
  <2> QED BY <2>1 DEF TakesAny
<1> QED BY <1>1, <1>2 DEF SumFunction

\* Between f and h the sum moves by what it moves at x.
SumMoves(f, h, x) == SumFunction(h) = SumFunction(f) - f[x] + h[x]

\* Functions that agree but at x differ in their sums by what they differ at x.
LEMMA SumUpdate ==
  ASSUME NEW S, IsFiniteSet(S), NEW f \in [S -> Int], NEW h \in [S -> Int], NEW x \in S,
         SameOn(f, h, S \ {x})
  PROVE  SumMoves(f, h, x)
<1>1. PICK g : Sums(f, g, SUBSET S) /\ SumFunctionOnSet(f, S) = g[S]
  BY SumIsComputed
<1>2. PICK k : Sums(h, k, SUBSET S) /\ SumFunctionOnSet(h, S) = k[S]
  BY SumIsComputed
<1>4. g[S] = f[x] + g[S \ {x}] /\ g[S \ {x}] \in Int
  <2>1. TakesAny(f, g, S)
    BY <1>1, SumsSplit
  <2>2. S \in SUBSET S /\ S \ {x} \in SUBSET S
    OBVIOUS
  <2> QED BY <2>1, <2>2 DEF TakesAny
<1>5. k[S] = h[x] + k[S \ {x}]
  <2>1. TakesAny(h, k, S)
    BY <1>2, SumsSplit
  <2>2. S \in SUBSET S
    OBVIOUS
  <2> QED BY <2>1, <2>2 DEF TakesAny
<1>6. g[S \ {x}] = k[S \ {x}]
  <2>1. S \ {x} \in SUBSET S
    OBVIOUS
  <2> QED BY <1>1, <1>2, <2>1, SumsAgree
<1>7. f[x] \in Int /\ h[x] \in Int
  OBVIOUS
<1>8. SumFunction(f) = g[S] /\ SumFunction(h) = k[S]
  BY <1>1, <1>2 DEF SumFunction
<1>9. PICK r \in Int : r = g[S \ {x}]
  BY <1>4
<1>10. g[S] = f[x] + r /\ k[S] = h[x] + r
  BY <1>4, <1>5, <1>6, <1>9
<1> QED BY <1>7, <1>8, <1>10 DEF SumMoves

\* The sum of zeros is zero.
LEMMA SumOfZeros ==
  ASSUME NEW S, IsFiniteSet(S), NEW f \in [S -> Int], \A x \in S : f[x] = 0
  PROVE  SumFunction(f) = 0
<1>1. PICK g : Sums(f, g, SUBSET S) /\ SumFunctionOnSet(f, S) = g[S]
  BY SumIsComputed
<1>2. \A s \in SUBSET S : /\ s = {} => g[s] = 0
                          /\ s # {} => \E x \in s : g[s] = f[x] + g[s \ {x}]
  <2>1. TakesOne(f, g, S)
    BY <1>1, SumsStep
  <2> QED BY <2>1 DEF TakesOne
<1> DEFINE Bad == {n \in Nat : \E s \in SUBSET S : Cardinality(s) = n /\ g[s] # 0}
<1>3. Bad = {}
  <2> SUFFICES ASSUME Bad # {} PROVE FALSE
    OBVIOUS
  <2>1. Bad \subseteq Nat
    OBVIOUS
  <2>2. PICK n \in Bad : \A m \in Bad : n <= m
    <3> HIDE DEF Bad
    <3> QED BY <2>1, LeastElement
  <2>3. PICK s \in SUBSET S : Cardinality(s) = n /\ g[s] # 0
    BY <2>2
  <2>4. PICK x \in s : g[s] = f[x] + g[s \ {x}]
    BY <1>2, <2>3
  <2>5. Cardinality(s \ {x}) \in Nat /\ Cardinality(s \ {x}) < n /\ s \ {x} \in SUBSET S
    <3>1. n \in Nat
      BY <2>1
    <3>2. Cardinality(s \ {x}) = n - 1 /\ Cardinality(s \ {x}) \in Nat
      BY <2>3, <2>4, SubsetCardinality
    <3> HIDE DEF Bad
    <3> QED BY <3>1, <3>2
  <2>6. g[s \ {x}] = 0
    <3>1. Cardinality(s \ {x}) \notin Bad
      <4> HIDE DEF Bad
      <4> QED BY <2>1, <2>2, <2>5
    <3> QED BY <3>1, <2>5
  <2> QED BY <2>3, <2>4, <2>6
<1>4. Cardinality(S) \in Nat
  BY SubsetCardinality
<1>5. g[S] = 0
  BY <1>3, <1>4
<1> QED BY <1>1, <1>5 DEF SumFunction

AtMost(f, h, S) == \A x \in S : f[x] <= h[x]

\* Larger values have the larger sum.
LEMMA SumMonotone ==
  ASSUME NEW S, IsFiniteSet(S), NEW f \in [S -> Int], NEW h \in [S -> Int], AtMost(f, h, S)
  PROVE  SumFunction(f) <= SumFunction(h)
<1>1. PICK g : Sums(f, g, SUBSET S) /\ SumFunctionOnSet(f, S) = g[S]
  BY SumIsComputed
<1>2. PICK k : Sums(h, k, SUBSET S) /\ SumFunctionOnSet(h, S) = k[S]
  BY SumIsComputed
<1>3. TakesOne(f, g, S) /\ TakesAny(f, g, S)
  BY <1>1, SumsStep, SumsSplit
<1>4. TakesOne(h, k, S) /\ TakesAny(h, k, S)
  BY <1>2, SumsStep, SumsSplit
<1> DEFINE Bad == {n \in Nat : \E s \in SUBSET S : Cardinality(s) = n /\ ~ (g[s] <= k[s])}
<1>5. Bad = {}
  <2> SUFFICES ASSUME Bad # {} PROVE FALSE
    OBVIOUS
  <2>1. Bad \subseteq Nat
    OBVIOUS
  <2>2. PICK n \in Bad : \A m \in Bad : n <= m
    <3> HIDE DEF Bad
    <3> QED BY <2>1, LeastElement
  <2>3. PICK s \in SUBSET S : Cardinality(s) = n /\ ~ (g[s] <= k[s])
    BY <2>2
  <2>4. s # {}
    BY <1>3, <1>4, <2>3 DEF TakesOne
  <2>5. PICK x \in s : TRUE
    BY <2>4
  <2>6. /\ g[s] = f[x] + g[s \ {x}] /\ k[s] = h[x] + k[s \ {x}]
        /\ g[s \ {x}] \in Int /\ k[s \ {x}] \in Int
    <3>1. s \ {x} \in SUBSET S
      OBVIOUS
    <3> QED BY <1>3, <1>4, <2>5, <3>1 DEF TakesAny
  <2>7. Cardinality(s \ {x}) \in Nat /\ Cardinality(s \ {x}) < n /\ s \ {x} \in SUBSET S
    <3>1. n \in Nat
      BY <2>1
    <3>2. Cardinality(s \ {x}) = n - 1 /\ Cardinality(s \ {x}) \in Nat
      BY <2>3, <2>5, SubsetCardinality
    <3> HIDE DEF Bad
    <3> QED BY <3>1, <3>2
  <2>8. g[s \ {x}] <= k[s \ {x}]
    <3>1. Cardinality(s \ {x}) \notin Bad
      <4> HIDE DEF Bad
      <4> QED BY <2>1, <2>2, <2>7
    <3> QED BY <3>1, <2>7
  <2>9. f[x] <= h[x] /\ f[x] \in Int /\ h[x] \in Int
    BY <2>5 DEF AtMost
  <2>10. g[s] <= k[s]
    <3> HIDE DEF Bad
    <3> QED BY <2>6, <2>8, <2>9
  <2> QED BY <2>3, <2>10
<1>6. Cardinality(S) \in Nat
  BY SubsetCardinality
<1>7. g[S] <= k[S]
  BY <1>5, <1>6
<1> QED BY <1>1, <1>2, <1>7 DEF SumFunction

\* Values that are not negative have no negative sum.
LEMMA SumAtLeastZero ==
  ASSUME NEW S, IsFiniteSet(S), NEW c \in Nat, NEW x \in [S -> 0 .. c]
  PROVE  SumFunction(x) \in Int /\ SumFunction(x) >= 0
<1> DEFINE z == [s \in S |-> 0]
<1>1. x \in [S -> Int] /\ \A s \in S : x[s] \in Int /\ 0 <= x[s]
  OBVIOUS
<1>2. z \in [S -> Int] /\ \A s \in S : z[s] = 0
  OBVIOUS
<1>3. AtMost(z, x, S)
  BY <1>1 DEF AtMost
<1> HIDE DEF z
<1>4. SumFunction(z) <= SumFunction(x) /\ SumFunction(z) = 0
  BY <1>1, <1>2, <1>3, SumMonotone, SumOfZeros
<1>5. SumFunction(x) \in Int
  BY <1>1, SumTyped
<1> QED BY <1>4, <1>5

\* Values of at most c have a sum of at most c times their number; one that is
\* zero need not be counted.
LEMMA SumCapped ==
  ASSUME NEW S, IsFiniteSet(S), NEW c \in Nat, NEW f \in [S -> 0 .. c], NEW x \in S, f[x] = 0
  PROVE  SumFunction(f) \in Nat /\ SumFunction(f) <= (Cardinality(S) - 1) * c
<1>0. f \in [S -> Int] /\ \A y \in S : f[y] \in Int /\ 0 <= f[y] /\ f[y] <= c
  OBVIOUS
<1>1. PICK g : Sums(f, g, SUBSET S) /\ SumFunctionOnSet(f, S) = g[S]
  BY SumIsComputed
<1>2. TakesOne(f, g, S) /\ TakesAny(f, g, S)
  BY <1>0, <1>1, SumsStep, SumsSplit
<1> DEFINE Good(s) == g[s] \in Nat /\ g[s] <= Cardinality(s) * c
           Bad == {n \in Nat : \E s \in SUBSET S : Cardinality(s) = n /\ ~ Good(s)}
<1>3. Bad = {}
  <2> SUFFICES ASSUME Bad # {} PROVE FALSE
    OBVIOUS
  <2>1. Bad \subseteq Nat
    OBVIOUS
  <2>2. PICK n \in Bad : \A m \in Bad : n <= m
    <3> HIDE DEF Bad
    <3> QED BY <2>1, LeastElement
  <2>3. PICK s \in SUBSET S : Cardinality(s) = n /\ ~ Good(s)
    BY <2>2
  <2>4. s # {}
    <3> SUFFICES ASSUME s = {} PROVE Good(s)
      BY <2>3
    <3>1. g[s] = 0 /\ Cardinality(s) = 0
      BY <1>2, SubsetCardinality DEF TakesOne
    <3> QED BY <3>1
  <2>5. PICK y \in s : TRUE
    BY <2>4
  <2>6. g[s] = f[y] + g[s \ {y}] /\ g[s \ {y}] \in Int
    <3>1. s \ {y} \in SUBSET S
      OBVIOUS
    <3> QED BY <1>2, <2>5, <3>1 DEF TakesAny
  <2>7. /\ Cardinality(s \ {y}) \in Nat /\ Cardinality(s \ {y}) = n - 1 /\ s \ {y} \in SUBSET S
        /\ n \in Nat
    <3>1. n \in Nat
      BY <2>1
    <3>2. Cardinality(s \ {y}) = n - 1 /\ Cardinality(s \ {y}) \in Nat
      BY <2>3, <2>5, SubsetCardinality
    <3> QED BY <3>1, <3>2
  <2>8. Good(s \ {y})
    <3>1. Cardinality(s \ {y}) \notin Bad
      <4> HIDE DEF Bad
      <4> QED BY <2>1, <2>2, <2>7
    <3> HIDE DEF Good
    <3> QED BY <3>1, <2>7
  <2>9. Good(s)
    <3>1. n * c = (n - 1) * c + c /\ (n - 1) * c \in Int
      BY <2>7
    <3>2. PICK z \in Int : z = (n - 1) * c
      BY <3>1
    <3>3. g[s \ {y}] <= z /\ g[s \ {y}] \in Nat /\ n * c = z + c
      BY <2>7, <2>8, <3>1, <3>2
    <3>4. f[y] \in Int /\ 0 <= f[y] /\ f[y] <= c
      BY <1>0, <2>5
    <3>5. g[s] \in Nat /\ g[s] <= z + c
      <4> HIDE DEF Bad, Good
      <4> QED BY <2>6, <3>3, <3>4
    <3> QED BY <2>3, <3>3, <3>5
  <2> QED BY <2>3, <2>9
<1>4. \A s \in SUBSET S : Cardinality(s) \in Nat
  BY SubsetCardinality
<1>5. \A s \in SUBSET S : Good(s)
  <2> HIDE DEF Good
  <2> QED BY <1>3, <1>4
<1>6. S \ {x} \in SUBSET S /\ Cardinality(S \ {x}) = Cardinality(S) - 1
  BY SubsetCardinality
<1>7. g[S] = f[x] + g[S \ {x}]
  BY <1>2 DEF TakesAny
<1>8. g[S \ {x}] \in Nat /\ g[S \ {x}] <= (Cardinality(S) - 1) * c
  BY <1>5, <1>6
<1> QED BY <1>1, <1>7, <1>8 DEF SumFunction

\* A common factor may be taken out of a sum.
LEMMA SumScales ==
  ASSUME NEW S, IsFiniteSet(S), NEW f \in [S -> Int], NEW p \in Int,
         NEW h, h = [x \in S |-> p * f[x]]
  PROVE  SumFunction(h) = p * SumFunction(f)
<1>0. h \in [S -> Int] /\ \A x \in S : h[x] = p * f[x] /\ f[x] \in Int
  OBVIOUS
<1>1. PICK g : Sums(f, g, SUBSET S) /\ SumFunctionOnSet(f, S) = g[S]
  BY SumIsComputed
<1>2. PICK k : Sums(h, k, SUBSET S) /\ SumFunctionOnSet(h, S) = k[S]
  BY <1>0, SumIsComputed
<1>3. TakesOne(f, g, S) /\ TakesAny(f, g, S)
  BY <1>1, SumsStep, SumsSplit
<1>4. TakesOne(h, k, S) /\ TakesAny(h, k, S)
  BY <1>0, <1>2, SumsStep, SumsSplit
<1> DEFINE Bad == {n \in Nat : \E s \in SUBSET S : Cardinality(s) = n /\ k[s] # p * g[s]}
<1>5. Bad = {}
  <2> SUFFICES ASSUME Bad # {} PROVE FALSE
    OBVIOUS
  <2>1. Bad \subseteq Nat
    OBVIOUS
  <2>2. PICK n \in Bad : \A m \in Bad : n <= m
    <3> HIDE DEF Bad
    <3> QED BY <2>1, LeastElement
  <2>3. PICK s \in SUBSET S : Cardinality(s) = n /\ k[s] # p * g[s]
    BY <2>2
  <2>4. s # {}
    <3> SUFFICES ASSUME s = {} PROVE k[s] = p * g[s]
      BY <2>3
    <3>1. k[s] = 0 /\ g[s] = 0
      BY <1>3, <1>4 DEF TakesOne
    <3> QED BY <3>1
  <2>5. PICK x \in s : TRUE
    BY <2>4
  <2>6. /\ g[s] = f[x] + g[s \ {x}] /\ k[s] = h[x] + k[s \ {x}]
        /\ g[s \ {x}] \in Int /\ k[s \ {x}] \in Int
    <3>1. s \ {x} \in SUBSET S
      OBVIOUS
    <3> QED BY <1>3, <1>4, <2>5, <3>1 DEF TakesAny
  <2>7. Cardinality(s \ {x}) \in Nat /\ Cardinality(s \ {x}) < n /\ s \ {x} \in SUBSET S
    <3>1. n \in Nat
      BY <2>1
    <3>2. Cardinality(s \ {x}) = n - 1 /\ Cardinality(s \ {x}) \in Nat
      BY <2>3, <2>5, SubsetCardinality
    <3> HIDE DEF Bad
    <3> QED BY <3>1, <3>2
  <2>8. k[s \ {x}] = p * g[s \ {x}]
    <3>1. Cardinality(s \ {x}) \notin Bad
      <4> HIDE DEF Bad
      <4> QED BY <2>1, <2>2, <2>7
    <3> QED BY <3>1, <2>7
  <2>9. PICK y \in Int, z \in Int : y = f[x] /\ z = g[s \ {x}]
    BY <1>0, <2>5, <2>6
  <2>10. p * (y + z) = p * y + p * z
    OBVIOUS
  <2>11. k[s] = p * y + p * z /\ g[s] = y + z
    BY <1>0, <2>5, <2>6, <2>8, <2>9
  <2> QED BY <2>3, <2>10, <2>11
<1>6. Cardinality(S) \in Nat
  BY SubsetCardinality
<1>7. k[S] = p * g[S]
  BY <1>5, <1>6
<1> QED BY <1>1, <1>2, <1>7 DEF SumFunction

-----------------------------------------------------------------------------
(* Arithmetic *)

\* Multiplying by a natural number keeps the order.
LEMMA TimesMonotone ==
  ASSUME NEW p \in Nat, NEW m \in Int, NEW n \in Int, m <= n
  PROVE  p * m <= p * n
<1>1. PICK d \in Nat : n = m + d
  <2>1. n - m \in Nat /\ n = m + (n - m)
    OBVIOUS
  <2> QED BY <2>1
<1>2. p * n = p * m + p * d
  BY <1>1
<1>3. p * d \in Nat /\ p * m \in Int
  OBVIOUS
<1> QED BY <1>2, <1>3

\* An absolute value is a natural number.
LEMMA AbsTyped ==
  ASSUME NEW x \in Int
  PROVE  Abs(x) \in Nat
BY DEF Abs

\* Multiplying by a natural number commutes with the absolute value.
LEMMA TimesAbs ==
  ASSUME NEW p \in Nat, NEW x \in Int
  PROVE  /\ p * Abs(x) = Abs(p * x)
         /\ x >= 0 => p * x >= 0
         /\ x < 0 => p * x <= 0
         /\ p * x \in Int /\ p * Abs(x) \in Nat
<1>1. CASE x >= 0
  <2>1. p * x >= 0
    BY <1>1
  <2> QED BY <1>1, <2>1 DEF Abs
<1>2. CASE x < 0
  <2>1. p * (-x) = - (p * x) /\ p * (-x) >= 0
    BY <1>2
  <2>2. p * x <= 0 /\ p * x \in Int
    BY <2>1
  <2>3. Abs(x) = -x
    BY <1>2 DEF Abs
  <2>4. Abs(p * x) = - (p * x)
    BY <2>2 DEF Abs
  <2> QED BY <1>2, <2>1, <2>2, <2>3, <2>4
<1> QED BY <1>1, <1>2

\* q lots at p each are worth c at most.  At a mark m that is at most b per cent
\* of p they are worth more by at most what c is worth more at b per cent.
LEMMA WorthInBand ==
  ASSUME NEW m \in Nat, NEW p \in Nat, NEW q \in Nat, NEW c \in Nat, NEW b \in Nat,
         b >= 100, 100 * m <= b * p, p * q <= c
  PROVE  /\ m * q \in Nat /\ p * q \in Nat
         /\ m * q <= p * q + ((b * c) \div 100 - c)
         /\ m * q <= (b * c) \div 100
<1>1. PICK x \in Nat, y \in Nat, z \in Nat, d \in Nat :
        x = p * q /\ y = m * q /\ z = b * c /\ d = b - 100
  OBVIOUS
<1>2. q * (100 * m) <= q * (b * p)
  <2>1. 100 * m \in Int /\ b * p \in Int
    OBVIOUS
  <2> QED BY <2>1, TimesMonotone
<1>3. q * (100 * m) = 100 * y /\ q * (b * p) = b * x
  BY <1>1
<1>4. d * x <= d * c
  BY <1>1, TimesMonotone
<1>5. b * x = 100 * x + d * x /\ b * c = 100 * c + d * c
  <2>1. b = 100 + d
    BY <1>1
  <2> QED BY <2>1
<1>6. PICK u \in Nat, w \in Nat : u = d * x /\ w = d * c
  OBVIOUS
<1>7. 100 * y <= 100 * x + u /\ u <= w /\ z = 100 * c + w
  BY <1>1, <1>2, <1>3, <1>4, <1>5, <1>6
<1>8. y <= x + (z \div 100 - c) /\ y <= z \div 100
  BY <1>1, <1>7
<1> QED BY <1>1, <1>8

\* A rounded quotient is the whole part of it or one more.
LEMMA QuotientBounds ==
  ASSUME NEW n \in Int, NEW d \in Nat \ {0}
  PROVE  /\ Quotient(n, d) \in Int /\ n \div d \in Int
         /\ n \div d <= Quotient(n, d) /\ Quotient(n, d) <= n \div d + 1
BY DEF Quotient

\* A part of a trade ends nearer to zero than where it started, or than where
\* the whole of the trade ends.
LEMMA PartIsBetween ==
  ASSUME NEW x \in Int, NEW whole \in Int, NEW part \in Int, PartOf(part, whole)
  PROVE  \/ Abs(x + part) <= Abs(x)
         \/ Abs(x + part) <= Abs(x + whole)
BY DEF PartOf, Abs

\* The gate's projection of a position marked at p, of which the book gives the
\* sign and the notional: what it comes to with a trade worth w.
LEMMA ProjectedNotional ==
  ASSUME NEW p \in Nat \ {0}, NEW x \in Int, NEW w \in Int
  PROVE  ProjectNetAndGross(SignedValueFromNet(x, p * Abs(x)), p * Abs(x), w).gross
           = Abs(p * x + w)
<1>1. PICK u \in Int : u = p * x
  OBVIOUS
<1>2. p * Abs(x) = Abs(u)
  BY <1>1, TimesAbs
<1>3. SignedValueFromNet(x, p * Abs(x)) = u
  <2>1. CASE x >= 0
    BY <1>1, <1>2, <2>1, TimesAbs DEF SignedValueFromNet, Abs
  <2>2. CASE x < 0
    BY <1>1, <1>2, <2>2, TimesAbs DEF SignedValueFromNet, Abs
  <2> QED BY <2>1, <2>2
<1> DEFINE long == IF u >= 0 THEN u ELSE 0
           short == IF u >= 0 THEN 0 ELSE -u
<1>4. long \in Nat /\ short \in Nat /\ u = long - short /\ Abs(u) = long + short
  BY DEF Abs
<1>5. GrossAfter(long, short, w) = Abs(u + w)
  BY DEF GrossAfter, Abs
<1> HIDE DEF long, short
<1>6. ProjectNetAndGross(u, Abs(u), w) = [net |-> u + w, gross |-> GrossAfter(long, short, w)]
  BY <1>4, ProjectionOfSides
<1>7. ProjectNetAndGross(u, Abs(u), w).gross = Abs(u + w)
  BY <1>5, <1>6
<1> QED BY <1>1, <1>2, <1>3, <1>7

-----------------------------------------------------------------------------
(* The figures of the book *)

Positions == [Agents \X Instruments \X Venues -> Int]

\* The figures of the book are numbers.
LEMMA FiguresTyped ==
  ASSUME positions \in Positions
  PROVE  /\ \A a \in Agents, i \in Instruments : AgentQty(a, i) \in Int
         /\ \A v \in Venues, i \in Instruments : VenueQty(v, i) \in Int
         /\ \A i \in Instruments : FirmNetQty(i) \in Int /\ FirmGrossQty(i) \in Int
         /\ \A a \in Agents : AgentGross(a) \in Int
         /\ \A v \in Venues : VenueGross(v) \in Int
<1> USE OrderIntakeAssumption
<1>1. \A a \in Agents, i \in Instruments : AgentQty(a, i) \in Int
  <2> TAKE a \in Agents, i \in Instruments
  <2>1. [v \in Venues |-> positions[<<a, i, v>>]] \in [Venues -> Int]
    BY DEF Positions
  <2> QED BY <2>1, SumTyped DEF AgentQty
<1>2. \A v \in Venues, i \in Instruments : VenueQty(v, i) \in Int
  <2> TAKE v \in Venues, i \in Instruments
  <2>1. [a \in Agents |-> positions[<<a, i, v>>]] \in [Agents -> Int]
    BY DEF Positions
  <2> QED BY <2>1, SumTyped DEF VenueQty
<1>3. ASSUME NEW i \in Instruments PROVE FirmNetQty(i) \in Int /\ FirmGrossQty(i) \in Int
  <2>1. /\ [a \in Agents |-> AgentQty(a, i)] \in [Agents -> Int]
        /\ [a \in Agents |-> Abs(AgentQty(a, i))] \in [Agents -> Int]
    BY <1>1 DEF Abs
  <2> QED BY <2>1, SumTyped DEF FirmNetQty, FirmGrossQty
<1>4. ASSUME NEW a \in Agents PROVE AgentGross(a) \in Int
  <2>1. \A i \in Instruments : Price[i] * Abs(AgentQty(a, i)) \in Int
    BY <1>1 DEF Abs
  <2>2. [i \in Instruments |-> Price[i] * Abs(AgentQty(a, i))] \in [Instruments -> Int]
    BY <2>1
  <2> QED BY <2>2, SumTyped DEF AgentGross
<1>5. ASSUME NEW v \in Venues PROVE VenueGross(v) \in Int
  <2>1. \A i \in Instruments : Price[i] * Abs(VenueQty(v, i)) \in Int
    BY <1>2 DEF Abs
  <2>2. [i \in Instruments |-> Price[i] * Abs(VenueQty(v, i))] \in [Instruments -> Int]
    BY <2>1
  <2> QED BY <2>2, SumTyped DEF VenueGross
<1> QED BY <1>1, <1>2, <1>3, <1>4, <1>5

\* Nothing is held, so nothing is the sum of it.
LEMMA FiguresOfNothing ==
  ASSUME positions = [x \in Agents \X Instruments \X Venues |-> 0]
  PROVE  /\ \A a \in Agents, i \in Instruments : AgentQty(a, i) = 0
         /\ \A v \in Venues, i \in Instruments : VenueQty(v, i) = 0
         /\ \A i \in Instruments : FirmNetQty(i) = 0
         /\ \A a \in Agents : AgentGross(a) = 0
         /\ \A v \in Venues : VenueGross(v) = 0
<1> USE OrderIntakeAssumption
<1>1. \A a \in Agents, i \in Instruments : AgentQty(a, i) = 0
  <2> TAKE a \in Agents, i \in Instruments
  <2> DEFINE f == [v \in Venues |-> positions[<<a, i, v>>]]
  <2>1. f \in [Venues -> Int] /\ \A v \in Venues : f[v] = 0
    OBVIOUS
  <2> HIDE DEF f
  <2>2. SumFunction(f) = 0
    BY <2>1, SumOfZeros
  <2> QED BY <2>2 DEF AgentQty, f
<1>2. \A v \in Venues, i \in Instruments : VenueQty(v, i) = 0
  <2> TAKE v \in Venues, i \in Instruments
  <2> DEFINE f == [a \in Agents |-> positions[<<a, i, v>>]]
  <2>1. f \in [Agents -> Int] /\ \A a \in Agents : f[a] = 0
    OBVIOUS
  <2> HIDE DEF f
  <2>2. SumFunction(f) = 0
    BY <2>1, SumOfZeros
  <2> QED BY <2>2 DEF VenueQty, f
<1>3. \A i \in Instruments : FirmNetQty(i) = 0
  <2> TAKE i \in Instruments
  <2> DEFINE f == [a \in Agents |-> AgentQty(a, i)]
  <2>1. f \in [Agents -> Int] /\ \A a \in Agents : f[a] = 0
    BY <1>1
  <2> HIDE DEF f
  <2>2. SumFunction(f) = 0
    BY <2>1, SumOfZeros
  <2> QED BY <2>2 DEF FirmNetQty, f
<1>4. \A a \in Agents : AgentGross(a) = 0
  <2> TAKE a \in Agents
  <2> DEFINE f == [i \in Instruments |-> Price[i] * Abs(AgentQty(a, i))]
  <2>1. \A i \in Instruments : Price[i] * Abs(AgentQty(a, i)) = 0
    BY <1>1 DEF Abs
  <2>2. f \in [Instruments -> Int] /\ \A i \in Instruments : f[i] = 0
    BY <2>1
  <2> HIDE DEF f
  <2>3. SumFunction(f) = 0
    BY <2>2, SumOfZeros
  <2> QED BY <2>3 DEF AgentGross, f
<1>5. \A v \in Venues : VenueGross(v) = 0
  <2> TAKE v \in Venues
  <2> DEFINE f == [i \in Instruments |-> Price[i] * Abs(VenueQty(v, i))]
  <2>1. \A i \in Instruments : Price[i] * Abs(VenueQty(v, i)) = 0
    BY <1>2 DEF Abs
  <2>2. f \in [Instruments -> Int] /\ \A i \in Instruments : f[i] = 0
    BY <2>1
  <2> HIDE DEF f
  <2>3. SumFunction(f) = 0
    BY <2>2, SumOfZeros
  <2> QED BY <2>3 DEF VenueGross, f
<1> QED BY <1>1, <1>2, <1>3, <1>4, <1>5

\* d more of i, for agent a at venue v, moves the figures of that agent,
\* instrument and venue by d, and no others.
FiguresMove(a, i, v, d) ==
  /\ \A b \in Agents, j \in Instruments :
       AgentQty(b, j)' = IF b = a /\ j = i THEN AgentQty(b, j) + d ELSE AgentQty(b, j)
  /\ \A u \in Venues, j \in Instruments :
       VenueQty(u, j)' = IF u = v /\ j = i THEN VenueQty(u, j) + d ELSE VenueQty(u, j)
  /\ \A j \in Instruments :
       FirmNetQty(j)' = IF j = i THEN FirmNetQty(j) + d ELSE FirmNetQty(j)
  /\ \A b \in Agents :
       AgentGross(b)' =
         IF b = a THEN AgentGross(a) - Price[i] * Abs(AgentQty(a, i))
                         + Price[i] * Abs(AgentQty(a, i) + d)
         ELSE AgentGross(b)
  /\ \A u \in Venues :
       VenueGross(u)' =
         IF u = v THEN VenueGross(v) - Price[i] * Abs(VenueQty(v, i))
                         + Price[i] * Abs(VenueQty(v, i) + d)
         ELSE VenueGross(u)

\* That is what a fill does.
LEMMA FiguresAfterFill ==
  ASSUME positions \in Positions,
         NEW a \in Agents, NEW i \in Instruments, NEW v \in Venues, NEW d \in Int,
         positions' = [positions EXCEPT ![<<a, i, v>>] = @ + d]
  PROVE  positions' \in Positions /\ FiguresMove(a, i, v, d)
<1> USE OrderIntakeAssumption
<1>0. /\ positions' \in Positions
      /\ \A b \in Agents, j \in Instruments, u \in Venues :
           /\ positions[<<b, j, u>>] \in Int
           /\ positions'[<<b, j, u>>] = IF b = a /\ j = i /\ u = v
                                          THEN positions[<<b, j, u>>] + d
                                          ELSE positions[<<b, j, u>>]
  BY DEF Positions
<1>1. ASSUME NEW b \in Agents, NEW j \in Instruments
      PROVE  AgentQty(b, j)' = IF b = a /\ j = i THEN AgentQty(b, j) + d ELSE AgentQty(b, j)
  <2> DEFINE f == [u \in Venues |-> positions[<<b, j, u>>]]
             h == [u \in Venues |-> positions'[<<b, j, u>>]]
  <2>1. f \in [Venues -> Int]
    BY <1>0
  <2>2. AgentQty(b, j) = SumFunction(f) /\ AgentQty(b, j)' = SumFunction(h)
    BY DEF AgentQty
  <2>3. CASE b = a /\ j = i
    <3>1. h \in [Venues -> Int] /\ h[v] = f[v] + d /\ f[v] \in Int /\ SameOn(f, h, Venues \ {v})
      BY <1>0, <2>3 DEF SameOn
    <3> HIDE DEF f, h
    <3>2. SumMoves(f, h, v)
      BY <2>1, <3>1, SumUpdate
    <3>3. SumFunction(f) \in Int
      BY <2>1, SumTyped
    <3> QED BY <2>2, <2>3, <3>1, <3>2, <3>3 DEF SumMoves
  <2>4. CASE ~ (b = a /\ j = i)
    <3>1. h = f
      BY <1>0, <2>4
    <3> QED BY <2>2, <2>4, <3>1
  <2> QED BY <2>3, <2>4
<1>2. ASSUME NEW u \in Venues, NEW j \in Instruments
      PROVE  VenueQty(u, j)' = IF u = v /\ j = i THEN VenueQty(u, j) + d ELSE VenueQty(u, j)
  <2> DEFINE f == [b \in Agents |-> positions[<<b, j, u>>]]
             h == [b \in Agents |-> positions'[<<b, j, u>>]]
  <2>1. f \in [Agents -> Int]
    BY <1>0
  <2>2. VenueQty(u, j) = SumFunction(f) /\ VenueQty(u, j)' = SumFunction(h)
    BY DEF VenueQty
  <2>3. CASE u = v /\ j = i
    <3>1. h \in [Agents -> Int] /\ h[a] = f[a] + d /\ f[a] \in Int /\ SameOn(f, h, Agents \ {a})
      BY <1>0, <2>3 DEF SameOn
    <3> HIDE DEF f, h
    <3>2. SumMoves(f, h, a)
      BY <2>1, <3>1, SumUpdate
    <3>3. SumFunction(f) \in Int
      BY <2>1, SumTyped
    <3> QED BY <2>2, <2>3, <3>1, <3>2, <3>3 DEF SumMoves
  <2>4. CASE ~ (u = v /\ j = i)
    <3>1. h = f
      BY <1>0, <2>4
    <3> QED BY <2>2, <2>4, <3>1
  <2> QED BY <2>3, <2>4
<1>3. /\ \A b \in Agents, j \in Instruments : AgentQty(b, j) \in Int /\ AgentQty(b, j)' \in Int
      /\ \A u \in Venues, j \in Instruments : VenueQty(u, j) \in Int /\ VenueQty(u, j)' \in Int
  <2>1. /\ \A b \in Agents, j \in Instruments : AgentQty(b, j) \in Int
        /\ \A u \in Venues, j \in Instruments : VenueQty(u, j) \in Int
    BY FiguresTyped
  <2> QED BY <1>1, <1>2, <2>1
<1>4. ASSUME NEW j \in Instruments
      PROVE  FirmNetQty(j)' = IF j = i THEN FirmNetQty(j) + d ELSE FirmNetQty(j)
  <2> DEFINE f == [b \in Agents |-> AgentQty(b, j)]
             h == [b \in Agents |-> AgentQty(b, j)']
  <2>1. f \in [Agents -> Int]
    BY <1>3
  <2>2. FirmNetQty(j) = SumFunction(f) /\ FirmNetQty(j)' = SumFunction(h)
    BY DEF FirmNetQty
  <2>3. CASE j = i
    <3>1. h \in [Agents -> Int] /\ h[a] = f[a] + d /\ f[a] \in Int /\ SameOn(f, h, Agents \ {a})
      BY <1>1, <1>3, <2>3 DEF SameOn
    <3> HIDE DEF f, h
    <3>2. SumMoves(f, h, a)
      BY <2>1, <3>1, SumUpdate
    <3>3. SumFunction(f) \in Int
      BY <2>1, SumTyped
    <3> QED BY <2>2, <2>3, <3>1, <3>2, <3>3 DEF SumMoves
  <2>4. CASE j # i
    <3>1. h = f
      BY <1>1, <2>4
    <3> QED BY <2>2, <2>4, <3>1
  <2> QED BY <2>3, <2>4
<1>5. ASSUME NEW b \in Agents
      PROVE  AgentGross(b)' =
                IF b = a THEN AgentGross(a) - Price[i] * Abs(AgentQty(a, i))
                                + Price[i] * Abs(AgentQty(a, i) + d)
                ELSE AgentGross(b)
  <2> DEFINE f == [j \in Instruments |-> Price[j] * Abs(AgentQty(b, j))]
             h == [j \in Instruments |-> Price[j] * Abs(AgentQty(b, j)')]
             y == Price[i] * Abs(AgentQty(a, i) + d)
  <2>1. f \in [Instruments -> Int] /\ y \in Int
    <3>1. \A j \in Instruments : Price[j] * Abs(AgentQty(b, j)) \in Int
      BY <1>3 DEF Abs
    <3>2. y \in Int
      BY <1>3 DEF Abs
    <3> QED BY <3>1, <3>2
  <2>2. AgentGross(b) = SumFunction(f) /\ AgentGross(b)' = SumFunction(h)
    BY DEF AgentGross, Abs
  <2>3. CASE b = a
    <3>1. /\ \A j \in Instruments : h[j] = IF j = i THEN y ELSE f[j]
          /\ f[i] = Price[i] * Abs(AgentQty(a, i))
      BY <1>1, <2>3
    <3>2. h \in [Instruments -> Int] /\ SameOn(f, h, Instruments \ {i}) /\ h[i] = y
      <4>1. DOMAIN h = Instruments /\ h = [j \in Instruments |-> h[j]]
        OBVIOUS
      <4> HIDE DEF f, h, y
      <4> QED BY <2>1, <3>1, <4>1 DEF SameOn
    <3> HIDE DEF f, h, y
    <3>3. SumMoves(f, h, i)
      BY <2>1, <3>2, SumUpdate
    <3>4. SumFunction(h) = SumFunction(f) - Price[i] * Abs(AgentQty(a, i)) + y
      BY <3>1, <3>2, <3>3 DEF SumMoves
    <3> QED BY <2>2, <2>3, <3>4 DEF y
  <2>4. CASE b # a
    <3>1. h = f
      BY <1>1, <2>4
    <3> QED BY <2>2, <2>4, <3>1
  <2> QED BY <2>3, <2>4
<1>6. ASSUME NEW u \in Venues
      PROVE  VenueGross(u)' =
                IF u = v THEN VenueGross(v) - Price[i] * Abs(VenueQty(v, i))
                                + Price[i] * Abs(VenueQty(v, i) + d)
                ELSE VenueGross(u)
  <2> DEFINE f == [j \in Instruments |-> Price[j] * Abs(VenueQty(u, j))]
             h == [j \in Instruments |-> Price[j] * Abs(VenueQty(u, j)')]
             y == Price[i] * Abs(VenueQty(v, i) + d)
  <2>1. f \in [Instruments -> Int] /\ y \in Int
    <3>1. \A j \in Instruments : Price[j] * Abs(VenueQty(u, j)) \in Int
      BY <1>3 DEF Abs
    <3>2. y \in Int
      BY <1>3 DEF Abs
    <3> QED BY <3>1, <3>2
  <2>2. VenueGross(u) = SumFunction(f) /\ VenueGross(u)' = SumFunction(h)
    BY DEF VenueGross, Abs
  <2>3. CASE u = v
    <3>1. /\ \A j \in Instruments : h[j] = IF j = i THEN y ELSE f[j]
          /\ f[i] = Price[i] * Abs(VenueQty(v, i))
      BY <1>2, <2>3
    <3>2. h \in [Instruments -> Int] /\ SameOn(f, h, Instruments \ {i}) /\ h[i] = y
      <4>1. DOMAIN h = Instruments /\ h = [j \in Instruments |-> h[j]]
        OBVIOUS
      <4> HIDE DEF f, h, y
      <4> QED BY <2>1, <3>1, <4>1 DEF SameOn
    <3> HIDE DEF f, h, y
    <3>3. SumMoves(f, h, i)
      BY <2>1, <3>2, SumUpdate
    <3>4. SumFunction(h) = SumFunction(f) - Price[i] * Abs(VenueQty(v, i)) + y
      BY <3>1, <3>2, <3>3 DEF SumMoves
    <3> QED BY <2>2, <2>3, <3>4 DEF y
  <2>4. CASE u # v
    <3>1. h = f
      BY <1>2, <2>4
    <3> QED BY <2>2, <2>4, <3>1
  <2> QED BY <2>3, <2>4
<1> QED BY <1>0, <1>1, <1>2, <1>4, <1>5, <1>6 DEF FiguresMove

\* Figures of the book move with the positions only.
LEMMA FiguresUnchanged ==
  ASSUME UNCHANGED positions
  PROVE  /\ \A a, i : AgentQty(a, i)' = AgentQty(a, i)
         /\ \A v, i : VenueQty(v, i)' = VenueQty(v, i)
         /\ \A i : FirmNetQty(i)' = FirmNetQty(i)
         /\ \A a : AgentGross(a)' = AgentGross(a)
         /\ \A v : VenueGross(v)' = VenueGross(v)
<1>1. \A a, i : AgentQty(a, i)' = AgentQty(a, i)
  BY DEF AgentQty
<1>2. \A v, i : VenueQty(v, i)' = VenueQty(v, i)
  BY DEF VenueQty
<1> QED BY <1>1, <1>2 DEF FirmNetQty, AgentGross, VenueGross

-----------------------------------------------------------------------------
(* The two sides of the firm's book *)

\* f is the combination of h and k, added or subtracted.
Adds(f, h, k, S) == \A x \in S : h[x] \in Nat /\ k[x] \in Nat /\ f[x] = h[x] + k[x]
Subtracts(f, h, k, S) == \A x \in S : h[x] \in Nat /\ k[x] \in Nat /\ f[x] = h[x] - k[x]

\* The sums of two sides, of what they add up to and of their difference.
SidesAddUp(f, e, h, k) ==
  /\ SumFunction(h) \in Nat /\ SumFunction(k) \in Nat
  /\ SumFunction(f) = SumFunction(h) + SumFunction(k)
  /\ SumFunction(e) = SumFunction(h) - SumFunction(k)

\* Net and gross over all agents are the difference and the sum of two sides.
LEMMA SumOfSides ==
  ASSUME NEW S, IsFiniteSet(S), NEW f, NEW e, NEW h, NEW k,
         DOMAIN f = S, DOMAIN e = S, DOMAIN h = S, DOMAIN k = S,
         Adds(f, h, k, S), Subtracts(e, h, k, S)
  PROVE  SidesAddUp(f, e, h, k)
<1>1. PICK F : Sums(f, F, SUBSET S) /\ SumFunctionOnSet(f, S) = F[S]
  BY SumIsComputed
<1>2. PICK E : Sums(e, E, SUBSET S) /\ SumFunctionOnSet(e, S) = E[S]
  BY SumIsComputed
<1>3. PICK H : Sums(h, H, SUBSET S) /\ SumFunctionOnSet(h, S) = H[S]
  BY SumIsComputed
<1>4. PICK K : Sums(k, K, SUBSET S) /\ SumFunctionOnSet(k, S) = K[S]
  BY SumIsComputed
<1> DEFINE Good(s) == H[s] \in Nat /\ K[s] \in Nat /\ F[s] = H[s] + K[s] /\ E[s] = H[s] - K[s]
           Bad == {n \in Nat : \E s \in SUBSET S : Cardinality(s) = n /\ ~ Good(s)}
<1>5. Bad = {}
  <2> SUFFICES ASSUME Bad # {} PROVE FALSE
    OBVIOUS
  <2>1. Bad \subseteq Nat
    OBVIOUS
  <2>2. PICK n \in Bad : \A m \in Bad : n <= m
    <3> HIDE DEF Bad
    <3> QED BY <2>1, LeastElement
  <2>3. PICK s \in SUBSET S : Cardinality(s) = n /\ ~ Good(s)
    BY <2>2
  <2>4. /\ F[s] = SumStep(f, F, s) /\ E[s] = SumStep(e, E, s)
        /\ H[s] = SumStep(h, H, s) /\ K[s] = SumStep(k, K, s)
    BY <1>1, <1>2, <1>3, <1>4 DEF Sums
  <2>5. CASE s = {}
    <3>1. F[s] = 0 /\ E[s] = 0 /\ H[s] = 0 /\ K[s] = 0
      BY <2>4, <2>5 DEF SumStep
    <3> QED BY <2>3, <3>1
  <2>6. CASE s # {}
    <3> DEFINE x == CHOOSE x \in s : TRUE
    <3>1. x \in s /\ x \in S
      BY <2>6
    <3>2. /\ F[s] = f[x] + F[s \ {x}] /\ E[s] = e[x] + E[s \ {x}]
          /\ H[s] = h[x] + H[s \ {x}] /\ K[s] = k[x] + K[s \ {x}]
      BY <2>4, <2>6 DEF SumStep
    <3> HIDE DEF x
    <3>3. Cardinality(s \ {x}) \in Nat /\ Cardinality(s \ {x}) < n /\ s \ {x} \in SUBSET S
      <4>1. n \in Nat
        BY <2>1
      <4>2. Cardinality(s \ {x}) = n - 1 /\ Cardinality(s \ {x}) \in Nat
        BY <2>3, <3>1, SubsetCardinality
      <4> HIDE DEF Bad
      <4> QED BY <4>1, <4>2
    <3>4. Good(s \ {x})
      <4>1. Cardinality(s \ {x}) \notin Bad
        <5> HIDE DEF Bad
        <5> QED BY <2>1, <2>2, <3>3
      <4> HIDE DEF Good
      <4> QED BY <4>1, <3>3
    <3>5. h[x] \in Nat /\ k[x] \in Nat /\ f[x] = h[x] + k[x] /\ e[x] = h[x] - k[x]
      BY <3>1 DEF Adds, Subtracts
    <3>6. PICK t : t = s \ {x}
      OBVIOUS
    <3>7. Good(s)
      <4>1. /\ F[s] = f[x] + F[t] /\ E[s] = e[x] + E[t]
            /\ H[s] = h[x] + H[t] /\ K[s] = k[x] + K[t]
        BY <3>2, <3>6
      <4>2. H[t] \in Nat /\ K[t] \in Nat /\ F[t] = H[t] + K[t] /\ E[t] = H[t] - K[t]
        BY <3>4, <3>6
      <4> QED BY <3>5, <4>1, <4>2
    <3> QED BY <2>3, <3>7
  <2> QED BY <2>5, <2>6
<1>6. Cardinality(S) \in Nat
  BY SubsetCardinality
<1>7. Good(S)
  <2> HIDE DEF Good
  <2> QED BY <1>5, <1>6
<1> QED BY <1>1, <1>2, <1>3, <1>4, <1>7 DEF SidesAddUp, SumFunction

\* The firm's net and gross quantities come from a long and a short side.
LEMMA FirmHasSides ==
  ASSUME positions \in Positions, NEW i \in Instruments
  PROVE  \E long \in Nat, short \in Nat :
           FirmNetQty(i) = long - short /\ FirmGrossQty(i) = long + short
<1> DEFINE e == [a \in Agents |-> AgentQty(a, i)]
           f == [a \in Agents |-> Abs(AgentQty(a, i))]
           h == [a \in Agents |-> IF AgentQty(a, i) >= 0 THEN AgentQty(a, i) ELSE 0]
           k == [a \in Agents |-> IF AgentQty(a, i) >= 0 THEN 0 ELSE - AgentQty(a, i)]
<1>1. \A a \in Agents : AgentQty(a, i) \in Int
  BY FiguresTyped
<1>2. Adds(f, h, k, Agents) /\ Subtracts(e, h, k, Agents)
  BY <1>1 DEF Adds, Subtracts, Abs
<1>3. DOMAIN e = Agents /\ DOMAIN f = Agents /\ DOMAIN h = Agents /\ DOMAIN k = Agents
  OBVIOUS
<1>4. SumFunction(e) = FirmNetQty(i) /\ SumFunction(f) = FirmGrossQty(i)
  BY DEF FirmNetQty, FirmGrossQty
<1> HIDE DEF e, f, h, k
<1>5. SidesAddUp(f, e, h, k)
  BY <1>2, <1>3, SumOfSides, OrderIntakeAssumption
<1> QED BY <1>4, <1>5 DEF SidesAddUp

\* A net and a gross exposure that come from a long and a short side.
HasSides(net, gross) ==
  \E long \in Nat, short \in Nat : net = long - short /\ gross = long + short

\* Whatever the sides, the gross that is projected is the projected net at least.
LEMMA GrossAtLeastNet ==
  ASSUME NEW net, NEW gross, HasSides(net, gross), NEW delta \in Int,
         NEW p, p = ProjectNetAndGross(net, gross, delta)
  PROVE  /\ p.net = net + delta /\ p.gross \in Int
         /\ Abs(net + delta) <= p.gross /\ Abs(net + delta) \in Int
<1>1. PICK long \in Nat, short \in Nat : net = long - short /\ gross = long + short
  BY DEF HasSides
<1>2. p = [net |-> net + delta, gross |-> GrossAfter(long, short, delta)]
  BY <1>1, ProjectionOfSides
<1>3. p.net = net + delta /\ p.gross = GrossAfter(long, short, delta)
  BY <1>2
<1>4. /\ GrossAfter(long, short, delta) \in Int
      /\ Abs((long - short) + delta) <= GrossAfter(long, short, delta)
      /\ Abs((long - short) + delta) \in Int
  BY DEF GrossAfter, Abs
<1> QED BY <1>1, <1>3, <1>4

-----------------------------------------------------------------------------
(* What the gate approves *)

\* The signed quantity of an order.
Signed(core) == SignedDelta(core.side, core.qty)

\* A gross exposure that respects the limits of agent a, traded on the leverage
\* of instrument i.
GrossWithin(a, gross, i) ==
  /\ gross <= agent_limits[a].max_gross_notional
  /\ gross < allocated_capital[a]
  /\ gross <= instrument_limits[i].max_leverage * (allocated_capital[a] - gross)

\* The signed value of an order at its own price.
Value(core) == SignedDelta(core.side, core.qty * core.price)

\* The gross exposures of an agent and of a venue as the gate projects them,
\* after a trade in i worth w.
AgentGrossAfter(a, i, w) ==
  AgentGross(a) - Price[i] * Abs(AgentQty(a, i)) + Abs(Price[i] * AgentQty(a, i) + w)

VenueGrossAfter(v, i, w) ==
  VenueGross(v) - Price[i] * Abs(VenueQty(v, i)) + Abs(Price[i] * VenueQty(v, i) + w)

\* The book after d more of i worth w, for agent a at venue v, is within the
\* limits as the gate projects it.
WithinAfter(a, i, v, d, w) ==
  /\ GrossWithin(a, AgentGrossAfter(a, i, w), i)
  /\ Abs(Price[i] * AgentQty(a, i) + w) <= agent_limits[a].max_position_notional
  /\ Abs(FirmNetQty(i) + d) <= instrument_limits[i].max_net_qty
  /\ Abs(FirmNetQty(i) + d) <= instrument_limits[i].max_gross_qty
  /\ 100 * Abs(Price[i] * FirmNetQty(i) + w) <= instrument_limits[i].max_concentration_pct * Nav
  /\ VenueGrossAfter(v, i, w) <= venue_limits[v].max_notional
  /\ 100 * VenueGrossAfter(v, i, w) <= venue_limits[v].max_pct_of_nav * Nav
  /\ Cardinality(HeldAt(v) \cup {i}) <= venue_limits[v].max_positions
  /\ 100 * (cash - w) >= cash_reserve_min_pct * Nav

FillsWithin(core) ==
  WithinAfter(core.agent_id, core.instrument_id, core.venue_id, Signed(core), Value(core))

\* An order priced at the mark.
AtMark(core) == core.price = Price[core.instrument_id]

\* What the gate reads in the book of one agent, instrument and venue.
LEMMA BookFigures ==
  ASSUME NEW a \in Agents, NEW i \in Instruments, NEW v \in Venues
  PROVE  /\ FirmBook.nav = Nav
         /\ FirmBook.cash_available = cash
         /\ DOMAIN FirmBook.allocations = Agents
         /\ FirmBook.allocations[a].allocated_capital = allocated_capital[a]
         /\ FirmBook.allocations[a].used_capital = AgentGross(a)
         /\ FirmBook.instruments[i].net_qty = FirmNetQty(i)
         /\ FirmBook.instruments[i].gross_qty = FirmGrossQty(i)
         /\ FirmBook.instruments[i].net_notional = Price[i] * FirmNetQty(i)
         /\ FirmBook.instruments[i].gross_notional = Price[i] * FirmGrossQty(i)
         /\ FirmBook.by_agent[<<a, i>>].net_qty = AgentQty(a, i)
         /\ FirmBook.by_agent[<<a, i>>].notional = Price[i] * Abs(AgentQty(a, i))
         /\ FirmBook.by_venue[<<v, i>>].net_qty = VenueQty(v, i)
         /\ FirmBook.by_venue[<<v, i>>].notional = Price[i] * Abs(VenueQty(v, i))
         /\ FirmBook.by_venue[<<v, i>>].held <=> i \in HeldAt(v)
<1>1. /\ FirmBook.nav = Nav
      /\ FirmBook.cash_available = cash
      /\ FirmBook.allocations = [b \in Agents |->
           [allocated_capital |-> allocated_capital[b], used_capital |-> AgentGross(b)]]
  BY DEF FirmBook
<1>2. FirmBook.instruments = [j \in Instruments |->
        [net_qty |-> FirmNetQty(j), gross_qty |-> FirmGrossQty(j),
         net_notional |-> Price[j] * FirmNetQty(j),
         gross_notional |-> Price[j] * FirmGrossQty(j)]]
  BY DEF FirmBook
<1>3. FirmBook.by_agent = [x \in Agents \X Instruments |->
        [net_qty |-> AgentQty(x[1], x[2]), notional |-> Price[x[2]] * Abs(AgentQty(x[1], x[2]))]]
  BY DEF FirmBook
<1>4. FirmBook.by_venue = [x \in Venues \X Instruments |->
        [net_qty |-> VenueQty(x[1], x[2]), notional |-> Price[x[2]] * Abs(VenueQty(x[1], x[2])),
         held |-> VenueQty(x[1], x[2]) # 0]]
  BY DEF FirmBook
<1>5. <<a, i>> \in Agents \X Instruments /\ <<v, i>> \in Venues \X Instruments
  OBVIOUS
<1>6. /\ FirmBook.by_agent[<<a, i>>].net_qty = AgentQty(a, i)
      /\ FirmBook.by_agent[<<a, i>>].notional = Price[i] * Abs(AgentQty(a, i))
  BY <1>3, <1>5
<1>7. /\ FirmBook.by_venue[<<v, i>>].net_qty = VenueQty(v, i)
      /\ FirmBook.by_venue[<<v, i>>].notional = Price[i] * Abs(VenueQty(v, i))
  BY <1>4, <1>5
<1>8. /\ FirmBook.instruments[i].net_qty = FirmNetQty(i)
      /\ FirmBook.instruments[i].gross_qty = FirmGrossQty(i)
      /\ FirmBook.instruments[i].net_notional = Price[i] * FirmNetQty(i)
      /\ FirmBook.instruments[i].gross_notional = Price[i] * FirmGrossQty(i)
  BY <1>2
<1>10. FirmBook.by_venue[<<v, i>>].held <=> i \in HeldAt(v)
  <2>1. FirmBook.by_venue[<<v, i>>].held = (VenueQty(v, i) # 0)
    BY <1>4, <1>5
  <2> QED BY <2>1 DEF HeldAt
<1>9. /\ DOMAIN FirmBook.allocations = Agents
      /\ FirmBook.allocations[a].allocated_capital = allocated_capital[a]
      /\ FirmBook.allocations[a].used_capital = AgentGross(a)
  BY <1>1
<1> QED BY <1>1, <1>6, <1>7, <1>8, <1>9, <1>10

\* The projection of an order: every figure the limits are about, and for the
\* gross of an instrument that it is the net at least.
LEMMA ProjectedFigures ==
  ASSUME positions \in Positions, NEW core \in OrderCores, core.price \in Nat \ {0},
         NEW p, p = Projected(core, FirmBook),
         NEW a, a = core.agent_id, NEW i, i = core.instrument_id, NEW v, v = core.venue_id,
         NEW d, d = Signed(core), NEW w, w = Value(core)
  PROVE  /\ p.agent_gross = AgentGrossAfter(a, i, w)
         /\ p.free_capital = allocated_capital[a] - AgentGrossAfter(a, i, w)
         /\ p.agent_instrument_gross = Abs(Price[i] * AgentQty(a, i) + w)
         /\ p.net_qty = FirmNetQty(i) + d
         /\ Abs(FirmNetQty(i) + d) <= p.gross_qty /\ p.gross_qty \in Int
         /\ Abs(FirmNetQty(i) + d) \in Int
         /\ Abs(Price[i] * FirmNetQty(i) + w) <= p.instrument_gross /\ p.instrument_gross \in Int
         /\ Abs(Price[i] * FirmNetQty(i) + w) \in Int
         /\ p.venue_notional = VenueGrossAfter(v, i, w)
         /\ p.venue_positions = Cardinality(HeldAt(v) \cup {i})
         /\ p.cash = cash - w
<1> USE OrderIntakeAssumption
<1>1. /\ a \in Agents /\ i \in Instruments /\ v \in Venues /\ core.qty \in Int
      /\ core.side \in {"Buy", "Sell"} /\ Price[i] \in Nat \ {0}
  BY DEF OrderCores
<1>2. w \in Int /\ d \in Int
  BY <1>1 DEF Value, Signed, SignedDelta
<1>3. AgentQty(a, i) \in Int /\ VenueQty(v, i) \in Int /\ FirmNetQty(i) \in Int
  BY <1>1, FiguresTyped
<1> DEFINE own == FirmBook.by_agent[<<a, i>>]
           there == FirmBook.by_venue[<<v, i>>]
           exposure == FirmBook.instruments[i]
           venue == [j \in Instruments |-> FirmBook.by_venue[<<v, j>>].notional]
           held == {j \in Instruments : FirmBook.by_venue[<<v, j>>].held}
           of_agent == ProjectNetAndGross(SignedValueFromNet(own.net_qty, own.notional),
                                          own.notional, w)
           at_venue == ProjectNetAndGross(SignedValueFromNet(there.net_qty, there.notional),
                                          there.notional, w)
           by_qty == ProjectNetAndGross(exposure.net_qty, exposure.gross_qty, d)
           by_value == ProjectNetAndGross(exposure.net_notional, exposure.gross_notional, w)
<1>4. /\ own.net_qty = AgentQty(a, i) /\ own.notional = Price[i] * Abs(AgentQty(a, i))
      /\ there.net_qty = VenueQty(v, i) /\ there.notional = Price[i] * Abs(VenueQty(v, i))
      /\ exposure.net_qty = FirmNetQty(i) /\ exposure.gross_qty = FirmGrossQty(i)
      /\ exposure.net_notional = Price[i] * FirmNetQty(i)
      /\ exposure.gross_notional = Price[i] * FirmGrossQty(i)
      /\ FirmBook.allocations[a].allocated_capital = allocated_capital[a]
      /\ FirmBook.allocations[a].used_capital = AgentGross(a)
      /\ FirmBook.cash_available = cash
      /\ there.held <=> i \in HeldAt(v)
  BY <1>1, BookFigures
<1>5. venue = [j \in Instruments |-> Price[j] * Abs(VenueQty(v, j))]
  <2>1. \A j \in Instruments : FirmBook.by_venue[<<v, j>>].notional = Price[j] * Abs(VenueQty(v, j))
    BY <1>1, BookFigures
  <2> QED BY <2>1
<1>6. SumFunction(venue) = VenueGross(v)
  BY <1>5 DEF VenueGross
<1>7. of_agent.gross = Abs(Price[i] * AgentQty(a, i) + w)
  <2>1. PICK m \in Nat \ {0}, x \in Int, z \in Int : m = Price[i] /\ x = AgentQty(a, i) /\ z = w
    BY <1>1, <1>2, <1>3
  <2>2. ProjectNetAndGross(SignedValueFromNet(x, m * Abs(x)), m * Abs(x), z).gross = Abs(m * x + z)
    BY ProjectedNotional
  <2> HIDE DEF own
  <2> QED BY <1>4, <2>1, <2>2
<1>8. at_venue.gross = Abs(Price[i] * VenueQty(v, i) + w)
  <2>1. PICK m \in Nat \ {0}, x \in Int, z \in Int : m = Price[i] /\ x = VenueQty(v, i) /\ z = w
    BY <1>1, <1>2, <1>3
  <2>2. ProjectNetAndGross(SignedValueFromNet(x, m * Abs(x)), m * Abs(x), z).gross = Abs(m * x + z)
    BY ProjectedNotional
  <2> HIDE DEF there
  <2> QED BY <1>4, <2>1, <2>2
<1>9. /\ HasSides(FirmNetQty(i), FirmGrossQty(i))
      /\ HasSides(Price[i] * FirmNetQty(i), Price[i] * FirmGrossQty(i))
  <2>1. PICK long \in Nat, short \in Nat :
          FirmNetQty(i) = long - short /\ FirmGrossQty(i) = long + short
    BY <1>1, FirmHasSides
  <2>2. /\ Price[i] * FirmNetQty(i) = Price[i] * long - Price[i] * short
        /\ Price[i] * FirmGrossQty(i) = Price[i] * long + Price[i] * short
        /\ Price[i] * long \in Nat /\ Price[i] * short \in Nat
    BY <1>1, <2>1
  <2> QED BY <2>1, <2>2 DEF HasSides
<1>10. /\ by_qty.net = FirmNetQty(i) + d /\ by_qty.gross \in Int
       /\ Abs(FirmNetQty(i) + d) <= by_qty.gross /\ Abs(FirmNetQty(i) + d) \in Int
       /\ by_value.gross \in Int
       /\ Abs(Price[i] * FirmNetQty(i) + w) <= by_value.gross
       /\ Abs(Price[i] * FirmNetQty(i) + w) \in Int
  <2> HIDE DEF exposure
  <2> QED BY <1>2, <1>4, <1>9, GrossAtLeastNet
<1>11. Cardinality(held) + (IF there.held THEN 0 ELSE 1) = Cardinality(HeldAt(v) \cup {i})
  <2>1. \A j \in Instruments : FirmBook.by_venue[<<v, j>>].held <=> j \in HeldAt(v)
    BY <1>1, BookFigures
  <2>2. held = HeldAt(v)
    BY <2>1 DEF HeldAt
  <2>3. IsFiniteSet(HeldAt(v)) /\ Cardinality(HeldAt(v)) \in Nat
    BY FS_Subset, FS_CardinalityType DEF HeldAt
  <2>4. Cardinality(HeldAt(v) \cup {i})
          = IF i \in HeldAt(v) THEN Cardinality(HeldAt(v)) ELSE Cardinality(HeldAt(v)) + 1
    BY <2>3, FS_AddElement
  <2> HIDE DEF held, there
  <2> QED BY <1>4, <2>2, <2>3, <2>4
<1>12. /\ p.net_qty = by_qty.net /\ p.gross_qty = by_qty.gross
       /\ p.instrument_gross = by_value.gross
       /\ p.agent_instrument_gross = of_agent.gross
       /\ p.agent_gross = FirmBook.allocations[a].used_capital - own.notional + of_agent.gross
       /\ p.free_capital = FirmBook.allocations[a].allocated_capital
            - (FirmBook.allocations[a].used_capital - own.notional + of_agent.gross)
       /\ p.cash = FirmBook.cash_available - w
       /\ p.venue_notional = SumFunction(venue) - there.notional + at_venue.gross
       /\ p.venue_positions = Cardinality(held) + (IF there.held THEN 0 ELSE 1)
  BY DEF Projected, Signed, Value
<1> HIDE DEF own, there, exposure, venue, held, of_agent, at_venue, by_qty, by_value
<1> QED BY <1>4, <1>6, <1>7, <1>8, <1>10, <1>11, <1>12 DEF AgentGrossAfter, VenueGrossAfter

\* An approved order could be evaluated, fails no check and is not cut.
LEMMA ApprovedMeansClear ==
  ASSUME NEW core, NEW fb, NEW path, Evaluate(core, fb, path) = Approved
  PROVE  /\ ~ Unevaluable(core, fb)
         /\ HardViolations(core, fb, path) = {}
         /\ ResizeCandidates(core, EffectiveNav(fb)) = {}
<1>1. ~ Unevaluable(core, fb)
  BY DEF Evaluate, Approved, Rejected
<1>2. HardViolations(core, fb, path) = {}
  BY <1>1 DEF Evaluate, Approved, Rejected
<1>3. ResizeCandidates(core, EffectiveNav(fb)) = {}
  BY <1>1, <1>2 DEF Evaluate, Approved, Resized
<1> QED BY <1>1, <1>2, <1>3

\* An order that the gate approves is priced, and leaves the book within the
\* limits as the gate projects it.
LEMMA ApprovedFillsWithin ==
  ASSUME Configured, positions \in Positions, NEW core \in OrderCores, NEW path,
         Evaluate(core, FirmBook, path) = Approved
  PROVE  core.qty \in Nat \ {0} /\ core.price \in Nat \ {0} /\ FillsWithin(core)
<1> DEFINE a == core.agent_id
           i == core.instrument_id
           v == core.venue_id
           d == Signed(core)
           w == Value(core)
           p == Projected(core, FirmBook)
<1>1. core.qty \in Nat \ {0} /\ core.price \in Nat \ {0}
  <2>1. /\ core.qty \in Int /\ ~ (core.qty <= 0)
        /\ core.price \in Int \cup {None} /\ core.price # None /\ ~ (core.price <= 0)
    BY ApprovedMeansClear DEF Unevaluable, OrderCores
  <2> QED BY <2>1
<1>2. /\ a \in Agents /\ i \in Instruments /\ v \in Venues /\ core.side \in {"Buy", "Sell"}
  BY DEF OrderCores
<1>3. EffectiveNav(FirmBook) = Nav
  BY <1>2, BookFigures DEF EffectiveNav
<1>4. /\ CheckAgentBudget(p, agent_limits[a]) = {}
      /\ CheckLeverage(p, instrument_limits[i]) = {}
      /\ Check(100 * p.cash >= cash_reserve_min_pct * Nav, "cash_reserve_pct") = {}
      /\ CheckInstrumentLimits(p, Nav, instrument_limits[i]) = {}
      /\ CheckVenueLimits(p, Nav, venue_limits[v]) = {}
  <2>1. HardViolations(core, FirmBook, path) = {}
    BY ApprovedMeansClear
  <2> QED BY <1>3, <2>1 DEF HardViolations
<1> HIDE DEF p
<1>5. /\ p.agent_instrument_gross <= agent_limits[a].max_position_notional
      /\ p.agent_gross <= agent_limits[a].max_gross_notional
  BY <1>4 DEF CheckAgentBudget, Check
<1>6. /\ ~ (p.free_capital <= 0)
      /\ p.agent_gross <= instrument_limits[i].max_leverage * p.free_capital
  BY <1>4 DEF CheckLeverage, Check
<1>7. 100 * p.cash >= cash_reserve_min_pct * Nav
  BY <1>4 DEF Check
<1>8. /\ Abs(p.net_qty) <= instrument_limits[i].max_net_qty
      /\ p.gross_qty <= instrument_limits[i].max_gross_qty
      /\ 100 * p.instrument_gross <= instrument_limits[i].max_concentration_pct * Nav
  BY <1>4 DEF CheckInstrumentLimits, Check
<1>9. /\ p.venue_notional <= venue_limits[v].max_notional
      /\ 100 * p.venue_notional <= venue_limits[v].max_pct_of_nav * Nav
      /\ p.venue_positions <= venue_limits[v].max_positions
  BY <1>4 DEF CheckVenueLimits, Check
<1>10. /\ p.agent_gross = AgentGrossAfter(a, i, w)
       /\ p.free_capital = allocated_capital[a] - AgentGrossAfter(a, i, w)
       /\ p.agent_instrument_gross = Abs(Price[i] * AgentQty(a, i) + w)
       /\ p.net_qty = FirmNetQty(i) + d
       /\ Abs(FirmNetQty(i) + d) <= p.gross_qty /\ p.gross_qty \in Int
       /\ Abs(FirmNetQty(i) + d) \in Int
       /\ Abs(Price[i] * FirmNetQty(i) + w) <= p.instrument_gross /\ p.instrument_gross \in Int
       /\ Abs(Price[i] * FirmNetQty(i) + w) \in Int
       /\ p.venue_notional = VenueGrossAfter(v, i, w)
       /\ p.venue_positions = Cardinality(HeldAt(v) \cup {i})
       /\ p.cash = cash - w
  <2> HIDE DEF a, i, v, d, w
  <2> QED BY <1>1, ProjectedFigures DEF p, a, i, v, d, w
<1>11. AgentGrossAfter(a, i, w) < allocated_capital[a]
  <2>1. w \in Int
    BY <1>1, <1>2 DEF Value, SignedDelta
  <2> HIDE DEF a, i, w
  <2>2. Price[i] \in Nat /\ allocated_capital[a] \in Int
    BY <1>2, OrderIntakeAssumption
  <2>3. AgentQty(a, i) \in Int /\ AgentGross(a) \in Int
    BY <1>2, FiguresTyped
  <2>4. Price[i] * AgentQty(a, i) \in Int
    BY <2>2, <2>3
  <2>5. Price[i] * Abs(AgentQty(a, i)) \in Int /\ Abs(Price[i] * AgentQty(a, i) + w) \in Int
    BY <2>1, <2>2, <2>3, <2>4, AbsTyped
  <2>6. AgentGrossAfter(a, i, w) \in Int
    BY <2>3, <2>5 DEF AgentGrossAfter
  <2> QED BY <1>6, <1>10, <2>2, <2>6
<1> HIDE DEF a, i, v, d, w
<1>12. /\ Abs(FirmNetQty(i) + d) <= instrument_limits[i].max_gross_qty
       /\ 100 * Abs(Price[i] * FirmNetQty(i) + w) <= instrument_limits[i].max_concentration_pct * Nav
  <2>1. PICK x \in Int, y \in Int : /\ x = instrument_limits[i].max_gross_qty
                                    /\ y = instrument_limits[i].max_concentration_pct * Nav
    BY <1>2, OrderIntakeAssumption DEF Configured
  <2>2. p.gross_qty <= x /\ 100 * p.instrument_gross <= y
    BY <1>8, <2>1
  <2>3. Abs(FirmNetQty(i) + d) <= x /\ 100 * Abs(Price[i] * FirmNetQty(i) + w) <= y
    BY <1>10, <2>2
  <2> QED BY <2>1, <2>3
<1>13. WithinAfter(a, i, v, d, w)
  BY <1>5, <1>6, <1>7, <1>8, <1>9, <1>10, <1>11, <1>12 DEF WithinAfter, GrossWithin
<1> QED BY <1>1, <1>13 DEF FillsWithin, a, i, v, d, w

\* Less gross leaves an agent within its limits.
LEMMA LessGrossWithin ==
  ASSUME Configured, NEW a \in Agents, NEW i \in Instruments, NEW g \in Int, NEW h \in Int,
         h <= g, GrossWithin(a, g, i)
  PROVE  GrossWithin(a, h, i)
<1>1. /\ allocated_capital[a] \in Int /\ instrument_limits[i].max_leverage \in Nat
      /\ agent_limits[a].max_gross_notional \in Nat
  BY OrderIntakeAssumption DEF Configured
<1>2. allocated_capital[a] - g <= allocated_capital[a] - h
  BY <1>1
<1>3. instrument_limits[i].max_leverage * (allocated_capital[a] - g)
        <= instrument_limits[i].max_leverage * (allocated_capital[a] - h)
  BY <1>1, <1>2, TimesMonotone
<1>4. PICK x \in Int, y \in Int :
        /\ x = instrument_limits[i].max_leverage * (allocated_capital[a] - g)
        /\ y = instrument_limits[i].max_leverage * (allocated_capital[a] - h)
  BY <1>1
<1> QED BY <1>1, <1>3, <1>4 DEF GrossWithin

-----------------------------------------------------------------------------
(* What the bridge makes of a signal *)

\* A draft names the signal's agent, instrument, direction and exits, is priced
\* at the mark, and goes to a venue that is connected and allowed.
DraftOf(core, signal, connected) ==
  LET limits == agent_limits[signal.agent]
  IN  /\ core \in OrderCores
      /\ core.agent_id = signal.agent /\ core.instrument_id = signal.instrument
      /\ AtMark(core) /\ core.qty > 0
      /\ core.stop_loss = signal.stop_loss /\ core.stop_loss \in Int
      /\ core.stop_loss # core.price
      /\ core.venue_id \in connected
      /\ limits # None => /\ Allowed(limits.allowed_instruments, core.instrument_id)
                          /\ Allowed(limits.allowed_venues, core.venue_id)

\* The venue that select_venue picks is connected and one the agent may use.
LEMMA SelectedVenue ==
  ASSUME NEW signal, NEW limits, NEW connected, NEW venue \in SelectVenue(signal, limits, connected)
  PROVE  /\ venue \in connected
         /\ limits # None => /\ Allowed(limits.allowed_instruments, signal.instrument)
                             /\ Allowed(limits.allowed_venues, venue)
<1>1. ~ (\/ limits # None /\ ~ Allowed(limits.allowed_instruments, signal.instrument)
         \/ venues_for[signal.instrument] = None)
  BY DEF SelectVenue
<1>2. \E k \in Eligible(signal, limits, connected) : venue = venues_for[signal.instrument][k]
  BY <1>1 DEF SelectVenue
<1>3. venue \in connected /\ (limits = None \/ Allowed(limits.allowed_venues, venue))
  BY <1>2 DEF Eligible
<1> QED BY <1>1, <1>3

\* A draft of the bridge is an order at the mark with a stop at a distance.
LEMMA DraftsAreOrders ==
  ASSUME NEW signal \in Signals, NEW now \in Conditions, NEW core \in DraftsOf(signal, now)
  PROVE  DraftOf(core, signal, now.connected)
<1> DEFINE i          == signal.instrument
           limits     == agent_limits[signal.agent]
           allocation == [allocated_capital |-> allocated_capital[signal.agent],
                          status |-> now.status]
           snapshot   == [bid |-> Price[i], ask |-> Price[i], stale |-> now.stale]
           price      == ReferencePrice(signal, snapshot)
           qty        == SizeSignal(signal, allocation.allocated_capital, price)
<1>1. /\ signal.agent \in Agents /\ i \in Instruments /\ signal.direction \in {"Buy", "Sell"}
      /\ signal.conviction \in Int /\ signal.sizing_hint \in Int \cup {None}
      /\ signal.stop_loss \in Int /\ signal.take_profit \in Int \cup {None}
      /\ Price[i] \in Nat \ {0} /\ allocated_capital[signal.agent] \in Int
      /\ None \notin Int
      /\ now.connected \subseteq Venues
  BY OrderIntakeAssumption DEF SignalTypes, Conditions
<1>2. core \in SignalToOrders(signal, allocation, limits, snapshot, now.connected)
  BY DEF DraftsOf
<1> HIDE DEF limits, allocation, snapshot, price, qty
<1>3. /\ ValidateSignal(signal) /\ price # None /\ ~ (price <= 0)
      /\ ValidateExitTargets(signal, price) /\ ~ (qty <= 0)
      /\ \E venue \in SelectVenue(signal, limits, now.connected) :
           core = [agent_id |-> signal.agent, instrument_id |-> i, venue_id |-> venue,
                   side |-> signal.direction, qty |-> qty, price |-> price,
                   stop_loss |-> signal.stop_loss, take_profit |-> signal.take_profit]
  BY <1>2 DEF SignalToOrders, price, qty
<1>4. PICK venue \in SelectVenue(signal, limits, now.connected) :
           core = [agent_id |-> signal.agent, instrument_id |-> i, venue_id |-> venue,
                   side |-> signal.direction, qty |-> qty, price |-> price,
                   stop_loss |-> signal.stop_loss, take_profit |-> signal.take_profit]
  BY <1>3
<1>5. price = Price[i]
  BY <1>3 DEF ReferencePrice, price, snapshot
<1>6. signal.stop_loss # price
  BY <1>1, <1>3, <1>5 DEF ValidateExitTargets
<1>7. qty \in Int
  <2>1. allocation.allocated_capital \in Int
    BY <1>1 DEF allocation
  <2>2. CASE signal.sizing_hint # None
    <3>1. qty = IF signal.sizing_hint > allocation.allocated_capital THEN 0
                ELSE Quotient(signal.sizing_hint, price)
      BY <2>2 DEF SizeSignal, qty
    <3>2. Quotient(signal.sizing_hint, price) \in Int
      BY <1>1, <1>5, <2>2, QuotientBounds
    <3> QED BY <3>1, <3>2
  <2>3. CASE signal.sizing_hint = None
    <3> DEFINE distance == IF signal.stop_loss < price THEN price - signal.stop_loss
                                                       ELSE signal.stop_loss - price
    <3>1. distance \in Nat \ {0}
      BY <1>1, <1>5, <1>6
    <3>2. qty = Quotient(signal.conviction * allocation.allocated_capital, 100 * distance)
      BY <2>3, <3>1 DEF SizeSignal, qty
    <3> HIDE DEF distance
    <3>3. 100 * distance \in Nat \ {0} /\ signal.conviction * allocation.allocated_capital \in Int
      BY <1>1, <2>1, <3>1
    <3> QED BY <3>2, <3>3, QuotientBounds
  <2> QED BY <2>2, <2>3
<1>8. /\ venue \in now.connected
      /\ limits # None => /\ Allowed(limits.allowed_instruments, i)
                          /\ Allowed(limits.allowed_venues, venue)
  BY <1>4, SelectedVenue
<1>9. venue \in Venues
  BY <1>1, <1>8
<1>10. core \in OrderCores
  BY <1>1, <1>4, <1>5, <1>7, <1>9 DEF OrderCores
<1>11. AtMark(core) /\ core.qty > 0 /\ core.stop_loss # core.price
  BY <1>3, <1>4, <1>5, <1>6, <1>7 DEF AtMark
<1> QED BY <1>1, <1>4, <1>8, <1>10, <1>11 DEF DraftOf, limits

\* What SignalOrderBridge drafts, AgentRiskManager never refuses for what the
\* bridge already answers for: limits that are missing, an instrument or a venue
\* the agent may not trade, a stop that is missing or at no distance.
THEOREM BridgeMeetsTheGate ==
  ASSUME Configured
  PROVE  Spec => []DraftsMeetTheGate
<1>1. DraftsMeetTheGate
  <2> SUFFICES ASSUME NEW signal \in Signals, NEW now \in Conditions,
                      NEW core \in DraftsOf(signal, now),
                      Evaluate(core, FirmBook, "SubmitSignal").kind = "Rejected"
               PROVE  Evaluate(core, FirmBook, "SubmitSignal").violations \cap
                        {"unevaluable", "agent_allowed_instruments", "agent_allowed_venues",
                         "account_risk_distance_positive", "signal_stop_loss_required",
                         "signal_risk_distance_positive"} = {}
    BY DEF DraftsMeetTheGate
  <2> DEFINE a == core.agent_id
             i == core.instrument_id
             v == core.venue_id
             p == Projected(core, FirmBook)
             nav == EffectiveNav(FirmBook)
             Named == {"unevaluable", "agent_allowed_instruments", "agent_allowed_venues",
                       "account_risk_distance_positive", "signal_stop_loss_required",
                       "signal_risk_distance_positive"}
  <2>1. DraftOf(core, signal, now.connected)
    BY DraftsAreOrders
  <2>2. /\ a \in Agents /\ i \in Instruments /\ v \in Venues
        /\ core.qty \in Int /\ core.qty > 0
        /\ core.price \in Nat \ {0} /\ core.price # None
        /\ core.stop_loss \in Int /\ core.stop_loss # None /\ core.stop_loss # core.price
    BY <2>1, OrderIntakeAssumption DEF DraftOf, OrderCores, AtMark
  <2>3. ~ Unevaluable(core, FirmBook)
    <3>1. FirmBook.nav = Nav /\ DOMAIN FirmBook.allocations = Agents
      BY <2>2, BookFigures
    <3>2. /\ Nav > 0 /\ Nav \in Int /\ agent_limits[a] # None
          /\ instrument_limits[i] # None /\ venue_limits[v] # None
      BY <2>2, OrderIntakeAssumption DEF Configured
    <3> QED BY <2>2, <3>1, <3>2 DEF Unevaluable
  <2>4. CheckAgentPermissions(core, agent_limits[a]) = {}
    BY <2>1, <2>2 DEF DraftOf, CheckAgentPermissions, Check, Configured
  <2>5. RiskPerUnit(core) > 0 /\ Abs(core.price - core.stop_loss) # 0
    BY <2>2 DEF RiskPerUnit, Abs
  <2>6. CheckSignalRequirements(core) \subseteq {"signal_risk_reward_ratio"}
    BY <2>2, <2>5 DEF CheckSignalRequirements, Check
  <2> HIDE DEF p, nav
  <2>7. HardViolations(core, FirmBook, "SubmitSignal") =
          CheckAgentPermissions(core, agent_limits[a])
            \cup CheckAgentBudget(p, agent_limits[a])
            \cup Check(RiskPerUnit(core) > 0, "account_risk_distance_positive")
            \cup CheckLeverage(p, instrument_limits[i])
            \cup Check(FirmBook.drawdown_pct >= drawdown_halt_pct, "firm_drawdown_pct")
            \cup Check(100 * p.cash >= cash_reserve_min_pct * nav, "cash_reserve_pct")
            \cup CheckInstrumentLimits(p, nav, instrument_limits[i])
            \cup CheckVenueLimits(p, nav, venue_limits[v])
            \cup CheckSignalRequirements(core)
    BY DEF HardViolations, p, nav
  <2>8. CheckAgentBudget(p, agent_limits[a]) \cap Named = {}
    BY DEF CheckAgentBudget, Check
  <2>9. CheckLeverage(p, instrument_limits[i]) \cap Named = {}
    BY DEF CheckLeverage, Check
  <2>10. CheckInstrumentLimits(p, nav, instrument_limits[i]) \cap Named = {}
    BY DEF CheckInstrumentLimits, Check
  <2>11. CheckVenueLimits(p, nav, venue_limits[v]) \cap Named = {}
    BY DEF CheckVenueLimits, Check
  <2>12. /\ Check(RiskPerUnit(core) > 0, "account_risk_distance_positive") = {}
         /\ Check(FirmBook.drawdown_pct >= drawdown_halt_pct, "firm_drawdown_pct") \cap Named = {}
         /\ Check(100 * p.cash >= cash_reserve_min_pct * nav, "cash_reserve_pct") \cap Named = {}
    BY <2>5 DEF Check
  <2>13. CheckSignalRequirements(core) \cap Named = {}
    BY <2>6
  <2> HIDE DEF Named
  <2>14. HardViolations(core, FirmBook, "SubmitSignal") \cap Named = {}
    BY <2>4, <2>7, <2>8, <2>9, <2>10, <2>11, <2>12, <2>13
  <2>15. Evaluate(core, FirmBook, "SubmitSignal").violations =
           HardViolations(core, FirmBook, "SubmitSignal")
    BY <2>3 DEF Evaluate, Rejected, Resized, Approved
  <2> QED BY <2>14, <2>15 DEF Named
<1> QED BY <1>1, PTL

-----------------------------------------------------------------------------
(* A resized order *)

\* The tightest of at most two candidates is one of them.
LEMMA TightestTyped ==
  ASSUME NEW x \in Int, NEW y \in Int, NEW C \in SUBSET {x, y}, C # {}
  PROVE  TightestResize(C) \in C /\ \A z \in C : TightestResize(C) <= z
<1>1. \E z \in C : \A w \in C : z <= w
  <2>1. CASE x \in C /\ (y \in C => x <= y)
    BY <2>1
  <2>2. CASE y \in C /\ (x \in C => y <= x)
    BY <2>2
  <2>3. x \in C \/ y \in C
    OBVIOUS
  <2>4. x <= y \/ y <= x
    OBVIOUS
  <2> QED BY <2>1, <2>2, <2>3, <2>4, Zenon
<1> QED BY <1>1 DEF TightestResize, Min

\* A resized order could be evaluated, fails no check and is cut to the tightest
\* of its candidates.
LEMMA ResizedMeansClear ==
  ASSUME NEW core, NEW fb, NEW path, Evaluate(core, fb, path).kind = "Resized"
  PROVE  /\ ~ Unevaluable(core, fb)
         /\ HardViolations(core, fb, path) = {}
         /\ ResizeCandidates(core, EffectiveNav(fb)) # {}
         /\ Evaluate(core, fb, path).new_qty
              = TightestResize(ResizeCandidates(core, EffectiveNav(fb)))
         /\ Evaluate(core, fb, path) = Resized(Evaluate(core, fb, path).new_qty)
<1>1. ~ Unevaluable(core, fb)
  BY DEF Evaluate, Rejected
<1>2. HardViolations(core, fb, path) = {}
  BY <1>1 DEF Evaluate, Rejected
<1>3. ResizeCandidates(core, EffectiveNav(fb)) # {}
  BY <1>1, <1>2 DEF Evaluate, Approved
<1>4. Evaluate(core, fb, path) = Resized(TightestResize(ResizeCandidates(core, EffectiveNav(fb))))
  BY <1>1, <1>2, <1>3 DEF Evaluate
<1> QED BY <1>1, <1>2, <1>3, <1>4 DEF Resized

\* What the two caps come to is a number of lots.
LEMMA CandidatesTyped ==
  ASSUME NEW core \in OrderCores, NEW fb, NEW path, Evaluate(core, fb, path).kind = "Resized",
         NEW nav \in Int, nav = EffectiveNav(fb)
  PROVE  /\ core.price \in Nat \ {0} /\ core.qty \in Nat \ {0} /\ RiskPerUnit(core) \in Nat \ {0}
         /\ Quotient(nav * position_nav_cap, 100 * core.price) \in Int
         /\ Quotient(nav * account_risk_nav_cap, 100 * RiskPerUnit(core)) \in Int
         /\ Evaluate(core, fb, path).new_qty \in ResizeCandidates(core, nav)
         /\ \A z \in ResizeCandidates(core, nav) : Evaluate(core, fb, path).new_qty <= z
<1>1. ~ Unevaluable(core, fb) /\ HardViolations(core, fb, path) = {}
  BY ResizedMeansClear
<1>2. /\ core.price # None /\ ~ (core.price <= 0) /\ ~ (core.qty <= 0)
      /\ core.qty \in Int /\ core.price \in Int
      /\ core.stop_loss \in Int \cup {None}
  BY <1>1 DEF Unevaluable, OrderCores
<1>3. core.price \in Nat \ {0} /\ core.qty \in Nat \ {0}
  BY <1>2
<1>4. RiskPerUnit(core) > 0
  <2>1. Check(RiskPerUnit(core) > 0, "account_risk_distance_positive") = {}
    BY <1>1 DEF HardViolations
  <2> QED BY <2>1 DEF Check
<1>5. RiskPerUnit(core) \in Nat \ {0}
  <2>1. RiskPerUnit(core) \in Int
    BY <1>2 DEF RiskPerUnit, Abs
  <2> QED BY <1>4, <2>1
<1> DEFINE x == Quotient(nav * position_nav_cap, 100 * core.price)
           y == Quotient(nav * account_risk_nav_cap, 100 * RiskPerUnit(core))
<1>6. x \in Int
  <2>1. 100 * core.price \in Nat \ {0} /\ nav * position_nav_cap \in Int
    BY <1>3 DEF position_nav_cap
  <2> QED BY <2>1, QuotientBounds
<1>7. y \in Int
  <2>1. 100 * RiskPerUnit(core) \in Nat \ {0} /\ nav * account_risk_nav_cap \in Int
    BY <1>5 DEF account_risk_nav_cap
  <2> QED BY <2>1, QuotientBounds
<1>8. ResizeCandidates(core, nav) \in SUBSET {x, y}
  BY DEF ResizeCandidates
<1>9. /\ ResizeCandidates(core, nav) # {}
      /\ Evaluate(core, fb, path).new_qty = TightestResize(ResizeCandidates(core, nav))
  BY ResizedMeansClear
<1> HIDE DEF x, y
<1>10. /\ TightestResize(ResizeCandidates(core, nav)) \in ResizeCandidates(core, nav)
       /\ \A z \in ResizeCandidates(core, nav) : TightestResize(ResizeCandidates(core, nav)) <= z
  BY <1>6, <1>7, <1>8, <1>9, TightestTyped
<1> QED BY <1>3, <1>5, <1>6, <1>7, <1>9, <1>10 DEF x, y

\* Cut to its new quantity, it is the same order otherwise.
LEMMA ResizedIsAnOrder ==
  ASSUME NEW core \in OrderCores, NEW path, Evaluate(core, FirmBook, path).kind = "Resized",
         NEW cut, cut = Cut(core, Evaluate(core, FirmBook, path).new_qty)
  PROVE  /\ cut \in OrderCores
         /\ cut.qty = Evaluate(core, FirmBook, path).new_qty /\ cut.qty \in Int
         /\ cut.agent_id = core.agent_id /\ cut.instrument_id = core.instrument_id
         /\ cut.venue_id = core.venue_id /\ cut.side = core.side /\ cut.price = core.price
         /\ cut.stop_loss = core.stop_loss /\ cut.take_profit = core.take_profit
<1> DEFINE q == Evaluate(core, FirmBook, path).new_qty
           nav == EffectiveNav(FirmBook)
<1>1. nav \in Int
  BY OrderIntakeAssumption, BookFigures DEF EffectiveNav, FirmBook
<1>2. /\ Quotient(nav * position_nav_cap, 100 * core.price) \in Int
      /\ Quotient(nav * account_risk_nav_cap, 100 * RiskPerUnit(core)) \in Int
      /\ q \in ResizeCandidates(core, nav)
  <2> HIDE DEF nav
  <2> QED BY <1>1, CandidatesTyped DEF nav
<1>3. q \in Int
  <2> HIDE DEF nav, q
  <2> QED BY <1>2 DEF ResizeCandidates
<1> HIDE DEF q
<1>4. cut = [core EXCEPT !.qty = q]
  BY DEF q, Cut
<1> QED BY <1>3, <1>4 DEF OrderCores, q

-----------------------------------------------------------------------------
(* What is held and what may still be filled *)

\* With a number, a limit admits every smaller one.
Limit(L) == L \subseteq Int /\ \A m \in L : \A n \in Int : n <= m => n \in L

\* An exposure E and the shares x that the slots S may still add to it, less what
\* the gate does not count: c for each of the other slots, and k.
Potential(E, x, S, c, k) == E + SumFunction(x) - ((Cardinality(S) - 1) * c + k)

\* A slot s changes from x to y while the exposure goes from E to F: what was
\* its share is held or given up, or it was empty and its share is within the
\* limit together with what is held, but for k.
SlotStep(E, F, x, y, s, L, k) ==
  \/ F + y[s] <= E + x[s]
  \/ F = E /\ x[s] = 0 /\ E + y[s] - k \in L

\* Then the potential stays within the limit: what the other slots add is their
\* number times the most that each of them holds.
LEMMA PotentialStep ==
  ASSUME NEW S, IsFiniteSet(S), NEW c \in Nat, NEW x \in [S -> 0 .. c], NEW y \in [S -> 0 .. c],
         NEW s \in S, SameOn(x, y, S \ {s}), NEW E \in Int, NEW F \in Int, NEW L, Limit(L),
         NEW k \in Nat, Potential(E, x, S, c, k) \in L, SlotStep(E, F, x, y, s, L, k)
  PROVE  Potential(F, y, S, c, k) \in L
<1>1. x \in [S -> Int] /\ y \in [S -> Int]
  OBVIOUS
<1>2. SumFunction(x) \in Int /\ SumFunction(y) \in Int
  BY <1>1, SumTyped
<1>3. SumFunction(y) = SumFunction(x) - x[s] + y[s]
  <2>1. SumMoves(x, y, s)
    BY <1>1, SumUpdate
  <2> QED BY <2>1 DEF SumMoves
<1>4. PICK r \in Int : r = (Cardinality(S) - 1) * c
  <2>1. Cardinality(S) \in Nat
    BY SubsetCardinality
  <2> QED BY <2>1
<1>5. x[s] \in Int /\ y[s] \in Int
  BY <1>1
<1>6. /\ Potential(E, x, S, c, k) = E + SumFunction(x) - (r + k)
      /\ Potential(F, y, S, c, k) = F + SumFunction(y) - (r + k)
  BY <1>4 DEF Potential
<1>7. CASE F + y[s] <= E + x[s]
  <2>1. /\ F + SumFunction(y) - (r + k) <= E + SumFunction(x) - (r + k)
        /\ F + SumFunction(y) - (r + k) \in Int
    BY <1>2, <1>3, <1>5, <1>7
  <2> QED BY <1>6, <2>1 DEF Limit
<1>8. CASE F = E /\ x[s] = 0 /\ E + y[s] - k \in L
  <2>1. SumFunction(x) <= r
    BY <1>4, <1>8, SumCapped
  <2>2. F + SumFunction(y) - (r + k) <= E + y[s] - k /\ F + SumFunction(y) - (r + k) \in Int
    BY <1>2, <1>3, <1>5, <1>8, <2>1
  <2> QED BY <1>6, <1>8, <2>2 DEF Limit
<1> QED BY <1>7, <1>8 DEF SlotStep

\* A sign per instrument, or zero for one that does not count.
Signs == [Instruments -> {-1, 0, 1}]

Quantities == [Instruments -> Int]

\* The worth of quantities q at the mark, counted with signs: the gross is the
\* largest of them.
Worth(sign, q) == SumFunction([j \in Instruments |-> Price[j] * (sign[j] * q[j])])

Gross(q) == SumFunction([j \in Instruments |-> Price[j] * Abs(q[j])])

\* The signs of the quantities, and one of a single instrument.
SignsOf(q) == [j \in Instruments |-> IF q[j] < 0 THEN -1 ELSE 1]

Only(i, e) == [j \in Instruments |-> IF j = i THEN e ELSE 0]

\* Both are numbers.
LEMMA WorthTyped ==
  ASSUME NEW sign \in Signs, NEW q \in Quantities
  PROVE  /\ [j \in Instruments |-> Price[j] * (sign[j] * q[j])] \in [Instruments -> Int]
         /\ [j \in Instruments |-> Price[j] * Abs(q[j])] \in [Instruments -> Int]
         /\ Worth(sign, q) \in Int /\ Gross(q) \in Int
<1>1. ASSUME NEW j \in Instruments
      PROVE  Price[j] * (sign[j] * q[j]) \in Int /\ Price[j] * Abs(q[j]) \in Int
  <2>1. Price[j] \in Nat /\ sign[j] \in {-1, 0, 1} /\ q[j] \in Int
    BY OrderIntakeAssumption DEF Signs, Quantities
  <2>2. sign[j] * q[j] \in Int /\ Abs(q[j]) \in Int
    BY <2>1 DEF Abs
  <2> QED BY <2>1, <2>2
<1>2. /\ [j \in Instruments |-> Price[j] * (sign[j] * q[j])] \in [Instruments -> Int]
      /\ [j \in Instruments |-> Price[j] * Abs(q[j])] \in [Instruments -> Int]
  BY <1>1
<1> QED BY <1>2, SumTyped, OrderIntakeAssumption DEF Worth, Gross

\* Quantities q and d more of i.
Moved(q, i, d) == [q EXCEPT ![i] = q[i] + d]

\* d more of i is worth its price, counted with its sign.
LEMMA WorthMoves ==
  ASSUME NEW sign \in Signs, NEW q \in Quantities, NEW i \in Instruments, NEW d \in Int,
         NEW r, r = Moved(q, i, d)
  PROVE  r \in Quantities /\ Worth(sign, r) = Worth(sign, q) + Price[i] * (sign[i] * d)
<1> DEFINE f == [j \in Instruments |-> Price[j] * (sign[j] * q[j])]
           h == [j \in Instruments |-> Price[j] * (sign[j] * r[j])]
<1>1. r \in Quantities /\ r[i] = q[i] + d /\ \A j \in Instruments \ {i} : r[j] = q[j]
  BY DEF Quantities, Moved
<1>2. f \in [Instruments -> Int] /\ h \in [Instruments -> Int]
  BY <1>1, WorthTyped
<1>3. SameOn(f, h, Instruments \ {i})
  BY <1>1 DEF SameOn
<1>4. h[i] - f[i] = Price[i] * (sign[i] * d) /\ h[i] \in Int /\ f[i] \in Int
  <2>1. Price[i] \in Nat /\ sign[i] \in {-1, 0, 1} /\ q[i] \in Int
    BY OrderIntakeAssumption DEF Signs, Quantities
  <2>2. PICK m \in Int, n \in Int : m = sign[i] * q[i] /\ n = sign[i] * d
    BY <2>1
  <2>3. sign[i] * r[i] = m + n
    BY <1>1, <2>1, <2>2
  <2>4. f[i] = Price[i] * m /\ h[i] = Price[i] * (m + n)
    BY <2>2, <2>3
  <2>5. Price[i] * (m + n) = Price[i] * m + Price[i] * n
    BY <2>1, <2>2
  <2>6. PICK x \in Int, y \in Int : x = Price[i] * m /\ y = Price[i] * n
    BY <2>1
  <2>7. Price[i] * (sign[i] * d) = y
    BY <2>2, <2>6
  <2> HIDE DEF f, h
  <2> QED BY <2>4, <2>5, <2>6, <2>7
<1>5. Worth(sign, q) = SumFunction(f) /\ Worth(sign, r) = SumFunction(h)
  BY DEF Worth
<1> HIDE DEF f, h
<1>6. SumMoves(f, h, i)
  BY <1>2, <1>3, SumUpdate, OrderIntakeAssumption
<1>7. SumFunction(f) \in Int
  BY <1>2, SumTyped, OrderIntakeAssumption
<1>8. SumFunction(h) = SumFunction(f) + (h[i] - f[i])
  BY <1>4, <1>6, <1>7 DEF SumMoves
<1> QED BY <1>1, <1>4, <1>5, <1>8

\* d more of i moves the gross by what it moves at i.
LEMMA GrossMoves ==
  ASSUME NEW q \in Quantities, NEW i \in Instruments, NEW d \in Int,
         NEW r, r = Moved(q, i, d)
  PROVE  Gross(r) = Gross(q) - Price[i] * Abs(q[i]) + Price[i] * Abs(q[i] + d)
<1> DEFINE f == [j \in Instruments |-> Price[j] * Abs(q[j])]
           h == [j \in Instruments |-> Price[j] * Abs(r[j])]
<1>1. r \in Quantities /\ r[i] = q[i] + d /\ \A j \in Instruments \ {i} : r[j] = q[j]
  BY DEF Quantities, Moved
<1>2. [j \in Instruments |-> 1] \in Signs
  BY DEF Signs
<1>3. f \in [Instruments -> Int] /\ h \in [Instruments -> Int]
  BY <1>1, <1>2, WorthTyped
<1>4. SameOn(f, h, Instruments \ {i})
  BY <1>1 DEF SameOn
<1>5. f[i] = Price[i] * Abs(q[i]) /\ h[i] = Price[i] * Abs(q[i] + d)
  BY <1>1
<1>6. Gross(q) = SumFunction(f) /\ Gross(r) = SumFunction(h)
  BY DEF Gross
<1> HIDE DEF f, h
<1>7. SumMoves(f, h, i)
  BY <1>3, <1>4, SumUpdate, OrderIntakeAssumption
<1> QED BY <1>5, <1>6, <1>7 DEF SumMoves

\* With whatever signs, quantities are worth their gross at most.
LEMMA WorthAtMostGross ==
  ASSUME NEW sign \in Signs, NEW q \in Quantities
  PROVE  Worth(sign, q) <= Gross(q)
<1> DEFINE f == [j \in Instruments |-> Price[j] * (sign[j] * q[j])]
           h == [j \in Instruments |-> Price[j] * Abs(q[j])]
<1>1. f \in [Instruments -> Int] /\ h \in [Instruments -> Int]
  BY WorthTyped
<1>2. ASSUME NEW j \in Instruments PROVE Price[j] * (sign[j] * q[j]) <= Price[j] * Abs(q[j])
  <2>1. Price[j] \in Nat /\ sign[j] \in {-1, 0, 1} /\ q[j] \in Int
    BY OrderIntakeAssumption DEF Signs, Quantities
  <2>2. sign[j] * q[j] \in Int /\ Abs(q[j]) \in Int /\ sign[j] * q[j] <= Abs(q[j])
    BY <2>1 DEF Abs
  <2> QED BY <2>1, <2>2, TimesMonotone
<1>3. AtMost(f, h, Instruments)
  BY <1>2 DEF AtMost
<1> HIDE DEF f, h
<1>4. SumFunction(f) <= SumFunction(h)
  BY <1>1, <1>3, SumMonotone, OrderIntakeAssumption
<1> QED BY <1>4 DEF Worth, Gross, f, h

\* With their own signs they are worth the gross.
LEMMA WorthOfSigns ==
  ASSUME NEW q \in Quantities
  PROVE  SignsOf(q) \in Signs /\ Worth(SignsOf(q), q) = Gross(q)
<1>1. SignsOf(q) \in Signs
  BY DEF SignsOf, Signs
<1>2. \A j \in Instruments : SignsOf(q)[j] * q[j] = Abs(q[j])
  BY DEF SignsOf, Quantities, Abs
<1>3. [j \in Instruments |-> Price[j] * (SignsOf(q)[j] * q[j])]
        = [j \in Instruments |-> Price[j] * Abs(q[j])]
  BY <1>2
<1> QED BY <1>1, <1>3 DEF Worth, Gross

\* With the sign of one instrument it is that one's worth.
LEMMA WorthOfOne ==
  ASSUME NEW i \in Instruments, NEW e \in {-1, 1}, NEW q \in Quantities
  PROVE  Only(i, e) \in Signs /\ Worth(Only(i, e), q) = Price[i] * (e * q[i])
<1>1. Only(i, e) \in Signs
  BY DEF Only, Signs
<1> DEFINE z == [j \in Instruments |-> 0]
           f == [j \in Instruments |-> Price[j] * (Only(i, e)[j] * q[j])]
<1>2. f \in [Instruments -> Int]
  BY <1>1, WorthTyped
<1>3. \A j \in Instruments \ {i} : f[j] = 0
  <2> TAKE j \in Instruments \ {i}
  <2>1. Price[j] \in Nat /\ q[j] \in Int /\ Only(i, e)[j] = 0
    BY OrderIntakeAssumption DEF Quantities, Only
  <2>2. Only(i, e)[j] * q[j] = 0
    BY <2>1
  <2> QED BY <2>1, <2>2
<1>4. f[i] = Price[i] * (e * q[i])
  BY DEF Only
<1>5. z \in [Instruments -> Int] /\ SameOn(z, f, Instruments \ {i}) /\ z[i] = 0
      /\ \A j \in Instruments : z[j] = 0
  BY <1>3 DEF SameOn
<1>6. Worth(Only(i, e), q) = SumFunction(f)
  BY DEF Worth
<1> HIDE DEF f, z
<1>7. SumFunction(z) = 0
  BY <1>5, SumOfZeros, OrderIntakeAssumption
<1>8. SumMoves(z, f, i)
  BY <1>2, <1>5, SumUpdate, OrderIntakeAssumption
<1>9. SumFunction(f) = f[i]
  <2>1. f[i] \in Int
    BY <1>2
  <2> QED BY <1>5, <1>7, <1>8, <2>1 DEF SumMoves
<1> QED BY <1>1, <1>4, <1>6, <1>9

\* Quantities with whatever signs, together with a value v more of i, are worth
\* at most their gross but for i, and the size of i with that value.
LEMMA WorthWithValue ==
  ASSUME NEW sign \in Signs, NEW q \in Quantities, NEW i \in Instruments, NEW v \in Int,
         NEW u, u = Price[i] * q[i]
  PROVE  /\ u \in Int /\ Abs(u + v) \in Int /\ sign[i] * v \in Int
         /\ Worth(sign, q) + sign[i] * v <= Gross(q) - Price[i] * Abs(q[i]) + Abs(u + v)
         /\ Gross(q) - Price[i] * Abs(q[i]) + Abs(u + v) \in Int
<1> DEFINE r == Moved(q, i, - q[i])
<1>1. /\ Price[i] \in Nat /\ q[i] \in Int /\ - q[i] \in Int /\ sign[i] \in {-1, 0, 1}
  BY OrderIntakeAssumption DEF Quantities, Signs
<1>2. u \in Int /\ Abs(u + v) \in Int /\ sign[i] * v \in Int
  BY <1>1 DEF Abs
<1>3. r \in Quantities /\ Worth(sign, r) = Worth(sign, q) + Price[i] * (sign[i] * (- q[i]))
  BY <1>1, WorthMoves
<1>4. Gross(r) = Gross(q) - Price[i] * Abs(q[i]) + Price[i] * Abs(q[i] + (- q[i]))
  BY <1>1, GrossMoves
<1> HIDE DEF r
<1>5. Price[i] * Abs(q[i] + (- q[i])) = 0
  <2>1. Abs(q[i] + (- q[i])) = 0
    BY <1>1 DEF Abs
  <2> QED BY <1>1, <2>1
<1>6. Price[i] * (sign[i] * (- q[i])) = - (sign[i] * u)
  <2>1. sign[i] * (- q[i]) = (- sign[i]) * q[i]
    BY <1>1
  <2>2. CASE sign[i] = 1
    BY <1>1, <2>2
  <2>3. CASE sign[i] = 0
    BY <1>1, <2>3
  <2>4. CASE sign[i] = -1
    BY <1>1, <2>4
  <2> QED BY <1>1, <2>2, <2>3, <2>4
<1>7. Worth(sign, r) <= Gross(r) /\ Worth(sign, r) \in Int /\ Gross(r) \in Int
  BY <1>3, WorthAtMostGross, WorthTyped
<1>8. Worth(sign, q) \in Int /\ Gross(q) \in Int /\ Price[i] * Abs(q[i]) \in Int
  BY <1>1, WorthTyped, AbsTyped
<1>9. sign[i] * u + sign[i] * v <= Abs(u + v) /\ sign[i] * u \in Int
  BY <1>1, <1>2 DEF Abs
<1>10. PICK g \in Int, h \in Int, x \in Int, y \in Int, z \in Int :
         /\ g = Gross(q) /\ h = Price[i] * Abs(q[i]) /\ x = Worth(sign, q)
         /\ y = sign[i] * u /\ z = sign[i] * v
  BY <1>2, <1>8, <1>9
<1>11. x - y <= g - h /\ y + z <= Abs(u + v)
  BY <1>3, <1>4, <1>5, <1>6, <1>7, <1>9, <1>10
<1>12. x + z <= g - h + Abs(u + v) /\ g - h + Abs(u + v) \in Int
  BY <1>2, <1>11
<1> QED BY <1>2, <1>10, <1>12

-----------------------------------------------------------------------------
(* The invariant *)

\* Those that limits are about: an agent, a venue or the firm.
Agent(a) == [of |-> "agent", who |-> a]
Venue(v) == [of |-> "venue", who |-> v]
Firm == [of |-> "firm", who |-> None]

Owners == {Agent(a) : a \in Agents} \cup {Venue(v) : v \in Venues} \cup {Firm}

\* What an owner holds, and whether an order is for it.
Holds(o) ==
  [j \in Instruments |-> IF o.of = "agent" THEN AgentQty(o.who, j)
                         ELSE IF o.of = "venue" THEN VenueQty(o.who, j)
                         ELSE FirmNetQty(j)]

Concerns(o, core) ==
  /\ o.of = "agent" => core.agent_id = o.who
  /\ o.of = "venue" => core.venue_id = o.who

Positive(n) == IF n > 0 THEN n ELSE 0

\* What is left of an order would add to what its owner holds.
Share(o, sign, core) ==
  IF core # None /\ Concerns(o, core)
    THEN Positive(Price[core.instrument_id] * (sign[core.instrument_id] * Signed(core)))
    ELSE 0

Shares(o, sign) == [s \in Slots |-> Share(o, sign, in_flight[s])]

\* What the mark may add to an order over its price.
Slack == MarkedCap - OrderCap

Within(o, sign, L) ==
  Potential(Worth(sign, Holds(o)), Shares(o, sign), Slots, MarkedCap, Slack) \in L

\* The limits.
GrossLimit(a) == {n \in Int : \E i \in Instruments : GrossWithin(a, n, i)}

PositionLimit(a) == {n \in Int : n <= agent_limits[a].max_position_notional}

NetLimit(i) ==
  {n \in Int : /\ n <= Price[i] * instrument_limits[i].max_net_qty
               /\ n <= Price[i] * instrument_limits[i].max_gross_qty
               /\ 100 * n <= instrument_limits[i].max_concentration_pct * Nav}

VenueLimit(v) ==
  {n \in Int : n <= venue_limits[v].max_notional /\ 100 * n <= venue_limits[v].max_pct_of_nav * Nav}

\* Of whom, counted with which signs, a limit is kept.
LimitOf(o, sign, L) ==
  \/ \E a \in Agents : o = Agent(a) /\ sign \in Signs /\ L = GrossLimit(a)
  \/ \E a \in Agents, i \in Instruments, e \in {-1, 1} :
       o = Agent(a) /\ sign = Only(i, e) /\ L = PositionLimit(a)
  \/ \E v \in Venues : o = Venue(v) /\ sign \in Signs /\ L = VenueLimit(v)
  \/ \E i \in Instruments, e \in {-1, 1} : o = Firm /\ sign = Only(i, e) /\ L = NetLimit(i)

\* An order that was approved, and what a fill leaves of it.
Working(core) ==
  /\ core \in OrderCores /\ core.price \in Nat \ {0} /\ core.qty \in Nat \ {0}
  /\ 100 * Price[core.instrument_id] <= PriceBand * core.price
  /\ core.price * core.qty <= OrderCap

BookTyped ==
  /\ positions \in Positions /\ cash \in Int
  /\ in_flight \in [Slots -> OrderCores \cup {None}]
  /\ \A s \in Slots : in_flight[s] = None \/ Working(in_flight[s])

\* What an order may still cost, what may so be spent, and what may not.
Cost(core) == IF core # None /\ core.side = "Buy" THEN core.price * core.qty ELSE 0

Costs == [s \in Slots |-> Cost(in_flight[s])]

CashLimit == {n \in Int : 100 * (- n) >= cash_reserve_min_pct * Nav}

CashWithin == Potential(- cash, Costs, Slots, OrderCap, 0) \in CashLimit

\* The instruments that a venue holds or may come to hold.
Reached(v) ==
  {i \in Instruments : \/ i \in HeldAt(v)
                       \/ \E s \in Slots : /\ in_flight[s] # None
                                           /\ in_flight[s].venue_id = v
                                           /\ in_flight[s].instrument_id = i}

PositionsWithin ==
  \A v \in Venues :
    Cardinality(Reached(v)) <= venue_limits[v].max_positions + Cardinality(Slots) - 1

IntakeInv ==
  /\ BookTyped
  /\ CashWithin
  /\ PositionsWithin
  /\ \A o, sign, L : LimitOf(o, sign, L) => Within(o, sign, L)

\* The caps are numbers, and so is what they come to for the other slots.
LEMMA CapTyped ==
  ASSUME Configured
  PROVE  /\ OrderCap \in Nat /\ MarkedCap \in Nat /\ Slack \in Nat
         /\ Cardinality(Slots) \in Nat \ {0}
         /\ Unbooked = (Cardinality(Slots) - 1) * MarkedCap + Slack /\ Unbooked \in Nat
         /\ Unpaid = (Cardinality(Slots) - 1) * OrderCap /\ Unpaid \in Nat
<1>1. Nav \in Int /\ Nav > 0 /\ PriceBand \in Nat /\ PriceBand >= 100
  BY OrderIntakeAssumption DEF Configured
<1>2. OrderCap \in Nat
  <2>1. Nav * position_nav_cap \in Nat
    BY <1>1 DEF position_nav_cap
  <2> QED BY <2>1 DEF OrderCap
<1>3. MarkedCap \in Nat /\ OrderCap <= MarkedCap
  <2>1. PICK c \in Nat : c = OrderCap
    BY <1>2
  <2>2. PICK d \in Nat : PriceBand = 100 + d
    <3>1. PriceBand - 100 \in Nat /\ PriceBand = 100 + (PriceBand - 100)
      BY <1>1
    <3> QED BY <3>1
  <2>3. PICK x \in Nat : x = d * c
    OBVIOUS
  <2>4. PriceBand * c = 100 * c + x
    BY <2>2, <2>3
  <2>5. MarkedCap = (100 * c + x) \div 100
    BY <2>1, <2>4 DEF MarkedCap
  <2> QED BY <2>1, <2>5
<1>4. Cardinality(Slots) \in Nat \ {0}
  BY SubsetCardinality, OrderIntakeAssumption
<1>5. PICK n \in Nat : n = Cardinality(Slots) - 1
  BY <1>4
<1>6. Slack \in Nat /\ n * MarkedCap \in Nat /\ n * OrderCap \in Nat
  BY <1>2, <1>3 DEF Slack
<1>7. Unbooked = n * MarkedCap + Slack /\ Unpaid = n * OrderCap
  BY <1>5 DEF Unbooked, Unpaid, Slack
<1>8. Unbooked \in Nat /\ Unpaid \in Nat
  BY <1>6, <1>7
<1> QED BY <1>2, <1>3, <1>4, <1>5, <1>6, <1>7, <1>8

\* What an owner holds is a quantity of each instrument.
LEMMA HoldsTyped ==
  ASSUME positions \in Positions, NEW o \in Owners
  PROVE  Holds(o) \in Quantities
<1>1. /\ \A a \in Agents, i \in Instruments : AgentQty(a, i) \in Int
      /\ \A v \in Venues, i \in Instruments : VenueQty(v, i) \in Int
      /\ \A i \in Instruments : FirmNetQty(i) \in Int
  BY FiguresTyped
<1>2. CASE \E a \in Agents : o = Agent(a)
  BY <1>1, <1>2 DEF Holds, Agent, Quantities
<1>3. CASE \E v \in Venues : o = Venue(v)
  BY <1>1, <1>3 DEF Holds, Venue, Quantities
<1>4. CASE o = Firm
  BY <1>1, <1>4 DEF Holds, Firm, Quantities
<1> QED BY <1>2, <1>3, <1>4 DEF Owners

\* The limits of an agent and of a venue are about the gross of what they hold.
LEMMA GrossOfHolds ==
  /\ \A a \in Agents : Gross(Holds(Agent(a))) = AgentGross(a)
                       /\ \A i \in Instruments : Holds(Agent(a))[i] = AgentQty(a, i)
  /\ \A v \in Venues : Gross(Holds(Venue(v))) = VenueGross(v)
                       /\ \A i \in Instruments : Holds(Venue(v))[i] = VenueQty(v, i)
  /\ \A i \in Instruments : Holds(Firm)[i] = FirmNetQty(i)
<1>1. /\ \A a \in Agents : \A i \in Instruments : Holds(Agent(a))[i] = AgentQty(a, i)
      /\ \A v \in Venues : \A i \in Instruments : Holds(Venue(v))[i] = VenueQty(v, i)
      /\ \A i \in Instruments : Holds(Firm)[i] = FirmNetQty(i)
  BY DEF Holds, Agent, Venue, Firm
<1>2. ASSUME NEW a \in Agents PROVE Gross(Holds(Agent(a))) = AgentGross(a)
  <2>1. [i \in Instruments |-> Price[i] * Abs(Holds(Agent(a))[i])]
          = [i \in Instruments |-> Price[i] * Abs(AgentQty(a, i))]
    BY <1>1
  <2> QED BY <2>1 DEF Gross, AgentGross
<1>3. ASSUME NEW v \in Venues PROVE Gross(Holds(Venue(v))) = VenueGross(v)
  <2>1. [i \in Instruments |-> Price[i] * Abs(Holds(Venue(v))[i])]
          = [i \in Instruments |-> Price[i] * Abs(VenueQty(v, i))]
    BY <1>1
  <2> QED BY <2>1 DEF Gross, VenueGross
<1> QED BY <1>1, <1>2, <1>3

\* The signed quantity of a working order, and its size at the mark.
LEMMA WorkingOrder ==
  ASSUME Configured, NEW core, Working(core), NEW sign \in Signs, NEW i, i = core.instrument_id
  PROVE  /\ i \in Instruments /\ Signed(core) \in Int /\ core.side \in {"Buy", "Sell"}
         /\ core.agent_id \in Agents /\ core.venue_id \in Venues
         /\ Price[i] * (sign[i] * Signed(core)) \in Int
         /\ Positive(Price[i] * (sign[i] * Signed(core))) \in 0 .. MarkedCap
         /\ Price[i] * core.qty \in Nat /\ core.price * core.qty \in Nat
         /\ Price[i] * core.qty <= core.price * core.qty + Slack
<1>1. /\ core.agent_id \in Agents /\ core.venue_id \in Venues /\ i \in Instruments
      /\ core.side \in {"Buy", "Sell"} /\ core.qty \in Nat \ {0} /\ core.price \in Nat \ {0}
      /\ 100 * Price[i] <= PriceBand * core.price /\ core.price * core.qty <= OrderCap
      /\ Price[i] \in Nat /\ sign[i] \in {-1, 0, 1} /\ OrderCap \in Nat /\ MarkedCap \in Nat
      /\ PriceBand \in Nat /\ PriceBand >= 100
  BY CapTyped, OrderIntakeAssumption DEF Working, OrderCores, Signs
<1>2. Signed(core) \in Int
  BY <1>1 DEF Signed, SignedDelta
<1>3. /\ sign[i] * Signed(core) \in Int
      /\ sign[i] * Signed(core) <= core.qty
  BY <1>1, <1>2 DEF Signed, SignedDelta
<1>4. Price[i] * (sign[i] * Signed(core)) <= Price[i] * core.qty
  BY <1>1, <1>3, TimesMonotone
<1>5. Price[i] * (sign[i] * Signed(core)) \in Int /\ Price[i] * core.qty \in Int
  BY <1>1, <1>3
<1>6. /\ Price[i] * core.qty \in Nat /\ core.price * core.qty \in Nat
      /\ Price[i] * core.qty <= core.price * core.qty + Slack
      /\ Price[i] * core.qty <= MarkedCap
  <2>1. PICK m \in Nat, p \in Nat, q \in Nat, c \in Nat, b \in Nat :
          m = Price[i] /\ p = core.price /\ q = core.qty /\ c = OrderCap /\ b = PriceBand
    BY <1>1
  <2>2. b >= 100 /\ 100 * m <= b * p /\ p * q <= c
    BY <1>1, <2>1
  <2>3. /\ m * q \in Nat /\ p * q \in Nat
        /\ m * q <= p * q + ((b * c) \div 100 - c)
        /\ m * q <= (b * c) \div 100
    BY <2>2, WorthInBand
  <2>4. MarkedCap = (b * c) \div 100 /\ Slack = (b * c) \div 100 - c
    BY <2>1 DEF MarkedCap, Slack
  <2> QED BY <2>1, <2>3, <2>4
<1>7. PICK x \in Int, y \in Int : x = Price[i] * (sign[i] * Signed(core)) /\ y = Price[i] * core.qty
  BY <1>5
<1>8. Positive(x) \in 0 .. MarkedCap
  BY <1>1, <1>4, <1>6, <1>7 DEF Positive
<1> QED BY <1>1, <1>2, <1>5, <1>6, <1>7, <1>8

\* The shares are within the cap, and nothing for an empty slot.
LEMMA ShareTyped ==
  ASSUME Configured, NEW core, core = None \/ Working(core), NEW sign \in Signs, NEW o
  PROVE  Share(o, sign, core) \in 0 .. MarkedCap
<1>1. CASE core # None /\ Concerns(o, core)
  BY <1>1, WorkingOrder DEF Share
<1>2. CASE ~ (core # None /\ Concerns(o, core))
  BY <1>2, CapTyped DEF Share
<1> QED BY <1>1, <1>2

\* What an order may cost is within the cap, and nothing for an empty slot.
LEMMA CostTyped ==
  ASSUME Configured, NEW core, core = None \/ Working(core)
  PROVE  Cost(core) \in 0 .. OrderCap
<1>1. CASE core # None
  <2>1. /\ core.price \in Nat \ {0} /\ core.qty \in Nat \ {0}
        /\ core.price * core.qty <= OrderCap /\ OrderCap \in Nat
    BY <1>1, CapTyped DEF Working
  <2>2. PICK x \in Nat : x = core.price * core.qty
    BY <2>1
  <2> QED BY <2>1, <2>2 DEF Cost
<1>2. CASE core = None
  BY <1>2, CapTyped DEF Cost
<1> QED BY <1>1, <1>2

\* So every slot has its share.
LEMMA SharesTyped ==
  ASSUME Configured, BookTyped, NEW sign \in Signs, NEW o
  PROVE  Shares(o, sign) \in [Slots -> 0 .. MarkedCap]
<1>1. \A s \in Slots : Share(o, sign, in_flight[s]) \in 0 .. MarkedCap
  BY ShareTyped DEF BookTyped
<1> QED BY <1>1 DEF Shares

\* Each is a limit, and admits nothing held.
LEMMA LimitsAreLimits ==
  ASSUME Configured, NEW o, NEW sign, NEW L, LimitOf(o, sign, L)
  PROVE  o \in Owners /\ sign \in Signs /\ Limit(L) /\ 0 \in L
<1> USE OrderIntakeAssumption
<1>0. Nav \in Nat
  BY DEF Configured
<1>1. ASSUME NEW a \in Agents, o = Agent(a), sign \in Signs, L = GrossLimit(a)
      PROVE  o \in Owners /\ sign \in Signs /\ Limit(L) /\ 0 \in L
  <2>1. Limit(L)
    <3>1. ASSUME NEW m \in L, NEW n \in Int, n <= m PROVE n \in L
      <4>1. m \in Int /\ \E i \in Instruments : GrossWithin(a, m, i)
        BY <1>1 DEF GrossLimit
      <4>2. PICK i \in Instruments : GrossWithin(a, m, i)
        BY <4>1
      <4>3. GrossWithin(a, n, i)
        BY <3>1, <4>1, <4>2, LessGrossWithin
      <4> QED BY <1>1, <4>3 DEF GrossLimit
    <3> QED BY <1>1, <3>1 DEF Limit, GrossLimit
  <2>2. 0 \in L
    <3>1. PICK i \in Instruments : TRUE
      BY DEF Configured
    <3>2. /\ instrument_limits[i].max_leverage \in Nat /\ agent_limits[a].max_gross_notional \in Nat
          /\ allocated_capital[a] > 0 /\ allocated_capital[a] \in Int
      BY DEF Configured
    <3>3. instrument_limits[i].max_leverage * 0
            <= instrument_limits[i].max_leverage * (allocated_capital[a] - 0)
      BY <3>2, TimesMonotone
    <3>4. instrument_limits[i].max_leverage * 0 = 0
      BY <3>2
    <3>5. GrossWithin(a, 0, i)
      BY <3>2, <3>3, <3>4 DEF GrossWithin
    <3> QED BY <1>1, <3>5 DEF GrossLimit
  <2> QED BY <1>1, <2>1, <2>2 DEF Owners
<1>2. ASSUME NEW a \in Agents, NEW i \in Instruments, NEW e \in {-1, 1},
             o = Agent(a), sign = Only(i, e), L = PositionLimit(a)
      PROVE  o \in Owners /\ sign \in Signs /\ Limit(L) /\ 0 \in L
  <2>1. agent_limits[a].max_position_notional \in Nat
    BY DEF Configured
  <2>2. PICK x \in Nat : x = agent_limits[a].max_position_notional
    BY <2>1
  <2>3. L = {n \in Int : n <= x}
    BY <1>2, <2>2 DEF PositionLimit
  <2>4. Limit(L) /\ 0 \in L
    BY <2>3 DEF Limit
  <2> QED BY <1>2, <2>4 DEF Owners, Only, Signs
<1>3. ASSUME NEW v \in Venues, o = Venue(v), sign \in Signs, L = VenueLimit(v)
      PROVE  o \in Owners /\ sign \in Signs /\ Limit(L) /\ 0 \in L
  <2>1. /\ venue_limits[v].max_notional \in Nat /\ venue_limits[v].max_pct_of_nav \in Nat
    BY DEF Configured
  <2>2. PICK x \in Nat, y \in Nat : /\ x = venue_limits[v].max_notional
                                    /\ y = venue_limits[v].max_pct_of_nav * Nav
    BY <1>0, <2>1
  <2>3. L = {n \in Int : n <= x /\ 100 * n <= y}
    BY <1>3, <2>2 DEF VenueLimit
  <2>4. Limit(L) /\ 0 \in L
    BY <2>3 DEF Limit
  <2> QED BY <1>3, <2>4 DEF Owners
<1>4. ASSUME NEW i \in Instruments, NEW e \in {-1, 1}, o = Firm, sign = Only(i, e), L = NetLimit(i)
      PROVE  o \in Owners /\ sign \in Signs /\ Limit(L) /\ 0 \in L
  <2>1. /\ instrument_limits[i].max_net_qty \in Nat /\ instrument_limits[i].max_gross_qty \in Nat
        /\ instrument_limits[i].max_concentration_pct \in Nat /\ Price[i] \in Nat
    BY DEF Configured
  <2>2. /\ Price[i] * instrument_limits[i].max_net_qty \in Nat
        /\ Price[i] * instrument_limits[i].max_gross_qty \in Nat
        /\ instrument_limits[i].max_concentration_pct * Nav \in Nat
    <3>1. Price[i] * instrument_limits[i].max_net_qty \in Nat
      BY <2>1
    <3>2. Price[i] * instrument_limits[i].max_gross_qty \in Nat
      BY <2>1
    <3>3. instrument_limits[i].max_concentration_pct * Nav \in Nat
      BY <1>0, <2>1
    <3> QED BY <3>1, <3>2, <3>3
  <2> DEFINE x == Price[i] * instrument_limits[i].max_net_qty
             y == Price[i] * instrument_limits[i].max_gross_qty
             z == instrument_limits[i].max_concentration_pct * Nav
  <2>3. L = {n \in Int : n <= x /\ n <= y /\ 100 * n <= z}
    BY <1>4 DEF NetLimit
  <2>4. x \in Nat /\ y \in Nat /\ z \in Nat
    BY <2>2
  <2> HIDE DEF x, y, z
  <2>5. Limit(L) /\ 0 \in L
    BY <2>3, <2>4 DEF Limit
  <2> QED BY <1>4, <2>5 DEF Owners, Only, Signs
<1> QED BY <1>1, <1>2, <1>3, <1>4 DEF LimitOf

\* Filled, an approved order leaves what its owner holds within the limit, but for
\* what the mark is above its price.
LEMMA ApprovedWithinLimit ==
  ASSUME Configured, positions \in Positions, NEW core, Working(core), FillsWithin(core),
         NEW o, NEW sign, NEW L, LimitOf(o, sign, L), Concerns(o, core),
         NEW w, w = Price[core.instrument_id] * (sign[core.instrument_id] * Signed(core)), w > 0
  PROVE  Worth(sign, Holds(o)) + w - Slack \in L
<1> USE OrderIntakeAssumption
<1>1. o \in Owners /\ sign \in Signs /\ Limit(L) /\ Holds(o) \in Quantities
  BY LimitsAreLimits, HoldsTyped
<1>2. PICK i, d, q, V : /\ i = core.instrument_id /\ d = Signed(core) /\ q = Holds(o)
                        /\ V = Value(core)
  OBVIOUS
<1>3. /\ i \in Instruments /\ d \in Int /\ q \in Quantities /\ q[i] \in Int
      /\ Price[i] \in Nat /\ Price[i] \in Int /\ sign[i] \in {-1, 0, 1}
      /\ core.side \in {"Buy", "Sell"} /\ core.qty \in Nat /\ core.price \in Nat
      /\ core.agent_id \in Agents /\ core.venue_id \in Venues
  BY <1>1, <1>2, WorkingOrder DEF Working, Quantities, Signs
<1>4. sign[i] * d = core.qty /\ sign[i] * V = core.price * core.qty /\ V \in Int
  <2>1. PICK k \in Nat, x \in Nat : k = core.qty /\ x = core.price * core.qty
    BY <1>3
  <2>2. \/ d = k /\ V = x
        \/ d = -k /\ V = -x
    <3>1. core.qty * core.price = core.price * core.qty
      BY <1>3
    <3> QED BY <1>2, <1>3, <2>1, <3>1 DEF Signed, Value, SignedDelta
  <2>3. w = Price[i] * (sign[i] * d)
    BY <1>2
  <2>4. sign[i] * d > 0
    <3>1. PICK y \in Int : y = sign[i] * d
      BY <1>3
    <3>2. y <= 0 => Price[i] * y <= Price[i] * 0
      BY <1>3, TimesMonotone
    <3>3. Price[i] * 0 = 0 /\ Price[i] * y \in Int
      BY <1>3
    <3> QED BY <2>3, <3>1, <3>2, <3>3
  <2>5. sign[i] * d = k /\ sign[i] * V = x
    BY <1>3, <2>2, <2>4
  <2> QED BY <2>1, <2>2, <2>5
<1>5. w = Price[i] * core.qty
  BY <1>2, <1>4
<1>6. PICK y \in Int, n \in Int, e \in Int, u \in Int, g \in Int :
        /\ y = Worth(sign, q) /\ n = sign[i] * V /\ e = Slack /\ u = Price[i] * q[i]
        /\ g = Gross(q) - Price[i] * Abs(q[i])
  <2>1. Worth(sign, q) \in Int /\ Gross(q) \in Int
    BY <1>1, <1>3, WorthTyped
  <2>2. sign[i] * V \in Int
    BY <1>3, <1>4
  <2>3. Slack \in Int
    BY CapTyped
  <2>4. Price[i] * q[i] \in Int
    BY <1>3
  <2>5. Gross(q) - Price[i] * Abs(q[i]) \in Int
    <3>1. Abs(q[i]) \in Int
      BY <1>3 DEF Abs
    <3>2. Price[i] * Abs(q[i]) \in Int
      BY <1>3, <3>1
    <3> QED BY <2>1, <3>2
  <2> QED BY <2>1, <2>2, <2>3, <2>4, <2>5
<1>7. /\ w \in Int /\ w <= n + e /\ e >= 0
      /\ y + w - e \in Int /\ y + w - e <= y + n
  <2>1. /\ Price[i] * core.qty \in Nat /\ core.price * core.qty \in Nat
        /\ Price[i] * core.qty <= core.price * core.qty + Slack
    BY <1>1, <1>2, WorkingOrder
  <2>2. n = core.price * core.qty
    BY <1>4, <1>6
  <2>3. w \in Int /\ w <= n + e /\ e >= 0
    BY <1>5, <1>6, <2>1, <2>2, CapTyped
  <2> QED BY <2>3
<1>8. y + n <= g + Abs(u + V) /\ g + Abs(u + V) \in Int /\ Abs(u + V) \in Int
  BY <1>1, <1>3, <1>4, <1>6, WorthWithValue
<1>9. y + w - e <= g + Abs(u + V)
  BY <1>6, <1>7, <1>8
<1>10. WithinAfter(core.agent_id, i, core.venue_id, d, V)
  BY <1>2 DEF FillsWithin
<1>11. ASSUME NEW a \in Agents, o = Agent(a), sign \in Signs, L = GrossLimit(a)
       PROVE  y + w - e \in L
  <2>1. core.agent_id = a
    BY <1>11 DEF Concerns, Agent
  <2>2. g + Abs(u + V) = AgentGrossAfter(a, i, V)
    <3>1. Gross(q) = AgentGross(a) /\ q[i] = AgentQty(a, i)
      BY <1>2, <1>3, <1>11, GrossOfHolds
    <3> QED BY <1>6, <3>1 DEF AgentGrossAfter
  <2>3. GrossWithin(a, g + Abs(u + V), i)
    BY <1>10, <2>1, <2>2 DEF WithinAfter
  <2>4. GrossWithin(a, y + w - e, i)
    BY <1>3, <1>7, <1>8, <1>9, <2>3, LessGrossWithin
  <2> QED BY <1>3, <1>7, <1>11, <2>4 DEF GrossLimit
<1>12. ASSUME NEW v \in Venues, o = Venue(v), sign \in Signs, L = VenueLimit(v)
       PROVE  y + w - e \in L
  <2>1. core.venue_id = v
    BY <1>12 DEF Concerns, Venue
  <2>2. g + Abs(u + V) = VenueGrossAfter(v, i, V)
    <3>1. Gross(q) = VenueGross(v) /\ q[i] = VenueQty(v, i)
      BY <1>2, <1>3, <1>12, GrossOfHolds
    <3> QED BY <1>6, <3>1 DEF VenueGrossAfter
  <2>3. g + Abs(u + V) \in L
    BY <1>8, <1>10, <1>12, <2>1, <2>2 DEF WithinAfter, VenueLimit
  <2> QED BY <1>1, <1>7, <1>8, <1>9, <2>3 DEF Limit
<1>13. ASSUME NEW j \in Instruments, NEW f \in {-1, 1}, sign = Only(j, f)
       PROVE  /\ j = i /\ y + n <= Abs(u + V)
              /\ y + w <= Price[i] * Abs(q[i] + d) /\ Price[i] * Abs(q[i] + d) \in Int
  <2>1. j = i
    <3> SUFFICES ASSUME j # i PROVE FALSE
      OBVIOUS
    <3>1. sign[i] = 0
      BY <1>3, <1>13 DEF Only
    <3>2. sign[i] * d = 0
      BY <1>3, <3>1
    <3>3. w = 0
      BY <1>2, <1>3, <3>2
    <3> QED BY <3>3
  <2>2. sign[i] = f
    BY <1>13, <2>1 DEF Only
  <2>3. y = Price[i] * (f * q[i])
    BY <1>3, <1>6, <1>13, <2>1, WorthOfOne
  <2>4. y = f * u
    <3>1. CASE f = 1
      BY <1>3, <1>6, <2>3, <3>1
    <3>2. CASE f = -1
      BY <1>3, <1>6, <2>3, <3>2
    <3> QED BY <3>1, <3>2
  <2>5. y + n <= Abs(u + V)
    BY <1>4, <1>6, <2>2, <2>4 DEF Abs
  <2>6. w = Price[i] * (f * d)
    BY <1>2, <2>2
  <2>7. y + w = Price[i] * (f * (q[i] + d))
    <3>1. CASE f = 1
      BY <1>3, <2>3, <2>6, <3>1
    <3>2. CASE f = -1
      BY <1>3, <2>3, <2>6, <3>2
    <3> QED BY <3>1, <3>2
  <2>8. PICK z \in Int : z = q[i] + d
    BY <1>3
  <2>9. f * z <= Abs(z) /\ f * z \in Int /\ Abs(z) \in Int
    BY DEF Abs
  <2>10. Price[i] * (f * z) <= Price[i] * Abs(z) /\ Price[i] * Abs(z) \in Int
    BY <1>3, <2>9, TimesMonotone
  <2> QED BY <2>1, <2>5, <2>7, <2>8, <2>10
<1>14. ASSUME NEW a \in Agents, NEW j \in Instruments, NEW f \in {-1, 1},
              o = Agent(a), sign = Only(j, f), L = PositionLimit(a)
       PROVE  y + w - e \in L
  <2>1. core.agent_id = a
    BY <1>14 DEF Concerns, Agent
  <2>2. q[i] = AgentQty(a, i)
    BY <1>2, <1>3, <1>14, GrossOfHolds
  <2>3. Abs(u + V) <= agent_limits[a].max_position_notional
    BY <1>6, <1>10, <2>1, <2>2 DEF WithinAfter
  <2>4. Abs(u + V) \in L
    BY <1>8, <1>14, <2>3 DEF PositionLimit
  <2>5. y + w - e <= Abs(u + V)
    BY <1>6, <1>7, <1>8, <1>13, <1>14
  <2> QED BY <1>1, <1>7, <1>8, <2>4, <2>5 DEF Limit
<1>15. ASSUME NEW j \in Instruments, NEW f \in {-1, 1},
              o = Firm, sign = Only(j, f), L = NetLimit(j)
       PROVE  y + w - e \in L
  <2>1. q[i] = FirmNetQty(i) /\ j = i
    BY <1>2, <1>3, <1>13, <1>15, GrossOfHolds
  <2>2. PICK k \in Int, l \in Int, c \in Int, z \in Int :
          /\ k = instrument_limits[i].max_net_qty /\ l = instrument_limits[i].max_gross_qty
          /\ c = instrument_limits[i].max_concentration_pct * Nav /\ z = Abs(q[i] + d)
    <3>1. /\ instrument_limits[i].max_net_qty \in Int /\ instrument_limits[i].max_gross_qty \in Int
          /\ instrument_limits[i].max_concentration_pct \in Int /\ Nav \in Int
      BY <1>3 DEF Configured
    <3>2. instrument_limits[i].max_concentration_pct * Nav \in Int
      BY <3>1
    <3>3. Abs(q[i] + d) \in Int
      BY <1>3 DEF Abs
    <3> QED BY <3>1, <3>2, <3>3
  <2>3. z <= k /\ z <= l
    BY <1>10, <2>1, <2>2 DEF WithinAfter
  <2>4. Price[i] * z <= Price[i] * k /\ Price[i] * z <= Price[i] * l
    BY <1>3, <2>3, TimesMonotone
  <2>5. 100 * Abs(u + V) <= c
    BY <1>6, <1>10, <2>1, <2>2 DEF WithinAfter
  <2>6. y + w - e <= Price[i] * z /\ y + w - e <= Abs(u + V)
    BY <1>6, <1>7, <1>8, <1>13, <1>15, <2>2
  <2>7. PICK x \in Int, xk \in Int, xl \in Int :
          x = Price[i] * z /\ xk = Price[i] * k /\ xl = Price[i] * l
    <3>1. Price[i] * z \in Int
      BY <1>3
    <3>2. Price[i] * k \in Int
      BY <1>3
    <3>3. Price[i] * l \in Int
      BY <1>3
    <3> QED BY <3>1, <3>2, <3>3
  <2>8. PICK b \in Int : b = y + w - e
    BY <1>7
  <2>9. b <= xk /\ b <= xl
    BY <2>4, <2>6, <2>7, <2>8
  <2>10. 100 * b <= c
    BY <1>8, <2>5, <2>6, <2>8
  <2> QED BY <1>15, <2>1, <2>2, <2>7, <2>8, <2>9, <2>10 DEF NetLimit
<1>16. y + w - e \in L
  BY <1>11, <1>12, <1>14, <1>15 DEF LimitOf
<1> QED BY <1>2, <1>6, <1>16

-----------------------------------------------------------------------------
(* Every step keeps the invariant *)

\* A step that touches one slot keeps a limit if it is a SlotStep of it.
LEMMA SlotStepWithin ==
  ASSUME Configured, BookTyped, BookTyped', NEW o, NEW sign, NEW L, LimitOf(o, sign, L),
         Within(o, sign, L), NEW s \in Slots, SameOn(in_flight, in_flight', Slots \ {s}),
         NEW q \in Quantities, NEW r \in Quantities, q = Holds(o), r = Holds(o)',
         \/ Worth(sign, r) + Share(o, sign, in_flight'[s])
              <= Worth(sign, q) + Share(o, sign, in_flight[s])
         \/ /\ r = q /\ in_flight[s] = None
            /\ Share(o, sign, in_flight'[s]) > 0
                 => Worth(sign, q) + Share(o, sign, in_flight'[s]) - Slack \in L
  PROVE  Within(o, sign, L)'
<1> DEFINE x == [t \in Slots |-> Share(o, sign, in_flight[t])]
           y == [t \in Slots |-> Share(o, sign, in_flight'[t])]
<1>1. sign \in Signs /\ Limit(L)
  BY LimitsAreLimits
<1>2. x \in [Slots -> 0 .. MarkedCap] /\ y \in [Slots -> 0 .. MarkedCap] /\ MarkedCap \in Nat /\ Slack \in Nat
  <2>1. \A t \in Slots : /\ Share(o, sign, in_flight[t]) \in 0 .. MarkedCap
                         /\ Share(o, sign, in_flight'[t]) \in 0 .. MarkedCap
    BY <1>1, ShareTyped DEF BookTyped
  <2> QED BY <2>1, CapTyped
<1>3. SameOn(x, y, Slots \ {s})
  BY DEF SameOn
<1>4. x[s] = Share(o, sign, in_flight[s]) /\ y[s] = Share(o, sign, in_flight'[s])
  OBVIOUS
<1>5. Worth(sign, q) \in Int /\ Worth(sign, r) \in Int
  BY <1>1, WorthTyped
<1>6. Potential(Worth(sign, q), x, Slots, MarkedCap, Slack) \in L
  BY DEF Within, Shares
<1>7. x[s] \in Int /\ y[s] \in Int /\ y[s] >= 0 /\ x[s] >= 0
  <2> HIDE DEF x, y
  <2>1. x[s] \in 0 .. MarkedCap /\ y[s] \in 0 .. MarkedCap
    BY <1>2
  <2> QED BY <1>2, <2>1
<1> HIDE DEF x, y
<1>8. SlotStep(Worth(sign, q), Worth(sign, r), x, y, s, L, Slack)
  <2>1. CASE Worth(sign, r) + Share(o, sign, in_flight'[s])
               <= Worth(sign, q) + Share(o, sign, in_flight[s])
    BY <1>4, <2>1 DEF SlotStep
  <2>2. CASE /\ r = q /\ in_flight[s] = None
             /\ Share(o, sign, in_flight'[s]) > 0
                  => Worth(sign, q) + Share(o, sign, in_flight'[s]) - Slack \in L
    <3>1. x[s] = 0
      BY <1>4, <2>2 DEF Share
    <3>2. CASE y[s] > 0
      BY <1>4, <2>2, <3>1, <3>2 DEF SlotStep
    <3>3. CASE ~ (y[s] > 0)
      <4>1. Worth(sign, r) + y[s] <= Worth(sign, q) + x[s]
        BY <1>5, <1>7, <2>2, <3>1, <3>3
      <4> QED BY <4>1 DEF SlotStep
    <3> QED BY <3>2, <3>3
  <2> QED BY <2>1, <2>2
<1>9. Potential(Worth(sign, r), y, Slots, MarkedCap, Slack) \in L
  BY <1>1, <1>2, <1>3, <1>5, <1>6, <1>8, PotentialStep, OrderIntakeAssumption
<1>10. (Worth(sign, Holds(o)))' = Worth(sign, r) /\ Shares(o, sign)' = y
  BY DEF Worth, Shares, y, Share, Concerns, Positive, Signed, SignedDelta
<1> QED BY <1>9, <1>10 DEF Within, Potential, MarkedCap, OrderCap, Slack

\* The same of what is spent.
LEMMA CashStepWithin ==
  ASSUME Configured, BookTyped, BookTyped', CashWithin, NEW s \in Slots,
         SameOn(in_flight, in_flight', Slots \ {s}),
         \/ - cash' + Cost(in_flight'[s]) <= - cash + Cost(in_flight[s])
         \/ /\ cash' = cash /\ in_flight[s] = None
            /\ Cost(in_flight'[s]) > 0 => - cash + Cost(in_flight'[s]) \in CashLimit
  PROVE  CashWithin'
<1> DEFINE x == [t \in Slots |-> Cost(in_flight[t])]
           y == [t \in Slots |-> Cost(in_flight'[t])]
<1>1. Limit(CashLimit)
  <2>1. PICK c \in Int : c = cash_reserve_min_pct * Nav
    BY OrderIntakeAssumption DEF cash_reserve_min_pct
  <2>2. CashLimit = {n \in Int : 100 * (- n) >= c}
    BY <2>1 DEF CashLimit
  <2> QED BY <2>2 DEF Limit
<1>2. x \in [Slots -> 0 .. OrderCap] /\ y \in [Slots -> 0 .. OrderCap] /\ OrderCap \in Nat
  <2>1. \A t \in Slots : /\ Cost(in_flight[t]) \in 0 .. OrderCap
                         /\ Cost(in_flight'[t]) \in 0 .. OrderCap
    BY CostTyped DEF BookTyped
  <2> QED BY <2>1, CapTyped
<1>3. SameOn(x, y, Slots \ {s})
  BY DEF SameOn
<1>4. x[s] = Cost(in_flight[s]) /\ y[s] = Cost(in_flight'[s])
  OBVIOUS
<1>5. - cash \in Int /\ - cash' \in Int
  BY DEF BookTyped
<1>6. Potential(- cash, x, Slots, OrderCap, 0) \in CashLimit
  BY DEF CashWithin, Costs
<1>7. x[s] \in Int /\ y[s] \in Int /\ y[s] >= 0 /\ x[s] >= 0
  <2> HIDE DEF x, y
  <2>1. x[s] \in 0 .. OrderCap /\ y[s] \in 0 .. OrderCap
    BY <1>2
  <2> QED BY <1>2, <2>1
<1> HIDE DEF x, y
<1>8. SlotStep(- cash, - cash', x, y, s, CashLimit, 0)
  <2>1. CASE - cash' + Cost(in_flight'[s]) <= - cash + Cost(in_flight[s])
    BY <1>4, <2>1 DEF SlotStep
  <2>2. CASE /\ cash' = cash /\ in_flight[s] = None
             /\ Cost(in_flight'[s]) > 0 => - cash + Cost(in_flight'[s]) \in CashLimit
    <3>1. x[s] = 0
      BY <1>4, <2>2 DEF Cost
    <3>2. CASE y[s] > 0
      <4>1. - cash + y[s] - 0 = - cash + y[s]
        BY <1>5, <1>7
      <4> QED BY <1>4, <2>2, <3>1, <3>2, <4>1 DEF SlotStep
    <3>3. CASE ~ (y[s] > 0)
      <4>1. - cash' + y[s] <= - cash + x[s]
        BY <1>5, <1>7, <2>2, <3>1, <3>3
      <4> QED BY <4>1 DEF SlotStep
    <3> QED BY <3>2, <3>3
  <2> QED BY <2>1, <2>2
<1>9. Potential(- cash', y, Slots, OrderCap, 0) \in CashLimit
  BY <1>1, <1>2, <1>3, <1>5, <1>6, <1>8, PotentialStep, OrderIntakeAssumption
<1>10. Costs' = y
  BY DEF Costs, y, Cost
<1> QED BY <1>9, <1>10 DEF CashWithin, Potential, OrderCap, CashLimit

\* What a venue may come to hold is among the instruments.
LEMMA ReachedTyped ==
  ASSUME NEW v
  PROVE  /\ Reached(v) \subseteq Instruments /\ Reached(v)' \subseteq Instruments
         /\ IsFiniteSet(Reached(v)) /\ IsFiniteSet(Reached(v)')
<1>1. Reached(v) \subseteq Instruments /\ Reached(v)' \subseteq Instruments
  BY DEF Reached
<1> QED BY <1>1, FS_Subset, OrderIntakeAssumption

\* A step after which no venue may come to hold another instrument.
LEMMA ReachedShrinks ==
  ASSUME Configured, PositionsWithin, \A v \in Venues : Reached(v)' \subseteq Reached(v)
  PROVE  PositionsWithin'
<1>1. ASSUME NEW v \in Venues
      PROVE  Cardinality(Reached(v)') <= venue_limits[v].max_positions + Cardinality(Slots) - 1
  <2>1. PICK k \in Nat, l \in Nat : k = Cardinality(Reached(v)') /\ l = Cardinality(Reached(v))
    BY ReachedTyped, FS_CardinalityType
  <2>2. k <= l
    BY <2>1, ReachedTyped, FS_Subset
  <2>3. PICK c \in Int : c = venue_limits[v].max_positions + Cardinality(Slots) - 1
    BY CapTyped DEF Configured
  <2>4. l <= c
    BY <2>1, <2>3 DEF PositionsWithin
  <2> QED BY <2>1, <2>2, <2>3, <2>4
<1> QED BY <1>1 DEF PositionsWithin

\* A function takes at most as many values as it has arguments.
LEMMA FewValues ==
  ASSUME NEW S, IsFiniteSet(S), NEW R, NEW f \in [S -> R], \A y \in R : \E x \in S : f[x] = y
  PROVE  IsFiniteSet(R) /\ Cardinality(R) <= Cardinality(S)
<1>1. f \in Surjection(S, R)
  BY DEF Surjection
<1> QED BY <1>1, FS_Surjection

\* An order that was approved brings its venue within max_positions, the other
\* slots one instrument each.
LEMMA ReachedAfterAdmit ==
  ASSUME Configured, PositionsWithin, UNCHANGED positions, NEW core, Working(core),
         FillsWithin(core), in_flight \in [Slots -> OrderCores \cup {None}],
         NEW s \in Slots, in_flight[s] = None, in_flight' = [in_flight EXCEPT ![s] = core]
  PROVE  PositionsWithin'
<1>1. \A v : HeldAt(v)' = HeldAt(v)
  BY FiguresUnchanged DEF HeldAt
<1>2. PICK i, v : i = core.instrument_id /\ v = core.venue_id
  OBVIOUS
<1>3. i \in Instruments /\ v \in Venues /\ core # None
  BY <1>2, OrderIntakeAssumption DEF Working, OrderCores
<1>4. in_flight'[s] = core /\ \A t \in Slots \ {s} : in_flight'[t] = in_flight[t]
  OBVIOUS
<1>5. ASSUME NEW u \in Venues, u # v PROVE Reached(u)' \subseteq Reached(u)
  <2> SUFFICES ASSUME NEW j \in Instruments, j \in Reached(u)' PROVE j \in Reached(u)
    BY DEF Reached
  <2>1. CASE j \in HeldAt(u)'
    BY <1>1, <2>1 DEF Reached
  <2>2. CASE \E t \in Slots : /\ in_flight'[t] # None
                              /\ in_flight'[t].venue_id = u /\ in_flight'[t].instrument_id = j
    BY <1>2, <1>4, <1>5, <2>2 DEF Reached
  <2> QED BY <2>1, <2>2 DEF Reached
<1>6. Cardinality(Reached(v)') <= venue_limits[v].max_positions + Cardinality(Slots) - 1
  <2> DEFINE T == {t \in Slots \ {s} : in_flight[t] # None}
             R == {in_flight[t].instrument_id : t \in T}
             H == HeldAt(v) \cup {i}
  <2>1. /\ IsFiniteSet(T) /\ Cardinality(T) \in Nat /\ Cardinality(Slots) \in Nat
        /\ Cardinality(T) <= Cardinality(Slots) - 1
    <3>1. /\ IsFiniteSet(Slots \ {s}) /\ Cardinality(Slots \ {s}) = Cardinality(Slots) - 1
          /\ Cardinality(Slots) \in Nat
      BY SubsetCardinality, OrderIntakeAssumption
    <3>2. T \subseteq Slots \ {s}
      OBVIOUS
    <3> HIDE DEF T
    <3> QED BY <3>1, <3>2, SubsetCardinality
  <2>2. IsFiniteSet(R) /\ Cardinality(R) <= Cardinality(T)
    <3> DEFINE f == [t \in T |-> in_flight[t].instrument_id]
    <3>1. f \in [T -> R] /\ \A y \in R : \E t \in T : f[t] = y
      OBVIOUS
    <3> HIDE DEF f, T, R
    <3> QED BY <2>1, <3>1, FewValues
  <2>3. Cardinality(H) <= venue_limits[v].max_positions /\ venue_limits[v].max_positions \in Nat
    BY <1>2, <1>3 DEF FillsWithin, WithinAfter, Configured
  <2>4. IsFiniteSet(H)
    <3>1. H \subseteq Instruments
      BY <1>3 DEF HeldAt
    <3> QED BY <3>1, FS_Subset, OrderIntakeAssumption
  <2>5. Reached(v)' \subseteq H \cup R
    <3> SUFFICES ASSUME NEW j \in Instruments, j \in Reached(v)' PROVE j \in H \cup R
      BY DEF Reached
    <3>1. CASE j \in HeldAt(v)'
      BY <1>1, <3>1
    <3>2. CASE \E t \in Slots : /\ in_flight'[t] # None
                                /\ in_flight'[t].venue_id = v /\ in_flight'[t].instrument_id = j
      <4>1. PICK t \in Slots : in_flight'[t] # None /\ in_flight'[t].instrument_id = j
        BY <3>2
      <4>2. CASE t = s
        BY <1>2, <1>4, <4>1, <4>2
      <4>3. CASE t # s
        BY <1>4, <4>1, <4>3
      <4> QED BY <4>2, <4>3
    <3> QED BY <3>1, <3>2 DEF Reached
  <2> HIDE DEF T, R, H
  <2>6. /\ IsFiniteSet(H \cup R)
        /\ Cardinality(H \cup R) = Cardinality(H) + Cardinality(R) - Cardinality(H \cap R)
    BY <2>2, <2>4, FS_Union
  <2>7. Cardinality(Reached(v)') <= Cardinality(H \cup R)
    BY <2>5, <2>6, FS_Subset
  <2>8. IsFiniteSet(H \cap R)
    BY <2>4, FS_Intersection
  <2>9. PICK h \in Nat, x \in Nat, y \in Nat, z \in Nat :
          /\ h = Cardinality(H) /\ x = Cardinality(R) /\ y = Cardinality(H \cap R)
          /\ z = Cardinality(Reached(v)')
    BY <2>2, <2>4, <2>8, ReachedTyped, FS_CardinalityType
  <2>10. z <= h + x - y
    BY <2>6, <2>7, <2>9
  <2> QED BY <2>1, <2>2, <2>3, <2>9, <2>10
<1>7. ASSUME NEW u \in Venues
      PROVE  Cardinality(Reached(u)') <= venue_limits[u].max_positions + Cardinality(Slots) - 1
  <2>1. CASE u = v
    BY <1>6, <2>1
  <2>2. CASE u # v
    <3>1. PICK k \in Nat, l \in Nat : k = Cardinality(Reached(u)') /\ l = Cardinality(Reached(u))
      BY ReachedTyped, FS_CardinalityType
    <3>2. k <= l
      BY <1>5, <2>2, <3>1, ReachedTyped, FS_Subset
    <3>3. PICK c \in Int : c = venue_limits[u].max_positions + Cardinality(Slots) - 1
      BY CapTyped DEF Configured
    <3>4. l <= c
      BY <3>1, <3>3 DEF PositionsWithin
    <3> QED BY <3>1, <3>2, <3>3, <3>4
  <2> QED BY <2>1, <2>2
<1> QED BY <1>7 DEF PositionsWithin

\* A fill of d moves what the owners of the order hold.
LEMMA HoldsMove ==
  ASSUME positions \in Positions, NEW core \in OrderCores, NEW d \in Int, NEW i,
         i = core.instrument_id,
         positions' = [positions EXCEPT ![<<core.agent_id, i, core.venue_id>>] = @ + d],
         NEW o \in Owners
  PROVE  Holds(o)' = IF Concerns(o, core) THEN Moved(Holds(o), i, d) ELSE Holds(o)
<1>1. core.agent_id \in Agents /\ i \in Instruments /\ core.venue_id \in Venues
  BY DEF OrderCores
<1>2. FiguresMove(core.agent_id, i, core.venue_id, d)
  BY <1>1, FiguresAfterFill
<1>3. CASE \E a \in Agents : o = Agent(a)
  <2>1. PICK a \in Agents : o = Agent(a)
    BY <1>3
  <2>2. /\ Concerns(o, core) <=> core.agent_id = a
        /\ Holds(o) = [j \in Instruments |-> AgentQty(a, j)]
        /\ Holds(o)' = [j \in Instruments |-> AgentQty(a, j)']
    BY <2>1 DEF Concerns, Holds, Agent
  <2>3. \A j \in Instruments :
          AgentQty(a, j)' = IF a = core.agent_id /\ j = i THEN AgentQty(a, j) + d ELSE AgentQty(a, j)
    BY <1>2 DEF FiguresMove
  <2> QED BY <1>1, <2>2, <2>3 DEF Moved
<1>4. CASE \E v \in Venues : o = Venue(v)
  <2>1. PICK v \in Venues : o = Venue(v)
    BY <1>4
  <2>2. /\ Concerns(o, core) <=> core.venue_id = v
        /\ Holds(o) = [j \in Instruments |-> VenueQty(v, j)]
        /\ Holds(o)' = [j \in Instruments |-> VenueQty(v, j)']
    BY <2>1 DEF Concerns, Holds, Venue
  <2>3. \A j \in Instruments :
          VenueQty(v, j)' = IF v = core.venue_id /\ j = i THEN VenueQty(v, j) + d ELSE VenueQty(v, j)
    BY <1>2 DEF FiguresMove
  <2> QED BY <1>1, <2>2, <2>3 DEF Moved
<1>5. CASE o = Firm
  <2>1. /\ Concerns(o, core)
        /\ Holds(o) = [j \in Instruments |-> FirmNetQty(j)]
        /\ Holds(o)' = [j \in Instruments |-> FirmNetQty(j)']
    BY <1>5 DEF Concerns, Holds, Firm
  <2>2. \A j \in Instruments :
          FirmNetQty(j)' = IF j = i THEN FirmNetQty(j) + d ELSE FirmNetQty(j)
    BY <1>2 DEF FiguresMove
  <2> QED BY <1>1, <2>1, <2>2 DEF Moved
<1> QED BY <1>3, <1>4, <1>5 DEF Owners

\* Without a fill, what is held stays.
LEMMA HoldsUnchanged ==
  ASSUME UNCHANGED positions, NEW o
  PROVE  Holds(o)' = Holds(o)
<1>1. /\ \A a, i : AgentQty(a, i)' = AgentQty(a, i)
      /\ \A v, i : VenueQty(v, i)' = VenueQty(v, i)
      /\ \A i : FirmNetQty(i)' = FirmNetQty(i)
  BY FiguresUnchanged
<1> QED BY <1>1 DEF Holds

\* The band of an order's price, as the hypothesis has it.
Banded(core) ==
  core.price # None /\ core.price > 0 => 100 * Price[core.instrument_id] <= PriceBand * core.price

\* An approved order is within the cap.
LEMMA ApprovedIsWorking ==
  ASSUME Configured, positions \in Positions, NEW core \in OrderCores, Banded(core), NEW path,
         Evaluate(core, FirmBook, path) = Approved
  PROVE  Working(core) /\ FillsWithin(core)
<1>1. core.qty \in Nat \ {0} /\ core.price \in Nat \ {0} /\ FillsWithin(core)
  BY ApprovedFillsWithin
<1>2. EffectiveNav(FirmBook) = Nav /\ Nav \in Int
  BY OrderIntakeAssumption DEF EffectiveNav, FirmBook
<1>3. ResizeCandidates(core, Nav) = {}
  BY <1>2, ApprovedMeansClear
<1>4. ~ (100 * core.qty * core.price > Nav * position_nav_cap)
  BY <1>3 DEF ResizeCandidates
<1>5. PICK m \in Int : m = Nav * position_nav_cap
  BY <1>2 DEF position_nav_cap
<1>6. PICK x \in Int : x = core.price * core.qty
  BY <1>1
<1>7. 100 * core.qty * core.price = 100 * x
  BY <1>1, <1>6
<1>8. 100 * x <= m
  BY <1>4, <1>5, <1>7
<1>9. x <= m \div 100
  BY <1>8
<1>10. 100 * Price[core.instrument_id] <= PriceBand * core.price
  BY <1>1, OrderIntakeAssumption DEF Banded
<1> QED BY <1>1, <1>5, <1>6, <1>9, <1>10 DEF Working, OrderCap

\* Approving an order keeps the invariant.
LEMMA AdmitKeepsInv ==
  ASSUME Configured, IntakeInv, NEW core \in OrderCores, Banded(core), NEW path, Admit(core, path)
  PROVE  IntakeInv'
<1>1. /\ BookTyped /\ CashWithin /\ PositionsWithin
      /\ \A o, sign, L : LimitOf(o, sign, L) => Within(o, sign, L)
  BY DEF IntakeInv
<1>2. positions \in Positions /\ cash \in Int /\ in_flight \in [Slots -> OrderCores \cup {None}]
  BY <1>1 DEF BookTyped
<1>3. /\ UNCHANGED <<positions, cash>> /\ Evaluate(core, FirmBook, path) = Approved
      /\ \E s \in Slots : in_flight[s] = None /\ in_flight' = [in_flight EXCEPT ![s] = core]
  BY DEF Admit
<1>4. PICK s \in Slots : in_flight[s] = None /\ in_flight' = [in_flight EXCEPT ![s] = core]
  BY <1>3
<1>5. Working(core) /\ FillsWithin(core)
  BY <1>2, <1>3, ApprovedIsWorking
<1>6. SameOn(in_flight, in_flight', Slots \ {s}) /\ in_flight'[s] = core /\ core # None
  BY <1>2, <1>4, OrderIntakeAssumption DEF SameOn
<1>7. BookTyped'
  <2>1. in_flight' \in [Slots -> OrderCores \cup {None}]
    BY <1>2, <1>4
  <2>2. \A t \in Slots : in_flight'[t] = None \/ Working(in_flight'[t])
    BY <1>1, <1>5, <1>6 DEF BookTyped, SameOn
  <2> QED BY <1>2, <1>3, <2>1, <2>2 DEF BookTyped, Positions, Working, OrderCap
<1>8. CashWithin'
  <2>1. ASSUME Cost(core) > 0 PROVE - cash + Cost(core) \in CashLimit
    <3>1. core.side = "Buy" /\ Cost(core) = core.price * core.qty
      BY <1>6, <2>1 DEF Cost
    <3>2. core.price \in Nat /\ core.qty \in Nat
      BY <1>5 DEF Working
    <3>3. PICK x \in Int : x = core.price * core.qty
      BY <3>2
    <3>4. Value(core) = x
      <4>1. core.qty * core.price = core.price * core.qty
        BY <3>2
      <4> QED BY <3>1, <3>3, <4>1 DEF Value, SignedDelta
    <3>5. 100 * (cash - x) >= cash_reserve_min_pct * Nav
      BY <1>5, <3>4 DEF FillsWithin, WithinAfter
    <3>6. - (- cash + x) = cash - x /\ - cash + x \in Int
      BY <1>2
    <3> QED BY <3>1, <3>3, <3>5, <3>6 DEF CashLimit
  <2> QED BY <1>1, <1>3, <1>4, <1>6, <1>7, <2>1, CashStepWithin
<1>9. PositionsWithin'
  BY <1>1, <1>2, <1>3, <1>4, <1>5, ReachedAfterAdmit
<1>10. ASSUME NEW o, NEW sign, NEW L, LimitOf(o, sign, L) PROVE Within(o, sign, L)'
  <2>1. PICK q : q = Holds(o)
    OBVIOUS
  <2>2. q = Holds(o)' /\ q \in Quantities
    BY <1>2, <1>3, <1>10, <2>1, HoldsUnchanged, LimitsAreLimits, HoldsTyped
  <2>3. ASSUME Share(o, sign, core) > 0 PROVE Worth(sign, q) + Share(o, sign, core) - Slack \in L
    <3>1. PICK w : w = Price[core.instrument_id] * (sign[core.instrument_id] * Signed(core))
      OBVIOUS
    <3>2. Concerns(o, core) /\ Share(o, sign, core) = Positive(w)
      BY <2>3, <3>1 DEF Share
    <3>3. w \in Int
      BY <1>5, <1>10, <3>1, LimitsAreLimits, WorkingOrder
    <3>4. w > 0 /\ Positive(w) = w
      BY <2>3, <3>2, <3>3 DEF Positive
    <3>5. Worth(sign, Holds(o)) + w - Slack \in L
      BY <1>2, <1>5, <1>10, <3>1, <3>2, <3>4, ApprovedWithinLimit
    <3> QED BY <2>1, <3>2, <3>4, <3>5
  <2>4. Within(o, sign, L)
    BY <1>1, <1>10
  <2> QED BY <1>1, <1>4, <1>6, <1>7, <1>10, <2>1, <2>2, <2>3, <2>4, SlotStepWithin
<1> QED BY <1>7, <1>8, <1>9, <1>10 DEF IntakeInv, LimitOf, GrossLimit, PositionLimit, NetLimit,
       VenueLimit, GrossWithin

\* A part of a trade, at price p and counted with sign e, is a part of the whole
\* and leaves the rest of it.
PartWorth(p, e, part, whole) ==
  /\ PartOf(p * (e * part), p * (e * whole))
  /\ p * (e * part) \in Int /\ p * (e * whole) \in Int
  /\ p * (e * (whole - part)) = p * (e * whole) - p * (e * part)

\* A part of a trade is worth a part of it.
LEMMA PartOfWorth ==
  ASSUME NEW p \in Nat, NEW e \in {-1, 0, 1}, NEW whole \in Int, NEW part \in Int,
         PartOf(part, whole)
  PROVE  PartWorth(p, e, part, whole)
<1>1. PICK x \in Int, y \in Int : x = e * part /\ y = e * whole
  OBVIOUS
<1>2. PartOf(x, y) /\ e * (whole - part) = y - x
  BY <1>1 DEF PartOf
<1>3. /\ x <= y => p * x <= p * y
      /\ y <= x => p * y <= p * x
      /\ 0 <= x => p * 0 <= p * x
      /\ x <= 0 => p * x <= p * 0
      /\ y <= 0 => p * y <= p * 0
      /\ 0 <= y => p * 0 <= p * y
  BY TimesMonotone
<1>4. p * 0 = 0 /\ p * x \in Int /\ p * y \in Int
  OBVIOUS
<1>5. p * (y - x) = p * y - p * x
  OBVIOUS
<1>6. PICK m \in Int, n \in Int : m = p * x /\ n = p * y
  BY <1>4
<1>7. PartOf(m, n)
  <2>1. CASE y >= 0 /\ n >= 0
    <3>1. 0 <= m /\ m <= n
      BY <1>2, <1>3, <1>4, <1>6, <2>1 DEF PartOf
    <3> QED BY <2>1, <3>1 DEF PartOf
  <2>2. CASE y < 0
    <3>1. m <= 0 /\ n <= m
      BY <1>2, <1>3, <1>4, <1>6, <2>2 DEF PartOf
    <3> QED BY <3>1 DEF PartOf
  <2>3. y >= 0 => n >= 0
    BY <1>3, <1>4, <1>6
  <2> QED BY <2>1, <2>2, <2>3
<1> QED BY <1>1, <1>2, <1>4, <1>5, <1>6, <1>7 DEF PartWorth

\* What a part adds and what the rest may still add is no more than what the
\* whole might have.
LEMMA PartIsHeld ==
  ASSUME NEW W \in Int, NEW D \in Int, PartOf(D, W)
  PROVE  D + Positive(W - D) <= Positive(W)
BY DEF PartOf, Positive

\* Filling an order, in part or to its end, keeps the invariant.
LEMMA FillKeepsInv ==
  ASSUME Configured, IntakeInv, NEW s \in Slots, in_flight[s] # None,
         NEW qty \in 1 .. in_flight[s].qty, Fill(s, qty)
  PROVE  IntakeInv'
<1>0. PICK core : core = in_flight[s]
  OBVIOUS
<1>1. /\ BookTyped /\ CashWithin /\ PositionsWithin
      /\ \A o, sign, L : LimitOf(o, sign, L) => Within(o, sign, L)
  BY DEF IntakeInv
<1>2. positions \in Positions /\ cash \in Int /\ in_flight \in [Slots -> OrderCores \cup {None}]
  BY <1>1 DEF BookTyped
<1>3. PICK d, i : d = SignedDelta(core.side, qty) /\ i = core.instrument_id
  OBVIOUS
<1>4. Working(core) /\ core \in OrderCores
  BY <1>0, <1>1 DEF BookTyped, Working
<1>5. /\ core.agent_id \in Agents /\ i \in Instruments /\ core.venue_id \in Venues
      /\ core.side \in {"Buy", "Sell"} /\ core.price \in Nat \ {0}
      /\ Price[i] \in Nat /\ Price[i] \in Int
      /\ core.qty \in Nat \ {0} /\ qty \in Int /\ qty >= 1 /\ qty <= core.qty
      /\ core.price * core.qty <= OrderCap /\ OrderCap \in Nat
      /\ 100 * Price[i] <= PriceBand * core.price
  BY <1>0, <1>3, <1>4, CapTyped, OrderIntakeAssumption DEF Working, OrderCores
<1>6. /\ d \in Int /\ Signed(core) \in Int /\ PartOf(d, Signed(core))
      /\ Signed(core) - d = SignedDelta(core.side, core.qty - qty)
  BY <1>3, <1>5 DEF Signed, SignedDelta, PartOf
<1>7. PICK rest : rest = IF qty = core.qty THEN None ELSE [core EXCEPT !.qty = core.qty - qty]
  OBVIOUS
<1>8. /\ positions' = [positions EXCEPT ![<<core.agent_id, i, core.venue_id>>] = @ + d]
      /\ cash' = cash - SignedDelta(core.side, qty * core.price)
      /\ in_flight' = [in_flight EXCEPT ![s] = rest]
  BY <1>0, <1>3, <1>7 DEF Fill
<1>9. PICK x \in Nat, y \in Nat, z \in Nat :
        /\ x = core.price * core.qty /\ y = core.price * qty /\ z = core.price * (core.qty - qty)
        /\ x = y + z /\ qty * core.price = y
  <2>1. core.price * core.qty \in Nat
    BY <1>5
  <2>2. core.price * qty \in Nat
    BY <1>5
  <2>3. core.qty - qty \in Nat
    BY <1>5
  <2>4. core.price * (core.qty - qty) \in Nat
    BY <1>5, <2>3
  <2>5. core.price * core.qty = core.price * qty + core.price * (core.qty - qty)
    BY <1>5
  <2>6. qty * core.price = core.price * qty
    BY <1>5
  <2> QED BY <2>1, <2>2, <2>4, <2>5, <2>6
<1>10. qty # core.qty =>
         /\ Working(rest) /\ rest # None /\ rest.instrument_id = i
         /\ rest.venue_id = core.venue_id /\ Cost(rest) = IF core.side = "Buy" THEN z ELSE 0
         /\ Signed(rest) = Signed(core) - d
         /\ \A o : Concerns(o, rest) <=> Concerns(o, core)
  <2> SUFFICES ASSUME qty # core.qty
               PROVE  /\ Working(rest) /\ rest # None /\ rest.instrument_id = i
                      /\ rest.venue_id = core.venue_id
                      /\ Cost(rest) = IF core.side = "Buy" THEN z ELSE 0
                      /\ Signed(rest) = Signed(core) - d
                      /\ \A o : Concerns(o, rest) <=> Concerns(o, core)
    OBVIOUS
  <2>1. rest = [core EXCEPT !.qty = core.qty - qty]
    BY <1>7
  <2>2. core.qty - qty \in Nat \ {0} /\ core.qty - qty <= core.qty /\ core.qty - qty \in Int
    BY <1>5
  <2>3. /\ rest \in OrderCores /\ rest.qty = core.qty - qty /\ rest.price = core.price
        /\ rest.side = core.side /\ rest.agent_id = core.agent_id
        /\ rest.instrument_id = i /\ rest.venue_id = core.venue_id
    BY <1>3, <1>4, <2>1, <2>2 DEF OrderCores
  <2>4. rest.price * rest.qty <= OrderCap
    BY <1>5, <1>9, <2>3
  <2>5. Working(rest) /\ rest # None
    BY <1>5, <2>2, <2>3, <2>4, OrderIntakeAssumption DEF Working
  <2>6. Cost(rest) = IF core.side = "Buy" THEN z ELSE 0
    BY <1>9, <2>3, <2>5 DEF Cost
  <2> QED BY <1>6, <2>3, <2>5, <2>6 DEF Signed, Concerns
<1>11. SameOn(in_flight, in_flight', Slots \ {s}) /\ in_flight'[s] = rest
  BY <1>2, <1>8 DEF SameOn
<1>12. BookTyped'
  <2>1. in_flight' \in [Slots -> OrderCores \cup {None}]
    BY <1>2, <1>7, <1>8, <1>10 DEF Working
  <2>2. \A t \in Slots : in_flight'[t] = None \/ Working(in_flight'[t])
    BY <1>1, <1>7, <1>10, <1>11 DEF BookTyped, SameOn
  <2>3. positions' \in Positions
    BY <1>2, <1>5, <1>6, <1>8, FiguresAfterFill
  <2>4. cash' \in Int
    BY <1>2, <1>5, <1>8, <1>9 DEF SignedDelta
  <2> QED BY <2>1, <2>2, <2>3, <2>4 DEF BookTyped, Positions, Working, OrderCap
<1>13. ASSUME NEW o \in Owners, NEW sign \in Signs
       PROVE  /\ Holds(o) \in Quantities /\ Holds(o)' \in Quantities
              /\ Worth(sign, Holds(o)) \in Int
              /\ Worth(sign, Holds(o)') =
                   Worth(sign, Holds(o)) + IF Concerns(o, core) THEN Price[i] * (sign[i] * d) ELSE 0
  <2>1. PICK q, r : q = Holds(o) /\ r = Holds(o)'
    OBVIOUS
  <2>2. q \in Quantities /\ Worth(sign, q) \in Int
    BY <1>2, <2>1, HoldsTyped, WorthTyped
  <2>3. r = IF Concerns(o, core) THEN Moved(q, i, d) ELSE q
    BY <1>2, <1>3, <1>4, <1>6, <1>8, <2>1, HoldsMove
  <2>4. CASE Concerns(o, core)
    BY <1>5, <1>6, <2>1, <2>2, <2>3, <2>4, WorthMoves
  <2>5. CASE ~ Concerns(o, core)
    BY <2>1, <2>2, <2>3, <2>5
  <2> QED BY <2>4, <2>5
<1>14. CashWithin'
  <2>1. Cost(core) = IF core.side = "Buy" THEN x ELSE 0
    BY <1>0, <1>9 DEF Cost
  <2>2. Cost(rest) = IF core.side = "Buy" THEN z ELSE 0
    <3>1. CASE qty = core.qty
      <4>1. core.qty - qty = 0 /\ core.price * 0 = 0
        BY <1>5, <3>1
      <4> QED BY <1>7, <1>9, <3>1, <4>1 DEF Cost
    <3>2. CASE qty # core.qty
      BY <1>10, <3>2
    <3> QED BY <3>1, <3>2
  <2>3. cash' = IF core.side = "Buy" THEN cash - y ELSE cash + y
    BY <1>2, <1>5, <1>8, <1>9 DEF SignedDelta
  <2>4. - cash' + Cost(rest) <= - cash + Cost(core)
    BY <1>2, <1>9, <2>1, <2>2, <2>3
  <2> QED BY <1>0, <1>1, <1>11, <1>12, <2>4, CashStepWithin
<1>15. PositionsWithin'
  <2>1. FiguresMove(core.agent_id, i, core.venue_id, d)
    BY <1>2, <1>5, <1>6, <1>8, FiguresAfterFill
  <2>2. ASSUME NEW v \in Venues PROVE Reached(v)' \subseteq Reached(v)
    <3> SUFFICES ASSUME NEW j \in Instruments, j \in Reached(v)' PROVE j \in Reached(v)
      BY DEF Reached
    <3>1. CASE v = core.venue_id /\ j = i
      BY <1>0, <1>3, <3>1 DEF Reached
    <3>2. CASE j \in HeldAt(v)' /\ ~ (v = core.venue_id /\ j = i)
      <4>1. VenueQty(v, j)' = VenueQty(v, j)
        BY <2>1, <3>2 DEF FiguresMove
      <4>2. VenueQty(v, j)' # 0
        BY <3>2 DEF HeldAt
      <4> QED BY <4>1, <4>2 DEF Reached, HeldAt
    <3>3. CASE /\ ~ (v = core.venue_id /\ j = i)
               /\ \E t \in Slots : /\ in_flight'[t] # None
                                   /\ in_flight'[t].venue_id = v /\ in_flight'[t].instrument_id = j
      <4>1. PICK t \in Slots : /\ in_flight'[t] # None
                               /\ in_flight'[t].venue_id = v /\ in_flight'[t].instrument_id = j
        BY <3>3
      <4>2. t # s
        BY <1>7, <1>10, <1>11, <3>3, <4>1
      <4>3. in_flight'[t] = in_flight[t]
        BY <1>11, <4>2 DEF SameOn
      <4> QED BY <4>1, <4>3 DEF Reached
    <3> QED BY <3>1, <3>2, <3>3 DEF Reached
  <2> QED BY <1>1, <2>2, ReachedShrinks
<1>16. ASSUME NEW o, NEW sign, NEW L, LimitOf(o, sign, L) PROVE Within(o, sign, L)'
  <2>1. PICK q, r : q = Holds(o) /\ r = Holds(o)'
    OBVIOUS
  <2>2. o \in Owners /\ sign \in Signs /\ sign[i] \in {-1, 0, 1}
    BY <1>5, <1>16, LimitsAreLimits DEF Signs
  <2>3. PICK W, D : W = Price[i] * (sign[i] * Signed(core)) /\ D = Price[i] * (sign[i] * d)
    OBVIOUS
  <2>4. /\ W \in Int /\ D \in Int /\ PartOf(D, W)
        /\ Price[i] * (sign[i] * (Signed(core) - d)) = W - D
    <3>1. PartWorth(Price[i], sign[i], d, Signed(core))
      BY <1>5, <1>6, <2>2, PartOfWorth
    <3> QED BY <2>3, <3>1 DEF PartWorth
  <2>5. /\ q \in Quantities /\ r \in Quantities /\ Worth(sign, q) \in Int
        /\ Worth(sign, r) = Worth(sign, q) + IF Concerns(o, core) THEN D ELSE 0
    BY <1>13, <2>1, <2>2, <2>3
  <2>6. Worth(sign, r) + Share(o, sign, rest) <= Worth(sign, q) + Share(o, sign, core)
    <3>1. CASE Concerns(o, core)
      <4>1. Share(o, sign, core) = Positive(W)
        BY <1>0, <1>3, <2>3, <3>1 DEF Share
      <4>2. Share(o, sign, rest) = Positive(W - D)
        <5>1. CASE qty = core.qty
          <6>1. Signed(core) = d
            BY <1>3, <5>1 DEF Signed
          <6>2. W - D = 0
            BY <2>3, <2>4, <6>1
          <6> QED BY <1>7, <5>1, <6>2 DEF Share, Positive
        <5>2. CASE qty # core.qty
          BY <1>10, <2>4, <3>1, <5>2 DEF Share
        <5> QED BY <5>1, <5>2
      <4>3. D + Positive(W - D) <= Positive(W) /\ Positive(W - D) \in Int /\ Positive(W) \in Int
        BY <2>4, PartIsHeld DEF Positive
      <4> QED BY <2>4, <2>5, <3>1, <4>1, <4>2, <4>3
    <3>2. CASE ~ Concerns(o, core)
      <4>1. Share(o, sign, core) = 0 /\ Share(o, sign, rest) = 0
        BY <1>7, <1>10, <3>2 DEF Share
      <4> QED BY <2>5, <3>2, <4>1
    <3> QED BY <3>1, <3>2
  <2>7. Within(o, sign, L)
    BY <1>1, <1>16
  <2> QED BY <1>0, <1>1, <1>11, <1>12, <1>16, <2>1, <2>5, <2>6, <2>7, SlotStepWithin
<1> QED BY <1>12, <1>14, <1>16, <1>15 DEF IntakeInv, LimitOf, GrossLimit, PositionLimit, NetLimit,
       VenueLimit, GrossWithin

\* Cancelling what is left of an order keeps the invariant.
LEMMA CancelKeepsInv ==
  ASSUME Configured, IntakeInv, NEW s \in Slots, Cancel(s)
  PROVE  IntakeInv'
<1>1. /\ BookTyped /\ CashWithin /\ PositionsWithin
      /\ \A o, sign, L : LimitOf(o, sign, L) => Within(o, sign, L)
  BY DEF IntakeInv
<1>2. positions \in Positions /\ cash \in Int /\ in_flight \in [Slots -> OrderCores \cup {None}]
  BY <1>1 DEF BookTyped
<1>3. UNCHANGED <<positions, cash>> /\ in_flight' = [in_flight EXCEPT ![s] = None]
  BY DEF Cancel
<1>4. SameOn(in_flight, in_flight', Slots \ {s}) /\ in_flight'[s] = None
  BY <1>2, <1>3 DEF SameOn
<1>5. BookTyped'
  <2>1. in_flight' \in [Slots -> OrderCores \cup {None}]
    BY <1>2, <1>3
  <2>2. \A t \in Slots : in_flight'[t] = None \/ Working(in_flight'[t])
    BY <1>1, <1>4 DEF BookTyped, SameOn
  <2> QED BY <1>2, <1>3, <2>1, <2>2 DEF BookTyped, Positions, Working, OrderCap
<1>6. CashWithin' /\ PositionsWithin'
  <2>1. Cost(in_flight'[s]) = 0
    BY <1>4 DEF Cost
  <2>2. PICK x \in Int : x = Cost(in_flight[s]) /\ x >= 0
    BY <1>1, CostTyped, CapTyped DEF BookTyped
  <2>3. - cash' + Cost(in_flight'[s]) <= - cash + Cost(in_flight[s])
    BY <1>2, <1>3, <2>1, <2>2
  <2>4. ASSUME NEW v \in Venues PROVE Reached(v)' \subseteq Reached(v)
    <3>1. HeldAt(v)' = HeldAt(v)
      BY <1>3, FiguresUnchanged DEF HeldAt
    <3>2. \A t \in Slots : in_flight'[t] # None => in_flight'[t] = in_flight[t]
      BY <1>4 DEF SameOn
    <3> QED BY <3>1, <3>2 DEF Reached
  <2> QED BY <1>1, <1>4, <1>5, <2>3, <2>4, CashStepWithin, ReachedShrinks
<1>7. ASSUME NEW o, NEW sign, NEW L, LimitOf(o, sign, L) PROVE Within(o, sign, L)'
  <2>1. PICK q : q = Holds(o)
    OBVIOUS
  <2>2. o \in Owners /\ sign \in Signs
    BY <1>7, LimitsAreLimits
  <2>3. q = Holds(o)' /\ q \in Quantities
    BY <1>2, <1>3, <2>1, <2>2, HoldsUnchanged, HoldsTyped
  <2>4. Worth(sign, q) + Share(o, sign, in_flight'[s])
          <= Worth(sign, q) + Share(o, sign, in_flight[s])
    <3>1. Share(o, sign, in_flight[s]) \in 0 .. MarkedCap /\ MarkedCap \in Nat
      BY <1>1, <2>2, ShareTyped, CapTyped DEF BookTyped
    <3>2. Share(o, sign, in_flight'[s]) = 0
      BY <1>4 DEF Share
    <3>3. Worth(sign, q) \in Int
      BY <2>2, <2>3, WorthTyped
    <3>4. PICK x \in Int : x = Share(o, sign, in_flight[s]) /\ x >= 0
      BY <3>1
    <3> QED BY <3>2, <3>3, <3>4
  <2>5. Within(o, sign, L)
    BY <1>1, <1>7
  <2> QED BY <1>1, <1>4, <1>5, <1>7, <2>1, <2>3, <2>4, <2>5, SlotStepWithin
<1> QED BY <1>5, <1>6, <1>7 DEF IntakeInv, LimitOf, GrossLimit, PositionLimit, NetLimit,
       VenueLimit, GrossWithin

\* The invariant holds of a firm without positions or orders.
LEMMA IntakeInit ==
  ASSUME Configured, Init
  PROVE  IntakeInv
<1>1. positions = [x \in Agents \X Instruments \X Venues |-> 0] /\ cash = InitialCash
      /\ in_flight = [s \in Slots |-> None]
  BY DEF Init
<1>2. BookTyped
  BY <1>1, OrderIntakeAssumption DEF BookTyped, Positions
<1>3. ASSUME NEW o \in Owners
      PROVE  Holds(o) \in Quantities /\ \A j \in Instruments : Holds(o)[j] = 0
  <2>1. /\ \A a \in Agents, i \in Instruments : AgentQty(a, i) = 0
        /\ \A v \in Venues, i \in Instruments : VenueQty(v, i) = 0
        /\ \A i \in Instruments : FirmNetQty(i) = 0
    BY <1>1, FiguresOfNothing
  <2>2. Holds(o) \in Quantities
    BY <1>2, HoldsTyped DEF BookTyped
  <2>3. CASE \E a \in Agents : o = Agent(a)
    BY <2>1, <2>2, <2>3, GrossOfHolds
  <2>4. CASE \E v \in Venues : o = Venue(v)
    BY <2>1, <2>2, <2>4, GrossOfHolds
  <2>5. CASE o = Firm
    BY <2>1, <2>2, <2>5, GrossOfHolds
  <2> QED BY <2>3, <2>4, <2>5 DEF Owners
<1>4. ASSUME NEW o \in Owners, NEW sign \in Signs PROVE Worth(sign, Holds(o)) = 0
  <2>1. PICK q : q = Holds(o) /\ q \in Quantities /\ \A j \in Instruments : q[j] = 0
    BY <1>3
  <2> DEFINE f == [j \in Instruments |-> Price[j] * (sign[j] * q[j])]
  <2>2. \A j \in Instruments : Price[j] * (sign[j] * q[j]) = 0
    <3> TAKE j \in Instruments
    <3>1. Price[j] \in Nat /\ sign[j] \in {-1, 0, 1} /\ q[j] = 0
      BY <2>1, OrderIntakeAssumption DEF Signs
    <3>2. sign[j] * q[j] = 0
      BY <3>1
    <3> QED BY <3>1, <3>2
  <2>3. f \in [Instruments -> Int] /\ \A j \in Instruments : f[j] = 0
    BY <2>2
  <2> HIDE DEF f
  <2>4. SumFunction(f) = 0
    BY <2>3, SumOfZeros, OrderIntakeAssumption
  <2> QED BY <2>1, <2>4 DEF Worth, f
<1>5. CashWithin
  <2>1. PICK x : x = Costs
    OBVIOUS
  <2>2. x \in [Slots -> Int] /\ \A s \in Slots : x[s] = 0
    BY <1>1, <2>1 DEF Costs, Cost
  <2>3. SumFunction(x) = 0
    BY <2>2, SumOfZeros, OrderIntakeAssumption
  <2>4. PICK n \in Nat, c \in Int : n = (Cardinality(Slots) - 1) * OrderCap /\ c = InitialCash
    BY CapTyped, OrderIntakeAssumption
  <2>5. Potential(- cash, x, Slots, OrderCap, 0) = - c + 0 - (n + 0)
    BY <1>1, <2>3, <2>4 DEF Potential
  <2>6. PICK m \in Int : m = cash_reserve_min_pct * Nav
    BY OrderIntakeAssumption DEF cash_reserve_min_pct
  <2>7. 100 * c >= m
    BY <2>4, <2>6 DEF Configured
  <2>8. 100 * (- (- c + 0 - (n + 0))) >= m /\ - c + 0 - (n + 0) \in Int
    BY <2>7
  <2> QED BY <2>1, <2>5, <2>6, <2>8 DEF CashWithin, CashLimit
<1>6. PositionsWithin
  <2> SUFFICES ASSUME NEW v \in Venues
               PROVE  Cardinality(Reached(v))
                        <= venue_limits[v].max_positions + Cardinality(Slots) - 1
    BY DEF PositionsWithin
  <2>1. \A i \in Instruments : VenueQty(v, i) = 0
    BY <1>1, FiguresOfNothing
  <2>2. Reached(v) = {}
    BY <1>1, <2>1 DEF Reached, HeldAt
  <2>3. Cardinality(Reached(v)) = 0
    BY <2>2, FS_EmptySet
  <2>4. PICK a \in Nat, b \in Nat \ {0} :
          a = venue_limits[v].max_positions /\ b = Cardinality(Slots)
    BY CapTyped DEF Configured
  <2>5. 0 <= a + b - 1
    OBVIOUS
  <2> QED BY <2>3, <2>4, <2>5
<1>7. ASSUME NEW o, NEW sign, NEW L, LimitOf(o, sign, L) PROVE Within(o, sign, L)
  <2>1. o \in Owners /\ sign \in Signs /\ Limit(L) /\ 0 \in L
    BY <1>7, LimitsAreLimits
  <2>2. PICK x : x = Shares(o, sign)
    OBVIOUS
  <2>3. x \in [Slots -> Int] /\ \A s \in Slots : x[s] = 0
    BY <1>1, <2>2 DEF Shares, Share
  <2>4. SumFunction(x) = 0
    BY <2>3, SumOfZeros, OrderIntakeAssumption
  <2>5. PICK n \in Nat : n = (Cardinality(Slots) - 1) * MarkedCap + Slack
    BY CapTyped
  <2>6. Worth(sign, Holds(o)) = 0
    BY <1>4, <2>1
  <2>7. Potential(Worth(sign, Holds(o)), x, Slots, MarkedCap, Slack) = 0 + 0 - n
    BY <2>4, <2>5, <2>6 DEF Potential
  <2>8. 0 + 0 - n \in Int /\ 0 + 0 - n <= 0
    OBVIOUS
  <2>9. 0 + 0 - n \in L
    BY <2>1, <2>8 DEF Limit
  <2> QED BY <2>2, <2>7, <2>9 DEF Within
<1> QED BY <1>2, <1>5, <1>7, <1>6 DEF IntakeInv

\* Every step keeps the invariant.
LEMMA IntakeStep ==
  ASSUME Configured, PricedWithinBand, IntakeInv, [Next]_vars
  PROVE  IntakeInv'
<1>1. ASSUME NEW core \in Orders, SubmitOrder(core) PROVE IntakeInv'
  <2>1. core \in OrderCores /\ Banded(core)
    BY OrderIntakeAssumption DEF PricedWithinBand, Banded
  <2> QED BY <1>1, <2>1, AdmitKeepsInv DEF SubmitOrder
<1>2. ASSUME NEW core \in Orders, SubmitResized(core) PROVE IntakeInv'
  <2> DEFINE cut == Cut(core, Evaluate(core, FirmBook, "SubmitOrder").new_qty)
  <2>1. core \in OrderCores /\ Banded(core)
    BY OrderIntakeAssumption DEF PricedWithinBand, Banded
  <2>2. Evaluate(core, FirmBook, "SubmitOrder").kind = "Resized" /\ Admit(cut, "SubmitOrder")
    BY <1>2 DEF SubmitResized
  <2> HIDE DEF cut
  <2>3. cut \in OrderCores /\ cut.instrument_id = core.instrument_id /\ cut.price = core.price
    BY <2>1, <2>2, ResizedIsAnOrder DEF cut
  <2>4. Banded(cut)
    BY <2>1, <2>3 DEF Banded
  <2> QED BY <2>2, <2>3, <2>4, AdmitKeepsInv
<1>3. ASSUME NEW signal \in Signals, SubmitSignal(signal) PROVE IntakeInv'
  <2>1. PICK now \in Conditions : \E core \in DraftsOf(signal, now) : Admit(core, "SubmitSignal")
    BY <1>3 DEF SubmitSignal
  <2>2. PICK core \in DraftsOf(signal, now) : Admit(core, "SubmitSignal")
    BY <2>1
  <2>3. DraftOf(core, signal, now.connected)
    BY DraftsAreOrders
  <2>4. core \in OrderCores /\ core.price = Price[core.instrument_id]
    BY <2>3 DEF DraftOf, AtMark
  <2>5. Banded(core)
    <3>1. PICK m \in Nat : m = core.price
      BY <2>4, OrderIntakeAssumption DEF OrderCores
    <3>2. m * 100 <= m * PriceBand
      BY TimesMonotone, OrderIntakeAssumption
    <3>3. m * 100 = 100 * m /\ m * PriceBand = PriceBand * m
      BY OrderIntakeAssumption
    <3> QED BY <2>4, <3>1, <3>2, <3>3 DEF Banded
  <2> QED BY <2>2, <2>4, <2>5, AdmitKeepsInv
<1>4. ASSUME NEW s \in Slots, Cancel(s) PROVE IntakeInv'
  BY <1>4, CancelKeepsInv
<1>5. ASSUME NEW s \in Slots, in_flight[s] # None, NEW qty \in 1 .. in_flight[s].qty, Fill(s, qty)
      PROVE  IntakeInv'
  BY <1>5, FillKeepsInv
<1>6. CASE UNCHANGED vars
  <2>1. UNCHANGED <<positions, cash, in_flight>>
    BY <1>6 DEF vars
  <2>2. \A o : Holds(o)' = Holds(o)
    BY <2>1, HoldsUnchanged
  <2>3. \A o, sign, L : Within(o, sign, L) => Within(o, sign, L)'
    BY <2>1, <2>2 DEF Within, Potential, Shares, Worth, Share, MarkedCap, OrderCap, Slack, Concerns,
          Positive, Signed, SignedDelta
  <2>4. BookTyped'
    BY <2>1 DEF IntakeInv, BookTyped, Positions, Working, OrderCap
  <2>5. CashWithin'
    BY <2>1 DEF IntakeInv, CashWithin, Potential, Costs, Cost, OrderCap, CashLimit
  <2>6. PositionsWithin'
    <3>1. \A v : HeldAt(v)' = HeldAt(v)
      BY <2>1, FiguresUnchanged DEF HeldAt
    <3> QED BY <2>1, <3>1 DEF IntakeInv, PositionsWithin, Reached
  <2> QED BY <2>3, <2>4, <2>5, <2>6 DEF IntakeInv, LimitOf, GrossLimit, PositionLimit, NetLimit,
          VenueLimit, GrossWithin
<1> QED BY <1>1, <1>2, <1>3, <1>4, <1>5, <1>6 DEF Next

-----------------------------------------------------------------------------
(* The limits hold *)

\* What is held is within the potential.
LEMMA HeldWithin ==
  ASSUME Configured, IntakeInv, NEW o, NEW sign, NEW L, LimitOf(o, sign, L)
  PROVE  Worth(sign, Holds(o)) - Unbooked \in L
<1>1. o \in Owners /\ sign \in Signs /\ Limit(L)
  BY LimitsAreLimits
<1>2. PICK x : x = Shares(o, sign)
  OBVIOUS
<1>3. x \in [Slots -> 0 .. MarkedCap] /\ MarkedCap \in Nat
  BY <1>1, <1>2, SharesTyped, CapTyped DEF IntakeInv
<1>4. SumFunction(x) \in Int /\ SumFunction(x) >= 0
  BY <1>3, SumAtLeastZero, OrderIntakeAssumption
<1>5. PICK E : E = Worth(sign, Holds(o)) /\ E \in Int
  BY <1>1, HoldsTyped, WorthTyped DEF IntakeInv, BookTyped
<1>6. Unbooked \in Nat /\ Unbooked = (Cardinality(Slots) - 1) * MarkedCap + Slack
  BY CapTyped
<1>7. E + SumFunction(x) - Unbooked \in L
  BY <1>2, <1>5, <1>6 DEF IntakeInv, Within, Potential
<1>8. E - Unbooked \in Int /\ E - Unbooked <= E + SumFunction(x) - Unbooked
  BY <1>4, <1>5, <1>6
<1> QED BY <1>1, <1>5, <1>7, <1>8 DEF Limit

\* The limits of the book, one by one, from the signs that reach each figure.
LEMMA IntakeLimits ==
  ASSUME Configured, IntakeInv
  PROVE  LimitsHold
<1> USE OrderIntakeAssumption
<1>0. positions \in Positions /\ cash \in Int /\ Unbooked \in Nat
  BY CapTyped DEF IntakeInv, BookTyped
<1>1. ASSUME NEW a \in Agents
      PROVE  \E i \in Instruments : GrossWithin(a, AgentGross(a) - Unbooked, i)
  <2>1. PICK q : q = Holds(Agent(a)) /\ q \in Quantities
    BY <1>0, HoldsTyped DEF Owners
  <2>2. SignsOf(q) \in Signs /\ Worth(SignsOf(q), q) = AgentGross(a)
    BY <2>1, WorthOfSigns, GrossOfHolds
  <2>3. LimitOf(Agent(a), SignsOf(q), GrossLimit(a))
    BY <2>2 DEF LimitOf
  <2>4. AgentGross(a) - Unbooked \in GrossLimit(a)
    BY <2>1, <2>2, <2>3, HeldWithin
  <2> QED BY <2>4 DEF GrossLimit
<1>2. ASSUME NEW v \in Venues
      PROVE  VenueGross(v) - Unbooked \in VenueLimit(v)
  <2>1. PICK q : q = Holds(Venue(v)) /\ q \in Quantities
    BY <1>0, HoldsTyped DEF Owners
  <2>2. SignsOf(q) \in Signs /\ Worth(SignsOf(q), q) = VenueGross(v)
    BY <2>1, WorthOfSigns, GrossOfHolds
  <2>3. LimitOf(Venue(v), SignsOf(q), VenueLimit(v))
    BY <2>2 DEF LimitOf
  <2> QED BY <2>1, <2>2, <2>3, HeldWithin
<1>3. ASSUME NEW n \in Int
      PROVE  \E e \in {-1, 1} : e * n = Abs(n)
  BY DEF Abs
<1>4. ASSUME NEW a \in Agents, NEW i \in Instruments
      PROVE  Price[i] * Abs(AgentQty(a, i)) - Unbooked \in PositionLimit(a)
  <2>1. PICK q : q = Holds(Agent(a)) /\ q \in Quantities
    BY <1>0, HoldsTyped DEF Owners
  <2>2. q[i] = AgentQty(a, i) /\ q[i] \in Int
    BY <2>1, GrossOfHolds DEF Quantities
  <2>3. PICK e \in {-1, 1} : e * q[i] = Abs(q[i])
    BY <1>3, <2>2
  <2>4. Worth(Only(i, e), q) = Price[i] * Abs(q[i])
    BY <2>1, <2>3, WorthOfOne
  <2>5. LimitOf(Agent(a), Only(i, e), PositionLimit(a))
    BY DEF LimitOf
  <2>6. Worth(Only(i, e), q) - Unbooked \in PositionLimit(a)
    BY <2>1, <2>5, HeldWithin
  <2> QED BY <2>2, <2>4, <2>6
<1>5. ASSUME NEW i \in Instruments
      PROVE  Price[i] * Abs(FirmNetQty(i)) - Unbooked \in NetLimit(i)
  <2>1. PICK q : q = Holds(Firm) /\ q \in Quantities
    BY <1>0, HoldsTyped DEF Owners
  <2>2. q[i] = FirmNetQty(i) /\ q[i] \in Int
    BY <2>1, GrossOfHolds DEF Quantities
  <2>3. PICK e \in {-1, 1} : e * q[i] = Abs(q[i])
    BY <1>3, <2>2
  <2>4. Worth(Only(i, e), q) = Price[i] * Abs(q[i])
    BY <2>1, <2>3, WorthOfOne
  <2>5. LimitOf(Firm, Only(i, e), NetLimit(i))
    BY DEF LimitOf
  <2>6. Worth(Only(i, e), q) - Unbooked \in NetLimit(i)
    BY <2>1, <2>5, HeldWithin
  <2> QED BY <2>2, <2>4, <2>6
<1>6. ASSUME NEW i \in Instruments
      PROVE  Price[i] * FirmGrossQty(i)
               <= SumFunction([a \in Agents |-> agent_limits[a].max_position_notional + Unbooked])
  <2> DEFINE f == [a \in Agents |-> Abs(AgentQty(a, i))]
             g == [a \in Agents |-> Price[i] * f[a]]
             h == [a \in Agents |-> agent_limits[a].max_position_notional + Unbooked]
  <2>1. f \in [Agents -> Int] /\ \A a \in Agents : f[a] = Abs(AgentQty(a, i))
    BY <1>0, FiguresTyped DEF Abs
  <2>2. Price[i] \in Int
    OBVIOUS
  <2>3. g \in [Agents -> Int] /\ \A a \in Agents : g[a] = Price[i] * Abs(AgentQty(a, i))
    <3> HIDE DEF f
    <3> QED BY <2>1, <2>2
  <2>4. h \in [Agents -> Int]
    BY <1>0 DEF Configured
  <2>5. AtMost(g, h, Agents)
    <3> SUFFICES ASSUME NEW a \in Agents PROVE g[a] <= h[a]
      BY DEF AtMost
    <3>1. PICK x \in Int, m \in Int : x = g[a] /\ m = agent_limits[a].max_position_notional
      BY <2>3 DEF Configured
    <3>2. x - Unbooked <= m
      BY <1>4, <2>3, <3>1 DEF PositionLimit
    <3>3. h[a] = m + Unbooked
      BY <3>1
    <3> QED BY <1>0, <3>1, <3>2, <3>3
  <2> HIDE DEF f, h
  <2>6. SumFunction(g) = Price[i] * SumFunction(f)
    BY <2>1, <2>2, SumScales
  <2> HIDE DEF g
  <2>7. SumFunction(g) <= SumFunction(h)
    BY <2>3, <2>4, <2>5, SumMonotone
  <2> QED BY <2>6, <2>7 DEF FirmGrossQty, f, h
<1>7. 100 * (cash + Unpaid) >= cash_reserve_min_pct * Nav
  <2>1. PICK x : x = Costs
    OBVIOUS
  <2>2. x \in [Slots -> 0 .. OrderCap] /\ OrderCap \in Nat
    <3>1. \A s \in Slots : Cost(in_flight[s]) \in 0 .. OrderCap
      BY CostTyped DEF IntakeInv, BookTyped
    <3> QED BY <2>1, <3>1, CapTyped DEF Costs
  <2>3. PICK y \in Int : y = SumFunction(x) /\ y >= 0
    BY <2>2, SumAtLeastZero
  <2>4. PICK n \in Nat : n = Unpaid /\ n = (Cardinality(Slots) - 1) * OrderCap
    BY CapTyped
  <2>5. Potential(- cash, x, Slots, OrderCap, 0) = - cash + y - (n + 0)
    BY <2>3, <2>4 DEF Potential
  <2>6. 100 * (- (- cash + y - (n + 0))) >= cash_reserve_min_pct * Nav
    BY <2>1, <2>5 DEF IntakeInv, CashWithin, CashLimit
  <2>7. PICK m \in Int : m = cash_reserve_min_pct * Nav
    BY DEF cash_reserve_min_pct
  <2>8. 100 * (cash + n) >= m
    BY <1>0, <2>3, <2>6, <2>7
  <2> QED BY <2>4, <2>7, <2>8
<1>8. ASSUME NEW v \in Venues
      PROVE  Cardinality(HeldAt(v)) <= venue_limits[v].max_positions + Cardinality(Slots) - 1
  <2>1. HeldAt(v) \subseteq Reached(v)
    BY DEF HeldAt, Reached
  <2>2. PICK k \in Nat, l \in Nat : k = Cardinality(HeldAt(v)) /\ l = Cardinality(Reached(v))
    <3>1. IsFiniteSet(HeldAt(v))
      BY <2>1, ReachedTyped, FS_Subset
    <3> QED BY <3>1, ReachedTyped, FS_CardinalityType
  <2>3. k <= l
    BY <2>1, <2>2, ReachedTyped, FS_Subset
  <2>4. PICK c \in Int : c = venue_limits[v].max_positions + Cardinality(Slots) - 1
    BY CapTyped DEF Configured
  <2>5. l <= c
    BY <2>2, <2>4 DEF IntakeInv, PositionsWithin
  <2> QED BY <2>2, <2>3, <2>4, <2>5
<1>9. ASSUME NEW a \in Agents
      PROVE  LET gross == AgentGross(a) - Unbooked
             IN  /\ gross <= agent_limits[a].max_gross_notional
                 /\ gross < allocated_capital[a]
                 /\ \E i \in Instruments :
                      gross <= instrument_limits[i].max_leverage * (allocated_capital[a] - gross)
  BY <1>1 DEF GrossWithin
<1> QED BY <1>2, <1>4, <1>5, <1>6, <1>7, <1>8, <1>9
       DEF LimitsHold, VenueLimit, PositionLimit, NetLimit

\* The hard limits hold of the book itself and at every moment of a fill, up to
\* what the gate has approved and does not see yet and what the mark is above the
\* prices of those orders: for every number of agents, instruments, venues and
\* orders in flight, and orders at any prices, however many below the mark.
THEOREM LimitsAlwaysHold ==
  ASSUME Configured, PricedWithinBand
  PROVE  Spec => []LimitsHold
<1>1. Init => IntakeInv
  BY IntakeInit
<1>2. IntakeInv /\ [Next]_vars => IntakeInv'
  BY IntakeStep
<1>3. IntakeInv => LimitsHold
  BY IntakeLimits
<1> QED BY <1>1, <1>2, <1>3, PTL DEF Spec

-----------------------------------------------------------------------------
(* A resize is final *)

\* Of a pair of net and gross exposure, a part of a trade leaves at most the
\* gross there was before the trade or the gross the whole of it leaves.
LEMMA GrossBetween ==
  ASSUME NEW net, NEW gross, HasSides(net, gross),
         NEW whole \in Int, NEW part \in Int, PartOf(part, whole),
         NEW g0, g0 = ProjectNetAndGross(net, gross, 0).gross,
         NEW g1, g1 = ProjectNetAndGross(net, gross, whole).gross,
         NEW g, g = ProjectNetAndGross(net, gross, part).gross
  PROVE  /\ g0 \in Int /\ g1 \in Int /\ g \in Int
         /\ g <= g0 \/ g <= g1
<1>1. PICK long \in Nat, short \in Nat : net = long - short /\ gross = long + short
  BY DEF HasSides
<1>2. \A delta \in Int :
        ProjectNetAndGross(net, gross, delta).gross = GrossAfter(long, short, delta)
  <2> TAKE delta \in Int
  <2>1. ProjectNetAndGross(net, gross, delta)
          = [net |-> net + delta, gross |-> GrossAfter(long, short, delta)]
    BY <1>1, ProjectionOfSides
  <2> QED BY <2>1
<1>3. /\ g0 = GrossAfter(long, short, 0)
      /\ g1 = GrossAfter(long, short, whole)
      /\ g = GrossAfter(long, short, part)
  BY <1>2
<1> QED BY <1>3 DEF GrossAfter, PartOf

\* A position marked at a price has one side.
LEMMA PositionHasSides ==
  ASSUME NEW x \in Int, NEW m \in Nat
  PROVE  HasSides(SignedValueFromNet(x, m), m)
<1>1. CASE x >= 0
  <2>1. SignedValueFromNet(x, m) = m - 0 /\ m = m + 0 /\ 0 \in Nat
    BY <1>1 DEF SignedValueFromNet
  <2> QED BY <2>1 DEF HasSides
<1>2. CASE x < 0
  <2>1. SignedValueFromNet(x, m) = 0 - m /\ m = 0 + m /\ 0 \in Nat
    BY <1>2 DEF SignedValueFromNet
  <2> QED BY <2>1 DEF HasSides
<1> QED BY <1>1, <1>2

\* y is one of two bounds at most.
AtMostOneOf(y, y0, y1) == y0 \in Int /\ y1 \in Int /\ y \in Int /\ (y <= y0 \/ y <= y1)

\* Every figure of projection p is at most that of p0 or that of p1.
FiguresBetween(p, p0, p1, alloc) ==
  /\ AtMostOneOf(p.gross_qty, p0.gross_qty, p1.gross_qty)
  /\ AtMostOneOf(p.instrument_gross, p0.instrument_gross, p1.instrument_gross)
  /\ AtMostOneOf(p.agent_instrument_gross, p0.agent_instrument_gross, p1.agent_instrument_gross)
  /\ AtMostOneOf(p.agent_gross, p0.agent_gross, p1.agent_gross)
  /\ AtMostOneOf(p.venue_notional, p0.venue_notional, p1.venue_notional)
  /\ AtMostOneOf(Abs(p.net_qty), Abs(p0.net_qty), Abs(p1.net_qty))
  /\ AtMostOneOf(- p.cash, - p0.cash, - p1.cash)
  /\ p.cash \in Int /\ p0.cash \in Int /\ p1.cash \in Int
  /\ p.free_capital = alloc - p.agent_gross
  /\ p0.free_capital = alloc - p0.agent_gross
  /\ p1.free_capital = alloc - p1.agent_gross
  /\ p.venue_positions = p1.venue_positions

\* The figures of the book that the projection starts from have sides.
LEMMA BookSides ==
  ASSUME positions \in Positions, NEW a \in Agents, NEW i \in Instruments, NEW v \in Venues,
         NEW own, own = FirmBook.by_agent[<<a, i>>],
         NEW there, there = FirmBook.by_venue[<<v, i>>],
         NEW exposure, exposure = FirmBook.instruments[i]
  PROVE  /\ HasSides(SignedValueFromNet(own.net_qty, own.notional), own.notional)
         /\ HasSides(SignedValueFromNet(there.net_qty, there.notional), there.notional)
         /\ HasSides(exposure.net_qty, exposure.gross_qty)
         /\ HasSides(exposure.net_notional, exposure.gross_notional)
<1>1. AgentQty(a, i) \in Int /\ VenueQty(v, i) \in Int /\ Price[i] \in Nat
  BY FiguresTyped, OrderIntakeAssumption
<1>2. /\ own.net_qty = AgentQty(a, i) /\ own.notional = Price[i] * Abs(AgentQty(a, i))
      /\ there.net_qty = VenueQty(v, i) /\ there.notional = Price[i] * Abs(VenueQty(v, i))
  BY BookFigures
<1>3. own.notional \in Nat /\ there.notional \in Nat
  BY <1>1, <1>2, TimesAbs
<1>4. /\ HasSides(SignedValueFromNet(own.net_qty, own.notional), own.notional)
      /\ HasSides(SignedValueFromNet(there.net_qty, there.notional), there.notional)
  BY <1>1, <1>2, <1>3, PositionHasSides
<1>5. exposure = [net_qty |-> FirmNetQty(i), gross_qty |-> FirmGrossQty(i),
                  net_notional |-> Price[i] * FirmNetQty(i),
                  gross_notional |-> Price[i] * FirmGrossQty(i)]
  BY DEF FirmBook
<1>6. PICK long \in Nat, short \in Nat :
        FirmNetQty(i) = long - short /\ FirmGrossQty(i) = long + short
  BY FirmHasSides
<1>7. /\ exposure.net_qty = long - short /\ exposure.gross_qty = long + short
      /\ exposure.net_notional = Price[i] * (long - short)
      /\ exposure.gross_notional = Price[i] * (long + short)
  BY <1>5, <1>6
<1>8. /\ Price[i] * (long - short) = Price[i] * long - Price[i] * short
      /\ Price[i] * (long + short) = Price[i] * long + Price[i] * short
      /\ Price[i] * long \in Nat /\ Price[i] * short \in Nat
  BY <1>1
<1>9. HasSides(exposure.net_notional, exposure.gross_notional)
  BY <1>7, <1>8 DEF HasSides
<1>10. HasSides(exposure.net_qty, exposure.gross_qty)
  BY <1>7 DEF HasSides
<1> QED BY <1>4, <1>9, <1>10

\* A cut order is a part of the order, in quantity and in value.
LEMMA PartsOfOrder ==
  ASSUME NEW side \in {"Buy", "Sell"}, NEW price \in Nat, NEW qty \in Nat, NEW q \in 0 .. qty
  PROVE  /\ SignedDelta(side, q) \in Int /\ SignedDelta(side, qty) \in Int
         /\ SignedDelta(side, 0) = 0 /\ SignedDelta(side, 0 * price) = 0
         /\ SignedDelta(side, q * price) \in Int /\ SignedDelta(side, qty * price) \in Int
         /\ PartOf(SignedDelta(side, q), SignedDelta(side, qty))
         /\ PartOf(SignedDelta(side, q * price), SignedDelta(side, qty * price))
<1>1. PICK m \in Nat, n \in Nat : m = q * price /\ n = qty * price
  OBVIOUS
<1>2. m <= n
  <2>1. price * q <= price * qty
    BY TimesMonotone
  <2> QED BY <1>1, <2>1
<1>3. 0 * price = 0
  OBVIOUS
<1>4. SignedDelta(side, 0) = 0
  <2>1. \A z \in Int : z <= 0 /\ z >= 0 => SignedDelta(side, z) = z
    BY DEF SignedDelta
  <2>2. 0 \in Int /\ 0 <= 0 /\ 0 >= 0
    OBVIOUS
  <2> QED BY <2>1, <2>2, Zenon
<1>5. /\ SignedDelta(side, m) \in Int /\ SignedDelta(side, n) \in Int
      /\ PartOf(SignedDelta(side, m), SignedDelta(side, n))
  BY <1>2 DEF SignedDelta, PartOf
<1>6. /\ SignedDelta(side, q) \in Int /\ SignedDelta(side, qty) \in Int
      /\ PartOf(SignedDelta(side, q), SignedDelta(side, qty))
  BY DEF SignedDelta, PartOf
<1> QED BY <1>1, <1>3, <1>4, <1>5, <1>6

\* The projection of an order cut to q lies between the book as it is and the
\* projection of the whole order.
LEMMA ProjectedBetween ==
  ASSUME positions \in Positions, cash \in Int, NEW core \in OrderCores,
         core.price \in Nat, core.qty \in Nat, NEW q \in 0 .. core.qty
  PROVE  FiguresBetween(Projected(Cut(core, q), FirmBook), Projected(Cut(core, 0), FirmBook),
                        Projected(core, FirmBook), allocated_capital[core.agent_id])
<1> DEFINE a == core.agent_id
           i == core.instrument_id
           v == core.venue_id
           own == FirmBook.by_agent[<<a, i>>]
           there == FirmBook.by_venue[<<v, i>>]
           exposure == FirmBook.instruments[i]
           Qty(n) == SignedDelta(core.side, n)
           Notional(n) == SignedDelta(core.side, n * core.price)
           Of(n) == ProjectNetAndGross(SignedValueFromNet(own.net_qty, own.notional),
                                       own.notional, Notional(n)).gross
           At(n) == ProjectNetAndGross(SignedValueFromNet(there.net_qty, there.notional),
                                       there.notional, Notional(n)).gross
           ByQty(n) == ProjectNetAndGross(exposure.net_qty, exposure.gross_qty, Qty(n))
           ByValue(n) == ProjectNetAndGross(exposure.net_notional, exposure.gross_notional,
                                            Notional(n)).gross
           venue == SumFunction([j \in Instruments |-> FirmBook.by_venue[<<v, j>>].notional])
           positions_held == Cardinality({j \in Instruments : FirmBook.by_venue[<<v, j>>].held})
                               + IF there.held THEN 0 ELSE 1
           Of_projection(p, n) ==
             /\ p.net_qty = ByQty(n).net
             /\ p.gross_qty = ByQty(n).gross
             /\ p.instrument_gross = ByValue(n)
             /\ p.agent_instrument_gross = Of(n)
             /\ p.agent_gross = AgentGross(a) - own.notional + Of(n)
             /\ p.free_capital = allocated_capital[a] - p.agent_gross
             /\ p.cash = cash - Notional(n)
             /\ p.venue_notional = venue - there.notional + At(n)
             /\ p.venue_positions = positions_held
<1>1. /\ a \in Agents /\ i \in Instruments /\ v \in Venues /\ core.side \in {"Buy", "Sell"}
  BY DEF OrderCores
<1>2. /\ FirmBook.allocations[a].allocated_capital = allocated_capital[a]
      /\ FirmBook.allocations[a].used_capital = AgentGross(a)
      /\ FirmBook.cash_available = cash
      /\ exposure.net_qty = FirmNetQty(i)
  BY <1>1, BookFigures
<1>3. ASSUME NEW c, NEW n,
             c.agent_id = a, c.instrument_id = i, c.venue_id = v, c.side = core.side,
             c.price = core.price, c.qty = n
      PROVE  Of_projection(Projected(c, FirmBook), n)
  BY <1>2, <1>3 DEF Projected
<1>4. /\ Of_projection(Projected(core, FirmBook), core.qty)
      /\ Of_projection(Projected(Cut(core, q), FirmBook), q)
      /\ Of_projection(Projected(Cut(core, 0), FirmBook), 0)
  <2> HIDE DEF Of_projection
  <2>1. \A n : /\ Cut(core, n).agent_id = a /\ Cut(core, n).instrument_id = i
               /\ Cut(core, n).venue_id = v /\ Cut(core, n).side = core.side
               /\ Cut(core, n).price = core.price /\ Cut(core, n).qty = n
    BY DEF Cut, OrderCores
  <2>2. Of_projection(Projected(core, FirmBook), core.qty)
    BY <1>3
  <2>3. Of_projection(Projected(Cut(core, q), FirmBook), q)
    BY <1>3, <2>1
  <2>4. Of_projection(Projected(Cut(core, 0), FirmBook), 0)
    BY <1>3, <2>1
  <2> QED BY <2>2, <2>3, <2>4
<1>5. /\ Qty(q) \in Int /\ Qty(core.qty) \in Int /\ Qty(0) = 0 /\ Notional(0) = 0
      /\ Notional(q) \in Int /\ Notional(core.qty) \in Int
      /\ PartOf(Qty(q), Qty(core.qty)) /\ PartOf(Notional(q), Notional(core.qty))
  BY <1>1, PartsOfOrder
<1>6. /\ HasSides(SignedValueFromNet(own.net_qty, own.notional), own.notional)
      /\ HasSides(SignedValueFromNet(there.net_qty, there.notional), there.notional)
      /\ HasSides(exposure.net_qty, exposure.gross_qty)
      /\ HasSides(exposure.net_notional, exposure.gross_notional)
  <2> HIDE DEF a, i, v
  <2> QED BY <1>1, BookSides
<1>7. /\ own.notional \in Int /\ there.notional \in Int /\ AgentGross(a) \in Int
      /\ FirmNetQty(i) \in Int
  <2>1. own.notional \in Int /\ there.notional \in Int
    BY <1>6 DEF HasSides
  <2> QED BY <1>1, <2>1, FiguresTyped
<1>8. venue \in Int
  <2>1. \A j \in Instruments : FirmBook.by_venue[<<v, j>>].notional = Price[j] * Abs(VenueQty(v, j))
    BY <1>1, BookFigures
  <2>2. [j \in Instruments |-> FirmBook.by_venue[<<v, j>>].notional]
          = [j \in Instruments |-> Price[j] * Abs(VenueQty(v, j))]
    BY <2>1
  <2>3. venue = VenueGross(v)
    BY <2>2 DEF VenueGross
  <2>4. VenueGross(v) \in Int
    BY <1>1, FiguresTyped
  <2> QED BY <2>3, <2>4
<1> HIDE DEF Qty, Notional
<1>9. AtMostOneOf(Of(q), Of(0), Of(core.qty))
  <2>1. Of(0) = ProjectNetAndGross(SignedValueFromNet(own.net_qty, own.notional),
                                   own.notional, 0).gross
    BY <1>5
  <2> HIDE DEF own
  <2> QED BY <1>5, <1>6, <2>1, GrossBetween DEF AtMostOneOf
<1>10. AtMostOneOf(At(q), At(0), At(core.qty))
  <2>1. At(0) = ProjectNetAndGross(SignedValueFromNet(there.net_qty, there.notional),
                                   there.notional, 0).gross
    BY <1>5
  <2> HIDE DEF there
  <2> QED BY <1>5, <1>6, <2>1, GrossBetween DEF AtMostOneOf
<1>11. AtMostOneOf(ByValue(q), ByValue(0), ByValue(core.qty))
  <2>1. ByValue(0) = ProjectNetAndGross(exposure.net_notional, exposure.gross_notional, 0).gross
    BY <1>5
  <2> HIDE DEF exposure
  <2> QED BY <1>5, <1>6, <2>1, GrossBetween DEF AtMostOneOf
<1>12. AtMostOneOf(ByQty(q).gross, ByQty(0).gross, ByQty(core.qty).gross)
  <2>1. ByQty(0).gross = ProjectNetAndGross(exposure.net_qty, exposure.gross_qty, 0).gross
    BY <1>5
  <2> HIDE DEF exposure
  <2> QED BY <1>5, <1>6, <2>1, GrossBetween DEF AtMostOneOf
<1>13. AtMostOneOf(Abs(ByQty(q).net), Abs(ByQty(0).net), Abs(ByQty(core.qty).net))
  <2>1. /\ ByQty(q).net = FirmNetQty(i) + Qty(q)
        /\ ByQty(0).net = FirmNetQty(i) + 0
        /\ ByQty(core.qty).net = FirmNetQty(i) + Qty(core.qty)
    BY <1>2, <1>5 DEF ProjectNetAndGross
  <2>2. FirmNetQty(i) + 0 = FirmNetQty(i)
    BY <1>7
  <2>3. \/ Abs(FirmNetQty(i) + Qty(q)) <= Abs(FirmNetQty(i))
        \/ Abs(FirmNetQty(i) + Qty(q)) <= Abs(FirmNetQty(i) + Qty(core.qty))
    BY <1>5, <1>7, PartIsBetween
  <2>4. /\ Abs(FirmNetQty(i)) \in Int /\ Abs(FirmNetQty(i) + Qty(q)) \in Int
        /\ Abs(FirmNetQty(i) + Qty(core.qty)) \in Int
    BY <1>5, <1>7, AbsTyped
  <2> HIDE DEF ByQty
  <2> QED BY <2>1, <2>2, <2>3, <2>4 DEF AtMostOneOf
<1>14. AtMostOneOf(- (cash - Notional(q)), - (cash - Notional(0)), - (cash - Notional(core.qty)))
  BY <1>5 DEF AtMostOneOf, PartOf
<1>15. /\ cash - Notional(q) \in Int /\ cash - Notional(0) \in Int /\ cash - Notional(core.qty) \in Int
  BY <1>5
<1>16. AtMostOneOf(AgentGross(a) - own.notional + Of(q), AgentGross(a) - own.notional + Of(0),
                   AgentGross(a) - own.notional + Of(core.qty))
  <2> HIDE DEF Of, own
  <2> QED BY <1>7, <1>9 DEF AtMostOneOf
<1>17. AtMostOneOf(venue - there.notional + At(q), venue - there.notional + At(0),
                   venue - there.notional + At(core.qty))
  <2> HIDE DEF At, there, venue
  <2> QED BY <1>7, <1>8, <1>10 DEF AtMostOneOf
<1> HIDE DEF Of, At, ByQty, ByValue, own, there, venue, exposure, positions_held, a, i, v
<1> QED BY <1>4, <1>9, <1>11, <1>12, <1>13, <1>14, <1>15, <1>16, <1>17 DEF FiguresBetween, a

\* The checks, one by one.
PassesAll(c, p) ==
  LET limits == instrument_limits[c.instrument_id]
  IN  /\ CheckAgentPermissions(c, agent_limits[c.agent_id]) = {}
      /\ RiskPerUnit(c) > 0
      /\ FirmBook.drawdown_pct >= drawdown_halt_pct
      /\ p.free_capital >= 0
      /\ p.agent_instrument_gross <= agent_limits[c.agent_id].max_position_notional
      /\ p.agent_gross <= agent_limits[c.agent_id].max_gross_notional
      /\ ~ (limits.max_leverage <= 0) /\ ~ (p.free_capital <= 0)
      /\ p.agent_gross <= limits.max_leverage * p.free_capital
      /\ 100 * p.cash >= cash_reserve_min_pct * Nav
      /\ Abs(p.net_qty) <= limits.max_net_qty
      /\ p.gross_qty <= limits.max_gross_qty
      /\ 100 * p.instrument_gross <= limits.max_concentration_pct * Nav
      /\ p.venue_notional <= venue_limits[c.venue_id].max_notional
      /\ 100 * p.venue_notional <= venue_limits[c.venue_id].max_pct_of_nav * Nav
      /\ p.venue_positions <= venue_limits[c.venue_id].max_positions

\* No violation means that every check passes.
LEMMA ClearMeansPassesAll ==
  ASSUME NEW c
  PROVE  HardViolations(c, FirmBook, "SubmitOrder") = {}
           <=> PassesAll(c, Projected(c, FirmBook))
<1> DEFINE p == Projected(c, FirmBook)
           limits == instrument_limits[c.instrument_id]
<1>1. EffectiveNav(FirmBook) = Nav
  BY DEF EffectiveNav, FirmBook
<1> HIDE DEF p
<1>2. HardViolations(c, FirmBook, "SubmitOrder") = {} <=>
        /\ CheckAgentPermissions(c, agent_limits[c.agent_id]) = {}
        /\ CheckAgentBudget(p, agent_limits[c.agent_id]) = {}
        /\ Check(RiskPerUnit(c) > 0, "account_risk_distance_positive") = {}
        /\ CheckLeverage(p, limits) = {}
        /\ Check(FirmBook.drawdown_pct >= drawdown_halt_pct, "firm_drawdown_pct") = {}
        /\ Check(100 * p.cash >= cash_reserve_min_pct * Nav, "cash_reserve_pct") = {}
        /\ CheckInstrumentLimits(p, Nav, limits) = {}
        /\ CheckVenueLimits(p, Nav, venue_limits[c.venue_id]) = {}
  <2>1. HardViolations(c, FirmBook, "SubmitOrder") =
          CheckAgentPermissions(c, agent_limits[c.agent_id])
            \cup CheckAgentBudget(p, agent_limits[c.agent_id])
            \cup Check(RiskPerUnit(c) > 0, "account_risk_distance_positive")
            \cup CheckLeverage(p, limits)
            \cup Check(FirmBook.drawdown_pct >= drawdown_halt_pct, "firm_drawdown_pct")
            \cup Check(100 * p.cash >= cash_reserve_min_pct * Nav, "cash_reserve_pct")
            \cup CheckInstrumentLimits(p, Nav, limits)
            \cup CheckVenueLimits(p, Nav, venue_limits[c.venue_id])
            \cup {}
    BY <1>1 DEF HardViolations, p
  <2> QED BY <2>1
<1>3. /\ Check(RiskPerUnit(c) > 0, "account_risk_distance_positive") = {} <=> RiskPerUnit(c) > 0
      /\ Check(FirmBook.drawdown_pct >= drawdown_halt_pct, "firm_drawdown_pct") = {}
           <=> FirmBook.drawdown_pct >= drawdown_halt_pct
      /\ Check(100 * p.cash >= cash_reserve_min_pct * Nav, "cash_reserve_pct") = {}
           <=> 100 * p.cash >= cash_reserve_min_pct * Nav
  BY DEF Check
<1>4. CheckAgentBudget(p, agent_limits[c.agent_id]) = {} <=>
        /\ p.free_capital >= 0
        /\ p.agent_instrument_gross <= agent_limits[c.agent_id].max_position_notional
        /\ p.agent_gross <= agent_limits[c.agent_id].max_gross_notional
  BY DEF CheckAgentBudget, Check
<1>5. CheckLeverage(p, limits) = {} <=>
        /\ ~ (limits.max_leverage <= 0) /\ ~ (p.free_capital <= 0)
        /\ p.agent_gross <= limits.max_leverage * p.free_capital
  BY DEF CheckLeverage, Check
<1>6. CheckInstrumentLimits(p, Nav, limits) = {} <=>
        /\ Abs(p.net_qty) <= limits.max_net_qty
        /\ p.gross_qty <= limits.max_gross_qty
        /\ 100 * p.instrument_gross <= limits.max_concentration_pct * Nav
  BY DEF CheckInstrumentLimits, Check
<1>7. CheckVenueLimits(p, Nav, venue_limits[c.venue_id]) = {} <=>
        /\ p.venue_notional <= venue_limits[c.venue_id].max_notional
        /\ 100 * p.venue_notional <= venue_limits[c.venue_id].max_pct_of_nav * Nav
        /\ p.venue_positions <= venue_limits[c.venue_id].max_positions
  BY DEF CheckVenueLimits, Check
<1>8. HardViolations(c, FirmBook, "SubmitOrder") = {} <=> PassesAll(c, p)
  BY <1>2, <1>3, <1>4, <1>5, <1>6, <1>7 DEF PassesAll
<1> QED BY <1>8 DEF p

\* Passing the checks with nothing filled and with all of it filled is passing
\* them with any part of it filled.
LEMMA PartPassesAll ==
  ASSUME Configured, NEW c \in OrderCores, NEW p, NEW p0, NEW p1, NEW c0, NEW c1,
         FiguresBetween(p, p0, p1, allocated_capital[c.agent_id]),
         PassesAll(c0, p0), PassesAll(c1, p1),
         c0.agent_id = c.agent_id, c0.instrument_id = c.instrument_id, c0.venue_id = c.venue_id,
         c1.agent_id = c.agent_id, c1.instrument_id = c.instrument_id, c1.venue_id = c.venue_id,
         CheckAgentPermissions(c, agent_limits[c.agent_id]) = {}, RiskPerUnit(c) > 0
  PROVE  PassesAll(c, p)
<1> DEFINE al == agent_limits[c.agent_id]
           il == instrument_limits[c.instrument_id]
           vl == venue_limits[c.venue_id]
           alloc == allocated_capital[c.agent_id]
<1>1. /\ al.max_position_notional \in Int /\ al.max_gross_notional \in Int
      /\ il.max_net_qty \in Int /\ il.max_gross_qty \in Int /\ il.max_concentration_pct \in Int
      /\ il.max_leverage \in Nat /\ vl.max_notional \in Int /\ vl.max_pct_of_nav \in Int
      /\ alloc \in Int /\ Nav \in Int
  <2>1. c.agent_id \in Agents /\ c.instrument_id \in Instruments /\ c.venue_id \in Venues
    BY DEF OrderCores
  <2> QED BY <2>1, OrderIntakeAssumption DEF Configured
<1> HIDE DEF al, il, vl, alloc
<1>2. /\ FirmBook.drawdown_pct >= drawdown_halt_pct
      /\ ~ (il.max_leverage <= 0)
      /\ p1.venue_positions <= vl.max_positions
      /\ p0.agent_instrument_gross <= al.max_position_notional
      /\ p1.agent_instrument_gross <= al.max_position_notional
      /\ p0.agent_gross <= al.max_gross_notional
      /\ p1.agent_gross <= al.max_gross_notional
      /\ ~ (p0.free_capital <= 0) /\ ~ (p1.free_capital <= 0)
      /\ p0.agent_gross <= il.max_leverage * p0.free_capital
      /\ p1.agent_gross <= il.max_leverage * p1.free_capital
  BY DEF PassesAll, al, il, vl
<1>3. /\ 100 * p0.cash >= cash_reserve_min_pct * Nav
      /\ 100 * p1.cash >= cash_reserve_min_pct * Nav
      /\ Abs(p0.net_qty) <= il.max_net_qty /\ Abs(p1.net_qty) <= il.max_net_qty
      /\ p0.gross_qty <= il.max_gross_qty /\ p1.gross_qty <= il.max_gross_qty
      /\ 100 * p0.instrument_gross <= il.max_concentration_pct * Nav
      /\ 100 * p1.instrument_gross <= il.max_concentration_pct * Nav
      /\ p0.venue_notional <= vl.max_notional /\ p1.venue_notional <= vl.max_notional
      /\ 100 * p0.venue_notional <= vl.max_pct_of_nav * Nav
      /\ 100 * p1.venue_notional <= vl.max_pct_of_nav * Nav
  BY DEF PassesAll, al, il, vl
<1>4. /\ AtMostOneOf(p.gross_qty, p0.gross_qty, p1.gross_qty)
      /\ AtMostOneOf(p.instrument_gross, p0.instrument_gross, p1.instrument_gross)
      /\ AtMostOneOf(p.agent_instrument_gross, p0.agent_instrument_gross,
                     p1.agent_instrument_gross)
      /\ AtMostOneOf(p.agent_gross, p0.agent_gross, p1.agent_gross)
      /\ AtMostOneOf(p.venue_notional, p0.venue_notional, p1.venue_notional)
      /\ AtMostOneOf(Abs(p.net_qty), Abs(p0.net_qty), Abs(p1.net_qty))
      /\ AtMostOneOf(- p.cash, - p0.cash, - p1.cash)
      /\ p.cash \in Int /\ p0.cash \in Int /\ p1.cash \in Int
      /\ p.free_capital = alloc - p.agent_gross
      /\ p0.free_capital = alloc - p0.agent_gross
      /\ p1.free_capital = alloc - p1.agent_gross
      /\ p.venue_positions = p1.venue_positions
  BY DEF FiguresBetween, alloc
<1>5. /\ p.agent_instrument_gross <= al.max_position_notional
      /\ p.agent_gross <= al.max_gross_notional
      /\ p.gross_qty <= il.max_gross_qty
      /\ p.venue_notional <= vl.max_notional
      /\ Abs(p.net_qty) <= il.max_net_qty
  BY <1>1, <1>2, <1>3, <1>4 DEF AtMostOneOf
<1>6. PICK x \in Int, y \in Int, z \in Int :
        /\ x = il.max_concentration_pct * Nav /\ y = vl.max_pct_of_nav * Nav
        /\ z = cash_reserve_min_pct * Nav
  BY <1>1 DEF cash_reserve_min_pct
<1>7. 100 * p.instrument_gross <= il.max_concentration_pct * Nav
  <2>1. 100 * p0.instrument_gross <= x /\ 100 * p1.instrument_gross <= x
    BY <1>3, <1>6
  <2>2. 100 * p.instrument_gross <= x
    BY <1>4, <2>1 DEF AtMostOneOf
  <2> QED BY <1>6, <2>2
<1>8. 100 * p.venue_notional <= vl.max_pct_of_nav * Nav
  <2>1. 100 * p0.venue_notional <= y /\ 100 * p1.venue_notional <= y
    BY <1>3, <1>6
  <2>2. 100 * p.venue_notional <= y
    BY <1>4, <2>1 DEF AtMostOneOf
  <2> QED BY <1>6, <2>2
<1>9. 100 * p.cash >= cash_reserve_min_pct * Nav
  <2>1. 100 * p0.cash >= z /\ 100 * p1.cash >= z
    BY <1>3, <1>6
  <2>2. 100 * p.cash >= z
    BY <1>4, <2>1 DEF AtMostOneOf
  <2> QED BY <1>6, <2>2
<1>10. /\ p.free_capital >= 0 /\ ~ (p.free_capital <= 0)
       /\ p.agent_gross <= il.max_leverage * p.free_capital
  <2>1. p.agent_gross \in Int /\ p0.agent_gross \in Int /\ p1.agent_gross \in Int
    BY <1>4 DEF AtMostOneOf
  <2>2. p.free_capital \in Int /\ p0.free_capital \in Int /\ p1.free_capital \in Int
    BY <1>1, <1>4, <2>1
  <2>3. ASSUME NEW g \in Int, NEW f \in Int, g \in {p0.agent_gross, p1.agent_gross},
               p.agent_gross <= g, f = alloc - g, ~ (f <= 0), g <= il.max_leverage * f
        PROVE  /\ p.free_capital >= 0 /\ ~ (p.free_capital <= 0)
               /\ p.agent_gross <= il.max_leverage * p.free_capital
    <3>1. f <= p.free_capital
      BY <1>1, <1>4, <2>1, <2>3
    <3>2. il.max_leverage * f <= il.max_leverage * p.free_capital
      BY <1>1, <2>2, <3>1, TimesMonotone
    <3>3. PICK m \in Int, n \in Int :
            m = il.max_leverage * f /\ n = il.max_leverage * p.free_capital
      BY <1>1, <2>2
    <3>4. p.agent_gross <= n
      BY <2>1, <2>3, <3>2, <3>3
    <3> QED BY <2>2, <2>3, <3>1, <3>3, <3>4
  <2>4. CASE p.agent_gross <= p0.agent_gross
    BY <1>2, <1>4, <2>1, <2>2, <2>3, <2>4
  <2>5. CASE p.agent_gross <= p1.agent_gross
    BY <1>2, <1>4, <2>1, <2>2, <2>3, <2>5
  <2> QED BY <1>4, <2>4, <2>5 DEF AtMostOneOf
<1>11. p.venue_positions <= vl.max_positions
  BY <1>2, <1>4
<1> QED BY <1>2, <1>5, <1>7, <1>8, <1>9, <1>10, <1>11 DEF PassesAll, al, il, vl

\* Rounded division, as the resize of an order needs it.
LEMMA DivAtMost ==
  ASSUME NEW m \in Int, NEW n \in Nat \ {0}
  PROVE  /\ m \div n \in Int
         /\ n <= m => m \div n >= 1
         /\ \A k \in Int : n * k > m => m \div n < k
OBVIOUS

\* k lots at u a lot are cut to q lots, for the sake of a cap of m among others.
CutTo(q, k, u, m) == q <= k /\ (100 * k * u > m => q <= Quotient(m, 100 * u))

\* Cut so, q lots are within the cap, or they are what the quotient was rounded
\* up to and would be cut to themselves.
LEMMA CutAgain ==
  ASSUME NEW m \in Int, NEW u \in Nat \ {0}, NEW k \in Nat, NEW q \in Int, CutTo(q, k, u, m),
         100 * q * u > m
  PROVE  q = Quotient(m, 100 * u)
<1>1. 100 * u \in Nat \ {0} /\ u * q \in Int /\ u * k \in Int /\ u * q <= u * k
  BY TimesMonotone DEF CutTo
<1>2. 100 * k * u = 100 * (u * k) /\ 100 * q * u = 100 * (u * q) /\ 100 * q * u = (100 * u) * q
  OBVIOUS
<1>3. PICK x \in Int, y \in Int : x = u * q /\ y = u * k
  BY <1>1
<1>4. 100 * y > m
  BY <1>1, <1>2, <1>3
<1>5. q <= Quotient(m, 100 * u)
  BY <1>2, <1>3, <1>4 DEF CutTo
<1>6. PICK n \in Nat \ {0} : n = 100 * u
  BY <1>1
<1>7. /\ m \div n \in Int /\ Quotient(m, n) \in Int /\ Quotient(m, n) <= m \div n + 1
  BY QuotientBounds
<1>8. m \div n < q
  BY <1>2, <1>6, DivAtMost
<1> QED BY <1>5, <1>6, <1>7, <1>8

\* What a cap leaves of a quantity that is above it is at most the quantity, and
\* not nothing when one lot is within the cap.
LEMMA CapCuts ==
  ASSUME NEW m \in Int, NEW u \in Nat \ {0}, NEW k \in Nat, 100 * k * u > m, 100 * u <= m
  PROVE  Quotient(m, 100 * u) \in 1 .. k
<1>1. PICK n \in Nat \ {0} : n = 100 * u
  OBVIOUS
<1>2. 100 * k * u = n * k
  BY <1>1
<1>3. m \div n \in Int /\ m \div n >= 1 /\ m \div n < k
  BY <1>1, <1>2, DivAtMost
<1>4. Quotient(m, n) \in Int /\ m \div n <= Quotient(m, n) /\ Quotient(m, n) <= m \div n + 1
  BY QuotientBounds
<1> QED BY <1>1, <1>3, <1>4

\* From a book that stands within the limits, an order is cut once and for all.
LEMMA FinalFromWithin ==
  ASSUME Configured, positions \in Positions, cash \in Int, NEW core \in OrderCores,
         OneLotFits(core), StandsWithin(core)
  PROVE  IsFinal(core)
<1> DEFINE outcome == Evaluate(core, FirmBook, "SubmitOrder")
<1> SUFFICES ASSUME outcome.kind = "Resized"
             PROVE  Evaluate(Cut(core, outcome.new_qty), FirmBook, "SubmitOrder")
                      \in {Approved, outcome}
  BY DEF IsFinal
<1>1. EffectiveNav(FirmBook) = Nav /\ Nav \in Int /\ FirmBook.nav = Nav
  BY OrderIntakeAssumption DEF EffectiveNav, FirmBook
<1>2. PICK q : q = outcome.new_qty
  OBVIOUS
<1>3. PICK c : c = Cut(core, q)
  OBVIOUS
<1>4. /\ c \in OrderCores /\ c.qty = q /\ q \in Int
      /\ c.agent_id = core.agent_id /\ c.instrument_id = core.instrument_id
      /\ c.venue_id = core.venue_id /\ c.side = core.side /\ c.price = core.price
      /\ c.stop_loss = core.stop_loss
  BY <1>2, <1>3, ResizedIsAnOrder
<1>5. PICK u : u = RiskPerUnit(core)
  OBVIOUS
<1>6. /\ core.price \in Nat \ {0} /\ core.qty \in Nat \ {0} /\ u \in Nat \ {0}
      /\ q \in ResizeCandidates(core, Nav)
      /\ \A z \in ResizeCandidates(core, Nav) : q <= z
  <2> HIDE DEF outcome
  <2> QED BY <1>1, <1>2, <1>5, CandidatesTyped DEF outcome
<1>7. RiskPerUnit(c) = u
  BY <1>4, <1>5 DEF RiskPerUnit
<1>8. PICK m \in Int, r \in Int : m = Nav * position_nav_cap /\ r = Nav * account_risk_nav_cap
  BY <1>1 DEF position_nav_cap, account_risk_nav_cap
<1>9. 100 * core.price <= m /\ 100 * u <= r
  BY <1>5, <1>8 DEF OneLotFits
<1>10. ResizeCandidates(core, Nav) =
         (IF 100 * core.qty * core.price > m THEN {Quotient(m, 100 * core.price)} ELSE {})
           \cup (IF 100 * core.qty * u > r THEN {Quotient(r, 100 * u)} ELSE {})
  BY <1>5, <1>8 DEF ResizeCandidates
<1>11. /\ 100 * core.qty * core.price > m => Quotient(m, 100 * core.price) \in 1 .. core.qty
       /\ 100 * core.qty * u > r => Quotient(r, 100 * u) \in 1 .. core.qty
  BY <1>6, <1>9, CapCuts
<1>12. q \in 1 .. core.qty
  <2>1. \/ 100 * core.qty * core.price > m /\ q = Quotient(m, 100 * core.price)
        \/ 100 * core.qty * u > r /\ q = Quotient(r, 100 * u)
    BY <1>6, <1>10
  <2> QED BY <1>11, <2>1
<1>13. ResizeCandidates(c, Nav) \in SUBSET {q, q}
  <2>1. CutTo(q, core.qty, core.price, m) /\ CutTo(q, core.qty, u, r)
    <3>1. q <= core.qty
      BY <1>6, <1>12
    <3>2. 100 * core.qty * core.price > m => q <= Quotient(m, 100 * core.price)
      BY <1>6, <1>10
    <3>3. 100 * core.qty * u > r => q <= Quotient(r, 100 * u)
      BY <1>6, <1>10
    <3> QED BY <3>1, <3>2, <3>3 DEF CutTo
  <2>2. /\ 100 * q * core.price > m => q = Quotient(m, 100 * core.price)
        /\ 100 * q * u > r => q = Quotient(r, 100 * u)
    BY <1>4, <1>6, <2>1, CutAgain
  <2>3. ResizeCandidates(c, Nav) =
          (IF 100 * q * core.price > m THEN {Quotient(m, 100 * core.price)} ELSE {})
            \cup (IF 100 * q * u > r THEN {Quotient(r, 100 * u)} ELSE {})
    BY <1>4, <1>7, <1>8 DEF ResizeCandidates
  <2> QED BY <2>2, <2>3
<1>14. HardViolations(c, FirmBook, "SubmitOrder") = {}
  <2>1. PICK c0 : c0 = Cut(core, 0)
    OBVIOUS
  <2>2. /\ c0.agent_id = core.agent_id /\ c0.instrument_id = core.instrument_id
        /\ c0.venue_id = core.venue_id
    BY <2>1 DEF Cut, OrderCores
  <2>3. HardViolations(core, FirmBook, "SubmitOrder") = {}
    BY ResizedMeansClear
  <2>4. HardViolations(c0, FirmBook, "SubmitOrder") = {}
    BY <2>1 DEF StandsWithin
  <2>5. PICK p, p0, p1 : /\ p = Projected(c, FirmBook) /\ p0 = Projected(c0, FirmBook)
                         /\ p1 = Projected(core, FirmBook)
    OBVIOUS
  <2>6. PassesAll(core, p1) /\ PassesAll(c0, p0)
    BY <2>3, <2>4, <2>5, ClearMeansPassesAll
  <2>7. FiguresBetween(p, p0, p1, allocated_capital[c.agent_id])
    BY <1>3, <1>4, <1>6, <1>12, <2>1, <2>5, ProjectedBetween
  <2>8. CheckAgentPermissions(c, agent_limits[c.agent_id]) = {} /\ RiskPerUnit(c) > 0
    <3>1. CheckAgentPermissions(core, agent_limits[core.agent_id]) = {}
      BY <2>6 DEF PassesAll
    <3> QED BY <1>4, <1>6, <1>7, <3>1 DEF CheckAgentPermissions
  <2>9. PassesAll(c, p)
    BY <1>4, <2>2, <2>6, <2>7, <2>8, PartPassesAll
  <2> QED BY <2>5, <2>9, ClearMeansPassesAll
<1>15. ~ Unevaluable(c, FirmBook)
  <2>1. ~ Unevaluable(core, FirmBook)
    BY ResizedMeansClear
  <2> QED BY <1>4, <1>6, <1>12, <2>1 DEF Unevaluable
<1>16. CASE ResizeCandidates(c, Nav) = {}
  <2>1. Evaluate(c, FirmBook, "SubmitOrder") = Approved
    BY <1>1, <1>14, <1>15, <1>16 DEF Evaluate
  <2> QED BY <1>2, <1>3, <2>1
<1>17. CASE ResizeCandidates(c, Nav) # {}
  <2>1. TightestResize(ResizeCandidates(c, Nav)) = q
    BY <1>4, <1>13, <1>17, TightestTyped
  <2>2. Evaluate(c, FirmBook, "SubmitOrder") = Resized(q)
    BY <1>1, <1>14, <1>15, <1>17, <2>1 DEF Evaluate
  <2>3. outcome = Resized(q)
    BY <1>2, ResizedMeansClear
  <2> QED BY <1>2, <1>3, <2>2, <2>3
<1> QED BY <1>16, <1>17

\* Orders that an approval can be about: they have a price.
PricedOrders == {core \in OrderCores : core.price \in Int}

IntakeTyped ==
  /\ positions \in Positions /\ cash \in Int
  /\ in_flight \in [Slots -> PricedOrders \cup {None}]

\* Approving an order keeps the types.
LEMMA AdmitKeepsTypes ==
  ASSUME IntakeTyped, NEW core \in OrderCores, NEW path, Admit(core, path)
  PROVE  IntakeTyped'
<1>1. /\ UNCHANGED <<positions, cash>> /\ Evaluate(core, FirmBook, path) = Approved
      /\ \E s \in Slots : in_flight' = [in_flight EXCEPT ![s] = core]
  BY DEF Admit
<1>2. core.price # None
  BY <1>1, ApprovedMeansClear DEF Unevaluable
<1>3. core \in PricedOrders
  BY <1>2 DEF PricedOrders, OrderCores
<1> QED BY <1>1, <1>3 DEF IntakeTyped, Positions

\* Filling an order keeps the types.
LEMMA FillKeepsTypes ==
  ASSUME IntakeTyped, NEW s \in Slots, in_flight[s] # None, NEW qty \in 1 .. in_flight[s].qty,
         Fill(s, qty)
  PROVE  IntakeTyped'
<1>1. /\ in_flight \in [Slots -> PricedOrders \cup {None}] /\ positions \in Positions
      /\ cash \in Int
  BY DEF IntakeTyped
<1>2. PICK core : core = in_flight[s]
  OBVIOUS
<1>3. core \in PricedOrders
  BY <1>1, <1>2
<1>4. /\ core.agent_id \in Agents /\ core.instrument_id \in Instruments
      /\ core.venue_id \in Venues /\ core.price \in Int /\ core.qty \in Int /\ qty \in Int
  BY <1>2, <1>3 DEF PricedOrders, OrderCores
<1>5. SignedDelta(core.side, qty) \in Int /\ SignedDelta(core.side, qty * core.price) \in Int
  BY <1>4 DEF SignedDelta
<1>6. positions' \in Positions
  BY <1>1, <1>2, <1>4, <1>5, FiguresAfterFill DEF Fill
<1>7. cash' \in Int
  BY <1>1, <1>2, <1>5 DEF Fill
<1>8. PICK rest : rest = [core EXCEPT !.qty = core.qty - qty]
  OBVIOUS
<1>9. rest \in PricedOrders
  BY <1>3, <1>4, <1>8 DEF PricedOrders, OrderCores
<1>10. in_flight' = [in_flight EXCEPT ![s] = IF qty = core.qty THEN None ELSE rest]
  BY <1>2, <1>8 DEF Fill
<1>11. in_flight' \in [Slots -> PricedOrders \cup {None}]
  BY <1>1, <1>9, <1>10
<1> QED BY <1>6, <1>7, <1>11 DEF IntakeTyped, Positions, PricedOrders

\* Every step keeps the types.
LEMMA IntakeKeepsTypes ==
  ASSUME IntakeTyped, [Next]_vars
  PROVE  IntakeTyped'
<1>1. ASSUME NEW core \in Orders, SubmitOrder(core) PROVE IntakeTyped'
  BY <1>1, AdmitKeepsTypes, OrderIntakeAssumption DEF SubmitOrder
<1>2. ASSUME NEW core \in Orders, SubmitResized(core) PROVE IntakeTyped'
  <2> DEFINE cut == Cut(core, Evaluate(core, FirmBook, "SubmitOrder").new_qty)
  <2>1. core \in OrderCores
    BY OrderIntakeAssumption
  <2>2. Evaluate(core, FirmBook, "SubmitOrder").kind = "Resized" /\ Admit(cut, "SubmitOrder")
    BY <1>2 DEF SubmitResized
  <2> HIDE DEF cut
  <2>3. cut \in OrderCores
    BY <2>1, <2>2, ResizedIsAnOrder DEF cut
  <2> QED BY <2>2, <2>3, AdmitKeepsTypes
<1>3. ASSUME NEW signal \in Signals, SubmitSignal(signal) PROVE IntakeTyped'
  <2>1. PICK now \in Conditions : \E core \in DraftsOf(signal, now) : Admit(core, "SubmitSignal")
    BY <1>3 DEF SubmitSignal
  <2>2. PICK core \in DraftsOf(signal, now) : Admit(core, "SubmitSignal")
    BY <2>1
  <2>3. core \in OrderCores
    BY DraftsAreOrders DEF DraftOf
  <2> QED BY <2>2, <2>3, AdmitKeepsTypes
<1>4. ASSUME NEW s \in Slots, Cancel(s) PROVE IntakeTyped'
  BY <1>4 DEF Cancel, IntakeTyped, Positions, PricedOrders
<1>5. ASSUME NEW s \in Slots, in_flight[s] # None, NEW qty \in 1 .. in_flight[s].qty, Fill(s, qty)
      PROVE  IntakeTyped'
  BY <1>5, FillKeepsTypes
<1>6. CASE UNCHANGED vars
  BY <1>6 DEF vars, IntakeTyped, Positions
<1> QED BY <1>1, <1>2, <1>3, <1>4, <1>5, <1>6 DEF Next

\* Whatever is in flight, the quantity that evaluate cuts an order to is final
\* whenever the book, before the order, already passes the gate's checks for the
\* order's agent, instrument and venue and a single lot is within the two caps:
\* with it the order is approved, or cut to the very same quantity where the
\* quotient was rounded up.  The projection of a part of an order is never worse
\* than both that of nothing and that of the whole.
THEOREM ResizeIsFinalFromWithin ==
  ASSUME Configured
  PROVE  Spec => []ResizeIsFinal
<1>1. Init => IntakeTyped
  BY OrderIntakeAssumption DEF Init, IntakeTyped, Positions
<1>2. IntakeTyped /\ [Next]_vars => IntakeTyped'
  BY IntakeKeepsTypes
<1>3. IntakeTyped => ResizeIsFinal
  BY FinalFromWithin, OrderIntakeAssumption DEF IntakeTyped, ResizeIsFinal
<1> QED BY <1>1, <1>2, <1>3, PTL DEF Spec
=============================================================================
