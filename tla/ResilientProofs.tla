--------------------------- MODULE ResilientProofs ---------------------------
\* What the cost account guarantees for any number of processes and attempts, any
\* prices, any limit and any usage the provider bills; and that requests with
\* retries and fallbacks are clients of it, each speaking with one voice, for any
\* number of requests, clients and retries.
\*
\* Then another component that counts on disk before it acts, Evolver: that what a
\* run of maintenance says it tested was tested, and that nothing else is launched.
EXTENDS Resilient, Evolver, FiniteSetTheorems, SequenceTheorems, TLAPS

-----------------------------------------------------------------------------
(* Sums over finite sets                                                   *)

Some(s) == CHOOSE x \in s : TRUE

IsFold(g, f, D) ==
  g = [s \in D |-> IF s = {} THEN 0 ELSE f[Some(s)] + g[s \ {Some(s)}]]

Total(f, S) == (CHOOSE g : IsFold(g, f, SUBSET S))[S]

LEMMA SomeIn == \A s : s # {} => Some(s) \in s
  BY DEF Some

\* A non-empty set of subsets of a finite set has a member none of whose proper subsets
\* is in it.
LEMMA Minimal ==
  ASSUME NEW S, IsFiniteSet(S), NEW T, T \subseteq SUBSET S, T # {}
  PROVE  \E t \in T : \A x \in t : t \ {x} \notin T
<1> DEFINE R == StrictSubsetOrdering(S)
<1>1. IsWellFoundedOn(R, FiniteSubsetsOf(S))
  BY FS_StrictSubsetOrderingWellFounded
<1>2. T \subseteq FiniteSubsetsOf(S)
  BY FS_Subset DEF FiniteSubsetsOf
<1> HIDE DEF R
<1>3. PICK t \in T : \A y \in T : ~ (<<y, t>> \in R)
  BY <1>1, <1>2, WFMin
<1>4. ASSUME NEW x \in t, t \ {x} \in T PROVE FALSE
  <2>1. <<t \ {x}, t>> \in R
    BY <1>4 DEF R, StrictSubsetOrdering
  <2> QED BY <2>1, <1>3, <1>4
<1> QED BY <1>4

\* A fold over some subsets extends to those with one element more.
LEMMA FoldGrows ==
  ASSUME NEW S, NEW f, NEW D, NEW E, NEW g, D \subseteq E, E \subseteq SUBSET S,
         \A s \in E : s # {} => s \ {Some(s)} \in D,
         IsFold(g, f, D)
  PROVE  \E h : IsFold(h, f, E)
<1> DEFINE h == [s \in E |-> IF s = {} THEN 0 ELSE f[Some(s)] + g[s \ {Some(s)}]]
<1>1. \A s \in D : h[s] = g[s]
  BY Zenon DEF IsFold
<1>2. \A s \in E : h[s] = IF s = {} THEN 0 ELSE f[Some(s)] + h[s \ {Some(s)}]
  BY <1>1
<1>3. h = [s \in E |-> h[s]]
  OBVIOUS
<1> HIDE DEF h
<1>4. IsFold(h, f, E)
  BY <1>2, <1>3, Zenon DEF IsFold
<1> QED BY <1>4

\* The recursive function of a fold over the subsets of a finite set is one: there is a
\* function that satisfies its equation.
LEMMA FoldExists ==
  ASSUME NEW S, IsFiniteSet(S), NEW f
  PROVE  \E g : IsFold(g, f, SUBSET S)
<1> DEFINE D(n) == {s \in SUBSET S : Cardinality(s) <= n}
           T    == {t \in SUBSET S : ~ \E g : IsFold(g, f, D(Cardinality(t)))}
<1>0. \A s \in SUBSET S : IsFiniteSet(s) /\ Cardinality(s) \in Nat
  BY FS_Subset, FS_CardinalityType
<1>1. ASSUME T # {} PROVE FALSE
  <2>1. PICK t \in T : \A x \in t : t \ {x} \notin T
    BY <1>1, Minimal
  <2>2. CASE t = {}
    <3>1. Cardinality(t) = 0
      BY <2>2, FS_EmptySet
    <3>2. D(0) = {{}}
      BY <1>0, FS_EmptySet
    <3>3. IsFold([s \in {{}} |-> 0], f, {{}})
      BY DEF IsFold
    <3> QED BY <2>1, <3>1, <3>2, <3>3
  <2>3. CASE t # {}
    <3>1. PICK x : x \in t
      BY <2>3
    <3>2. /\ t \ {x} \in SUBSET S
          /\ Cardinality(t \ {x}) = Cardinality(t) - 1
      BY <3>1, <1>0, FS_RemoveElement
    <3>3. PICK g : IsFold(g, f, D(Cardinality(t) - 1))
      BY <2>1, <3>1, <3>2
    <3>4. D(Cardinality(t) - 1) \subseteq D(Cardinality(t))
      BY <1>0
    <3>5. \A s \in D(Cardinality(t)) : s # {} => s \ {Some(s)} \in D(Cardinality(t) - 1)
      BY <1>0, SomeIn, FS_RemoveElement
    <3>6. D(Cardinality(t)) \subseteq SUBSET S
      OBVIOUS
    <3> HIDE DEF D
    <3>7. \E h : IsFold(h, f, D(Cardinality(t)))
      BY <3>3, <3>4, <3>5, <3>6, FoldGrows
    <3> QED BY <3>7, <2>1
  <2> QED BY <2>2, <2>3
<1>2. D(Cardinality(S)) = SUBSET S
  BY FS_Subset, <1>0
<1>3. \E g : IsFold(g, f, D(Cardinality(S)))
  BY <1>1
<1> QED BY <1>2, <1>3

Unfolds(g, f, S) ==
  /\ g[{}] = 0
  /\ \A s \in SUBSET S : s # {} => /\ Some(s) \in s
                                   /\ s \ {Some(s)} \in SUBSET S
                                   /\ g[s] = f[Some(s)] + g[s \ {Some(s)}]

\* What such a function is, at the empty set and at another.
LEMMA FoldValue ==
  ASSUME NEW S, NEW f, NEW g, IsFold(g, f, SUBSET S)
  PROVE  Unfolds(g, f, S)
<1>1. \A s \in SUBSET S : g[s] = IF s = {} THEN 0 ELSE f[Some(s)] + g[s \ {Some(s)}]
  BY Zenon DEF IsFold
<1>2. {} \in SUBSET S
  OBVIOUS
<1> QED BY <1>1, <1>2, SomeIn DEF Unfolds

\* A fold of naturals is a natural.
LEMMA FoldNat ==
  ASSUME NEW S, IsFiniteSet(S), NEW f \in [S -> Nat], NEW g, IsFold(g, f, SUBSET S)
  PROVE  \A s \in SUBSET S : g[s] \in Nat
<1>u. Unfolds(g, f, S)
  BY FoldValue
<1> DEFINE T == {s \in SUBSET S : g[s] \notin Nat}
<1>1. ASSUME T # {} PROVE FALSE
  <2>1. PICK t \in T : \A x \in t : t \ {x} \notin T
    BY <1>1, Minimal
  <2>2. t # {}
    <3> SUFFICES ASSUME t = {} PROVE FALSE
      OBVIOUS
    <3>1. g[t] = 0
      BY <1>u DEF Unfolds
    <3> QED BY <2>1, <3>1
  <2>3. /\ Some(t) \in t /\ t \ {Some(t)} \in SUBSET S
        /\ g[t] = f[Some(t)] + g[t \ {Some(t)}]
    BY <2>1, <2>2, <1>u DEF Unfolds
  <2>4. g[t \ {Some(t)}] \in Nat
    BY <2>1, <2>3
  <2>5. f[Some(t)] \in Nat
    BY <2>3
  <2> QED BY <2>1, <2>3, <2>4, <2>5
<1> QED BY <1>1

\* A fold does not depend on the order in which the elements were taken
LEMMA FoldUnique ==
  ASSUME NEW S, IsFiniteSet(S), NEW f, NEW g, IsFold(g, f, SUBSET S),
         NEW h, IsFold(h, f, SUBSET S)
  PROVE  \A s \in SUBSET S : g[s] = h[s]
<1>u. Unfolds(g, f, S) /\ Unfolds(h, f, S)
  BY FoldValue
<1> DEFINE T == {s \in SUBSET S : g[s] # h[s]}
<1>1. ASSUME T # {} PROVE FALSE
  <2>1. PICK t \in T : \A x \in t : t \ {x} \notin T
    BY <1>1, Minimal
  <2> QED BY <2>1, <1>u DEF Unfolds
<1> QED BY <1>1

\* The sum over a set is the value of such a fold.
LEMMA TotalFold ==
  ASSUME NEW S, IsFiniteSet(S), NEW f
  PROVE  \E g : IsFold(g, f, SUBSET S) /\ Total(f, S) = g[S]
<1>1. PICK g : IsFold(g, f, SUBSET S)
  BY FoldExists
<1>2. IsFold(CHOOSE h : IsFold(h, f, SUBSET S), f, SUBSET S)
  BY <1>1, Zenon
<1> QED BY <1>2, Zenon DEF Total

\* A sum of naturals is a natural.
LEMMA TotalNat ==
  ASSUME NEW S, IsFiniteSet(S), NEW f \in [S -> Nat]
  PROVE  Total(f, S) \in Nat
<1>1. PICK F : IsFold(F, f, SUBSET S) /\ Total(f, S) = F[S]
  BY TotalFold
<1> QED BY <1>1, FoldNat

\* Greater terms have a greater sum.
LEMMA TotalMonotone ==
  ASSUME NEW S, IsFiniteSet(S), NEW f \in [S -> Nat], NEW h \in [S -> Nat],
         \A x \in S : f[x] <= h[x]
  PROVE  Total(f, S) <= Total(h, S)
<1>1. PICK F : IsFold(F, f, SUBSET S) /\ Total(f, S) = F[S]
  BY TotalFold
<1>2. PICK H : IsFold(H, h, SUBSET S) /\ Total(h, S) = H[S]
  BY TotalFold
<1>u. Unfolds(F, f, S) /\ Unfolds(H, h, S)
  BY <1>1, <1>2, FoldValue
<1> DEFINE T == {s \in SUBSET S : ~ (F[s] <= H[s])}
<1>3. \A s \in SUBSET S : F[s] \in Nat /\ H[s] \in Nat
  BY <1>1, <1>2, FoldNat
<1>4. ASSUME T # {} PROVE FALSE
  <2>1. PICK t \in T : \A x \in t : t \ {x} \notin T
    BY <1>4, Minimal
  <2>2. t # {}
    <3> SUFFICES ASSUME t = {} PROVE FALSE
      OBVIOUS
    <3>1. F[t] = 0 /\ H[t] = 0
      BY <1>u DEF Unfolds
    <3> QED BY <2>1, <3>1
  <2>3. /\ Some(t) \in t /\ t \ {Some(t)} \in SUBSET S
        /\ F[t] = f[Some(t)] + F[t \ {Some(t)}]
        /\ H[t] = h[Some(t)] + H[t \ {Some(t)}]
    BY <2>1, <2>2, <1>u DEF Unfolds
  <2>4. F[t \ {Some(t)}] <= H[t \ {Some(t)}]
    BY <2>1, <2>3
  <2>5. f[Some(t)] \in Nat /\ h[Some(t)] \in Nat /\ f[Some(t)] <= h[Some(t)]
    BY <2>3
  <2> QED BY <2>1, <2>3, <2>4, <2>5, <1>3
<1> QED BY <1>1, <1>2, <1>4

\* Sums of two families add up.
LEMMA TotalSum ==
  ASSUME NEW S, IsFiniteSet(S), NEW f \in [S -> Nat], NEW h \in [S -> Nat]
  PROVE  Total([x \in S |-> f[x] + h[x]], S) = Total(f, S) + Total(h, S)
<1> DEFINE k == [x \in S |-> f[x] + h[x]]
<1>1. PICK F : IsFold(F, f, SUBSET S) /\ Total(f, S) = F[S]
  BY TotalFold
<1>2. PICK H : IsFold(H, h, SUBSET S) /\ Total(h, S) = H[S]
  BY TotalFold
<1>3. PICK K : IsFold(K, k, SUBSET S) /\ Total(k, S) = K[S]
  BY TotalFold
<1>k. k \in [S -> Nat] /\ \A x \in S : k[x] = f[x] + h[x]
  OBVIOUS
<1> HIDE DEF k
<1>u. Unfolds(F, f, S) /\ Unfolds(H, h, S) /\ Unfolds(K, k, S)
  BY <1>1, <1>2, <1>3, FoldValue
<1> DEFINE T == {s \in SUBSET S : K[s] # F[s] + H[s]}
<1>4. \A s \in SUBSET S : F[s] \in Nat /\ H[s] \in Nat /\ K[s] \in Nat
  BY <1>1, <1>2, <1>3, <1>k, FoldNat
<1>5. ASSUME T # {} PROVE FALSE
  <2>1. PICK t \in T : \A x \in t : t \ {x} \notin T
    BY <1>5, Minimal
  <2>2. t # {}
    <3> SUFFICES ASSUME t = {} PROVE FALSE
      OBVIOUS
    <3>1. F[t] = 0 /\ H[t] = 0 /\ K[t] = 0
      BY <1>u DEF Unfolds
    <3> QED BY <2>1, <3>1
  <2>3. /\ Some(t) \in t /\ t \ {Some(t)} \in SUBSET S
        /\ F[t] = f[Some(t)] + F[t \ {Some(t)}]
        /\ H[t] = h[Some(t)] + H[t \ {Some(t)}]
        /\ K[t] = k[Some(t)] + K[t \ {Some(t)}]
    BY <2>1, <2>2, <1>u DEF Unfolds
  <2>4. K[t \ {Some(t)}] = F[t \ {Some(t)}] + H[t \ {Some(t)}]
    BY <2>1, <2>3
  <2>5. f[Some(t)] \in Nat /\ h[Some(t)] \in Nat /\ k[Some(t)] = f[Some(t)] + h[Some(t)]
    BY <2>3, <1>k
  <2> QED BY <2>1, <2>3, <2>4, <2>5, <1>4
<1> QED BY <1>1, <1>2, <1>3, <1>5, <1>k

\* A sum with one term that is not zero is this term.
LEMMA TotalSingle ==
  ASSUME NEW S, IsFiniteSet(S), NEW i \in S, NEW n \in Nat
  PROVE  Total([x \in S |-> IF x = i THEN n ELSE 0], S) = n
<1> DEFINE f == [x \in S |-> IF x = i THEN n ELSE 0]
<1>1. PICK F : IsFold(F, f, SUBSET S) /\ Total(f, S) = F[S]
  BY TotalFold
<1>k. f \in [S -> Nat] /\ \A x \in S : f[x] = IF x = i THEN n ELSE 0
  OBVIOUS
<1> HIDE DEF f
<1>u. Unfolds(F, f, S)
  BY <1>1, FoldValue
<1> DEFINE T == {s \in SUBSET S : F[s] # IF i \in s THEN n ELSE 0}
<1>5. ASSUME T # {} PROVE FALSE
  <2>1. PICK t \in T : \A x \in t : t \ {x} \notin T
    BY <1>5, Minimal
  <2>2. t # {}
    <3> SUFFICES ASSUME t = {} PROVE FALSE
      OBVIOUS
    <3>1. F[t] = 0
      BY <1>u DEF Unfolds
    <3> QED BY <2>1, <3>1
  <2>3. /\ Some(t) \in t /\ t \ {Some(t)} \in SUBSET S
        /\ F[t] = f[Some(t)] + F[t \ {Some(t)}]
    BY <2>1, <2>2, <1>u DEF Unfolds
  <2>4. F[t \ {Some(t)}] = IF i \in t \ {Some(t)} THEN n ELSE 0
    BY <2>1, <2>3
  <2>5. f[Some(t)] = IF Some(t) = i THEN n ELSE 0
    BY <2>3, <1>k
  <2> QED BY <2>1, <2>3, <2>4, <2>5
<1> QED BY <1>1, <1>5, <1>k

\* What budgetSnapshot adds up, attempt by attempt, is the total.
LEMMA TogetherTotal ==
  ASSUME NEW f \in [Ids -> Nat]
  PROVE  Together(f) = Total(f, Ids)
<1> DEFINE Rec(g) == g = [s \in SUBSET Ids |-> IF s = {} THEN 0
              ELSE f[CHOOSE x \in s : TRUE] + g[s \ {CHOOSE x \in s : TRUE}]]
<1>0. IsFiniteSet(Ids)
  BY BudgetConstants
<1>1. PICK g : IsFold(g, f, SUBSET Ids) /\ Total(f, Ids) = g[Ids]
  BY <1>0, TotalFold
<1>3. ASSUME NEW h PROVE Rec(h) <=> IsFold(h, f, SUBSET Ids)
  BY DEF IsFold, Some
<1>4. Rec(CHOOSE h : Rec(h))
  <2> HIDE DEF Rec
  <2> QED BY <1>1, <1>3, Zenon
<1>5. Together(f) = (CHOOSE h : Rec(h))[Ids]
  BY Zenon DEF Together, MapThenSumSet, MapThenFoldSet
<1> HIDE DEF Rec
<1>6. ASSUME NEW h, Rec(h) PROVE h[Ids] = g[Ids]
  <2>1. IsFold(h, f, SUBSET Ids)
    BY <1>3, <1>6
  <2>2. \A s \in SUBSET Ids : h[s] = g[s]
    BY <1>0, <1>1, <2>1, FoldUnique
  <2> QED BY <2>2
<1> QED BY <1>1, <1>4, <1>5, <1>6

-----------------------------------------------------------------------------
(* The account: money                                                      *)

\* The products and the rounding FixedPrice.cost is made of.
LEMMA ProductNat == \A a, b \in Nat : a * b \in Nat
  OBVIOUS

\* A product grows with a factor.
LEMMA ProductMonotone ==
  ASSUME NEW a \in Nat, NEW b \in Nat, NEW c \in Nat, a <= b
  PROVE  c * a <= c * b /\ a * c <= b * c
  OBVIOUS

\* A quotient rounded up is an amount of money.
LEMMA RoundingNat ==
  ASSUME NEW x \in Nat, NEW k \in Nat \ {0}
  PROVE  (x + k - 1) \div k \in Nat
  OBVIOUS

\* It grows with its dividend.
LEMMA RoundingMonotone ==
  ASSUME NEW x \in Nat, NEW y \in Nat, NEW k \in Nat \ {0}, x <= y
  PROVE  (x + k - 1) \div k <= (y + k - 1) \div k
  OBVIOUS

\* FixedPrice.cost is an amount of money.
LEMMA CostNat ==
  ASSUME NEW p \in Tokens, NEW u \in Tokens
  PROVE  Cost(p, u) \in Nat
<1>1. /\ p.input * u.input \in Nat /\ p.output * u.output \in Nat
      /\ p.read * u.read \in Nat /\ p.write * u.write \in Nat
  BY ProductNat DEF Tokens
<1>2. p.input * u.input + p.output * u.output + p.read * u.read + p.write * u.write \in Nat
  BY <1>1
<1> QED BY <1>2, RoundingNat, BudgetConstants DEF Cost

\* worst.Input = max(p.Input, p.CacheRead, p.CacheWrite) bounds all three.
LEMMA WorstRate ==
  ASSUME NEW p \in Tokens
  PROVE  /\ Worst(p) \in Tokens
         /\ Worst(p).output = p.output
         /\ p.input <= Worst(p).input /\ p.read <= Worst(p).input
         /\ p.write <= Worst(p).input
<1> DEFINE S == {p.input, p.read, p.write}
<1>1. p.input \in Nat /\ p.read \in Nat /\ p.write \in Nat
  BY DEF Tokens
<1>2. \E x \in S : \A y \in S : x >= y
  BY <1>1
<1>3. Max(S) \in S /\ \A y \in S : Max(S) >= y
  BY <1>2 DEF Max
<1>4. Max(S) \in Nat
  BY <1>1, <1>3
<1>5. Max(S) >= p.input /\ Max(S) >= p.read /\ Max(S) >= p.write
  BY <1>3
<1> HIDE DEF S
<1>6. Worst(p) = [p EXCEPT !.input = Max(S)]
  BY DEF Worst, S
<1> QED BY <1>1, <1>4, <1>5, <1>6 DEF Tokens

LEMMA ReservationNat ==
  ASSUME NEW m \in Models, NEW n \in Outputs
  PROVE  Reservation(Price[m], n) \in Nat
<1>1. Worst(Price[m]) \in Tokens
  BY WorstRate, BudgetConstants
<1>2. [input |-> Window - n, output |-> n, read |-> 0, write |-> 0] \in Tokens
  BY BudgetConstants DEF Tokens
<1> QED BY <1>1, <1>2, CostNat DEF Reservation

\* docs/COST_BUDGET.md, the formula: whatever way the tokens of a call are split
\* between the classes, within the window and the output limit its cost at the
\* price of its model is reserved.
THEOREM WorstCovers ==
  ASSUME NEW p \in Tokens, NEW u \in Tokens, NEW n \in Outputs, Fits(u, n)
  PROVE  Cost(p, u) <= Reservation(p, n)
<1> DEFINE w == Worst(p).input
           room == Window - n
           full == [input |-> room, output |-> n, read |-> 0, write |-> 0]
<1>1. /\ p.input \in Nat /\ p.output \in Nat /\ p.read \in Nat /\ p.write \in Nat
      /\ u.input \in Nat /\ u.output \in Nat /\ u.read \in Nat /\ u.write \in Nat
      /\ w \in Nat /\ n \in Nat /\ room \in Nat
  BY WorstRate, BudgetConstants DEF Tokens
<1>2. p.input <= w /\ p.read <= w /\ p.write <= w
  BY WorstRate
<1>3. u.input + u.read + u.write <= room /\ u.output <= n
  BY DEF Fits
<1>4. Worst(p).output = p.output /\ Worst(p).read \in Nat /\ Worst(p).write \in Nat
  BY WorstRate DEF Tokens
<1> HIDE DEF w, room
<1>5. /\ p.input * u.input <= w * u.input
      /\ p.read * u.read <= w * u.read
      /\ p.write * u.write <= w * u.write
      /\ p.output * u.output <= p.output * n
  BY <1>1, <1>2, <1>3, ProductMonotone
<1>6. w * u.input + w * u.read + w * u.write = w * (u.input + u.read + u.write)
  BY <1>1
<1>7. w * (u.input + u.read + u.write) <= w * room
  <2>1. u.input + u.read + u.write \in Nat
    BY <1>1
  <2> QED BY <1>1, <1>3, <2>1, ProductMonotone
<1> DEFINE x == p.input * u.input + p.output * u.output + p.read * u.read + p.write * u.write
           y == w * room + p.output * n
<1>8. /\ p.input * u.input \in Nat /\ p.output * u.output \in Nat
      /\ p.read * u.read \in Nat /\ p.write * u.write \in Nat
      /\ w * u.input \in Nat /\ w * u.read \in Nat /\ w * u.write \in Nat
      /\ w * room \in Nat /\ p.output * n \in Nat
      /\ w * (u.input + u.read + u.write) \in Nat
  BY <1>1, ProductNat
<1>9. x \in Nat /\ y \in Nat /\ x <= y
  BY <1>5, <1>6, <1>7, <1>8
<1>10. Cost(p, u) = (x + Million - 1) \div Million
  BY DEF Cost
<1>11. Cost(Worst(p), full) = (y + Million - 1) \div Million
  <2>1. Worst(p).read * 0 = 0 /\ Worst(p).write * 0 = 0
    BY <1>4
  <2>2. Worst(p).input * full.input + Worst(p).output * full.output
          + Worst(p).read * full.read + Worst(p).write * full.write = y
    BY <1>4, <1>8, <2>1 DEF w
  <2> QED BY <2>2 DEF Cost
<1> HIDE DEF x, y
<1>12. Cost(p, u) <= Cost(Worst(p), full)
  BY <1>9, <1>10, <1>11, RoundingMonotone, BudgetConstants
<1> QED BY <1>12 DEF Reservation, room

-----------------------------------------------------------------------------
(* The account: its inductive invariant                                    *)

\* What the record a, the caller k and the history s of one attempt have to do
\* with one another.  Only the lease keeps the first four conjuncts: were another
\* process to change the record under a caller, the caller would send a call
\* that is not marked, or leave one marked that counts as free.
Coherent(a, k, s) ==
  /\ k.pc = "claim"   => a.state = "reserved"
  /\ k.pc = "unsent"  => a.state \in {"reserved", "sending"} /\ s = NotSent
  /\ k.pc = "send"    => a.state = "sending" /\ s = NotSent
  /\ k.pc = "calling" => a.state = "sending"
  /\ a.state \in {"absent", "reserved", "released"} => s = NotSent
  /\ a.state = "settled" => a.cost = s.bill
  /\ a.state # "absent" =>
       /\ a.model \in Known /\ a.output \in Outputs
       /\ a.reserved = Reservation(Price[a.model], a.output)
  /\ s.fits => s.bill <= a.reserved

Sound(i) == Coherent(attempts[i], caller[i], sent[i])

IInv == TypeOK /\ \A i \in Ids : Sound(i)

\* What a step leaves alone, and what it may do to the attempt it is about.
Untouched(i) == /\ attempts'[i] = attempts[i] /\ caller'[i] = caller[i]
                /\ sent'[i] = sent[i]
Owned(i)  == Leased(i) /\ caller'[i] = caller[i] => attempts'[i] = attempts[i]
Closed(i) == attempts[i].state \in {"settled", "released"} => attempts'[i] = attempts[i]
Keeps(i)  == Sound(i)' /\ Owned(i) /\ Closed(i)

Callers == [pc : {"none", "claim", "unsent", "send", "calling"},
            proc : Procs \cup {"none"}, actual : Models \cup {"none"}]
Bills   == [bill : Nat, fits : BOOLEAN]
Openers == [state : {"down", "opening", "up"}, todo : SUBSET Ids]

\* An account begins without attempts (OpenBudget on an absent file).
LEMMA InitInv == Init => IInv
  BY DEF Init, IInv, TypeOK, Sound, Coherent, NoAttempt, NotSent, Resting, Down,
         Attempt, States

\* An attempt nothing touched keeps everything.
LEMMA UntouchedKeeps ==
  ASSUME NEW i \in Ids, Sound(i), Untouched(i)
  PROVE  Keeps(i)
  BY DEF Sound, Untouched, Keeps, Owned, Closed

\* A step about one attempt: it is enough to look at what the attempt becomes.
LEMMA OneAttempt ==
  ASSUME IInv, NEW i \in Ids, NEW a \in Attempt, NEW k \in Callers, NEW s \in Bills,
         process' \in [Procs -> Openers],
         attempts' = [attempts EXCEPT ![i] = a],
         caller' = [caller EXCEPT ![i] = k],
         sent' = [sent EXCEPT ![i] = s],
         Coherent(a, k, s),
         caller[i].pc # "none" /\ k = caller[i] => a = attempts[i],
         attempts[i].state \in {"settled", "released"} => a = attempts[i]
  PROVE  TypeOK' /\ \A j \in Ids : Keeps(j)
<1>1. /\ attempts'[i] = a /\ caller'[i] = k /\ sent'[i] = s
      /\ \A j \in Ids \ {i} : Untouched(j)
  BY DEF IInv, TypeOK, Untouched
<1>2. TypeOK'
  BY DEF IInv, TypeOK, Callers, Bills, Openers
<1>3. Keeps(i)
  BY <1>1 DEF Keeps, Sound, Owned, Closed, Leased
<1>4. \A j \in Ids \ {i} : Keeps(j)
  BY <1>1, UntouchedKeeps DEF IInv
<1> QED BY <1>2, <1>3, <1>4

\* The types of one attempt, its caller and its bill.
LEMMA Members ==
  ASSUME IInv, NEW i \in Ids
  PROVE  /\ attempts[i] \in Attempt /\ caller[i] \in Callers /\ sent[i] \in Bills
         /\ process \in [Procs -> Openers]
         /\ Coherent(attempts[i], caller[i], sent[i])
         /\ attempts = [attempts EXCEPT ![i] = attempts[i]]
         /\ caller = [caller EXCEPT ![i] = caller[i]]
         /\ sent = [sent EXCEPT ![i] = sent[i]]
  BY DEF IInv, TypeOK, Callers, Bills, Openers, Sound

-----------------------------------------------------------------------------
(* The account: the steps                                                  *)

\* reserve: a new record at its worst case.
LEMMA ReserveInv ==
  ASSUME IInv, NEW i \in Ids, NEW p \in Procs, NEW m \in Known, NEW n \in Outputs,
         Reserve(i, p, m, n)
  PROVE  TypeOK' /\ \A j \in Ids : Keeps(j)
<1> DEFINE amount == Reservation(Price[m], n)
           a == [NoAttempt EXCEPT !.state = "reserved", !.model = m, !.output = n,
                                  !.reserved = amount]
           k == [Resting EXCEPT !.pc = "claim", !.proc = p]
<1>1. m \in Models /\ n \in Nat /\ amount \in Nat
  BY BudgetConstants, ReservationNat
<1>2. /\ attempts[i].state = "absent"
      /\ attempts' = [attempts EXCEPT ![i] = a]
      /\ sent' = sent /\ process' = process
      /\ caller' = [caller EXCEPT ![i] = k] \/ caller' = caller
  BY DEF Reserve, Write
<1> HIDE DEF amount
<1>3. /\ a \in Attempt /\ a.state = "reserved" /\ a.model = m /\ a.output = n
      /\ a.reserved = amount
  BY <1>1 DEF NoAttempt, Attempt, States
<1>4. k \in Callers /\ k.pc = "claim"
  BY DEF Resting, Callers
<1> HIDE DEF a, k
<1>5. /\ caller[i].pc \notin {"claim", "unsent", "send", "calling"}
      /\ caller[i].pc = "none" /\ sent[i] = NotSent
  BY <1>2, Members DEF Coherent, Callers
<1>6. 0 <= amount
  BY <1>1
<1>7. Coherent(a, k, NotSent) /\ Coherent(a, caller[i], NotSent)
  BY <1>3, <1>4, <1>5, <1>6 DEF Coherent, NotSent, amount
<1> QED BY <1>2, <1>3, <1>4, <1>5, <1>7, Members, OneAttempt

\* The record of a call that goes on changes its state and nothing else it has
\* to agree with.
LEMMA Restated ==
  ASSUME NEW a \in Attempt, NEW st \in States
  PROVE  /\ [a EXCEPT !.state = st] \in Attempt
         /\ [a EXCEPT !.state = st].state = st
         /\ [a EXCEPT !.state = st].model = a.model
         /\ [a EXCEPT !.state = st].output = a.output
         /\ [a EXCEPT !.state = st].reserved = a.reserved
         /\ [a EXCEPT !.state = st].cost = a.cost
  BY DEF Attempt

LEMMA Repositioned ==
  ASSUME NEW k \in Callers, NEW pc \in {"none", "claim", "unsent", "send", "calling"}
  PROVE  /\ [k EXCEPT !.pc = pc] \in Callers
         /\ [k EXCEPT !.pc = pc].pc = pc
  BY DEF Callers

\* sending: the mark precedes the call.
LEMMA ClaimInv ==
  ASSUME IInv, NEW i \in Ids, Claim(i)
  PROVE  TypeOK' /\ \A j \in Ids : Keeps(j)
<1> DEFINE a == [attempts[i] EXCEPT !.state = "sending"]
           k == [caller[i] EXCEPT !.pc = "send"]
           u == [caller[i] EXCEPT !.pc = "unsent"]
<1>1. /\ caller[i].pc = "claim"
      /\ \/ attempts' = [attempts EXCEPT ![i] = a] /\ caller' = [caller EXCEPT ![i] = k]
         \/ attempts' = attempts /\ caller' = [caller EXCEPT ![i] = u]
         \/ attempts' = [attempts EXCEPT ![i] = a] /\ caller' = [caller EXCEPT ![i] = u]
      /\ sent' = sent /\ process' = process
  BY DEF Claim, Write
<1>2. /\ a \in Attempt /\ a.state = "sending" /\ a.model = attempts[i].model
      /\ a.output = attempts[i].output /\ a.reserved = attempts[i].reserved
  <2>1. attempts[i] \in Attempt /\ "sending" \in States
    BY Members DEF States
  <2> QED BY <2>1, Restated
<1>3. k \in Callers /\ k.pc = "send" /\ u \in Callers /\ u.pc = "unsent"
  BY Members, Repositioned
<1> HIDE DEF a, k, u
<1>4. attempts[i].state = "reserved" /\ sent[i] = NotSent
  BY <1>1, Members DEF Coherent
<1>5. /\ Coherent(a, k, sent[i]) /\ Coherent(a, u, sent[i])
      /\ Coherent(attempts[i], u, sent[i])
  BY <1>2, <1>3, <1>4, Members DEF Coherent
<1> QED BY <1>1, <1>2, <1>3, <1>4, <1>5, Members, OneAttempt

\* The call leaves: a bill within price, window and output is covered.
LEMMA SendInv ==
  ASSUME IInv, NEW i \in Ids, NEW q \in Models, NEW u \in Usages, Send(i, q, u)
  PROVE  TypeOK' /\ \A j \in Ids : Keeps(j)
<1> DEFINE k == [caller[i] EXCEPT !.pc = "calling", !.actual = q]
           bill == Cost(Price[q], u)
           fits == q = attempts[i].model /\ Fits(u, attempts[i].output)
           s == [bill |-> bill, fits |-> fits]
<1>1. /\ caller[i].pc = "send" /\ attempts' = attempts /\ process' = process
      /\ caller' = [caller EXCEPT ![i] = k]
      /\ sent' = [sent EXCEPT ![i] = s]
  BY DEF Send
<1>2. k \in Callers /\ k.pc = "calling"
  BY Members DEF Callers
<1>3. Price[q] \in Tokens /\ u \in Tokens
  BY BudgetConstants
<1>4. bill \in Nat
  BY <1>3, CostNat
<1>5. fits \in BOOLEAN
  OBVIOUS
<1>6. /\ attempts[i].state = "sending"
      /\ attempts[i].output \in Outputs
      /\ attempts[i].reserved = Reservation(Price[attempts[i].model], attempts[i].output)
  BY <1>1, Members DEF Coherent
<1>7. fits => bill <= attempts[i].reserved
  BY <1>3, <1>6, WorstCovers
<1> HIDE DEF k, bill, fits
<1>8. s \in Bills /\ s.bill = bill /\ s.fits = fits
  BY <1>4, <1>5 DEF Bills, fits
<1> HIDE DEF s
<1>9. Coherent(attempts[i], k, s)
  BY <1>2, <1>6, <1>7, <1>8, Members DEF Coherent
<1> QED BY <1>1, <1>2, <1>6, <1>8, <1>9, Members, OneAttempt

\* The context ends between the mark and the call.
LEMMA CancelInv ==
  ASSUME IInv, NEW i \in Ids, Cancel(i)
  PROVE  TypeOK' /\ \A j \in Ids : Keeps(j)
<1> DEFINE k == [caller[i] EXCEPT !.pc = "unsent"]
<1>1. /\ caller[i].pc = "send" /\ caller' = [caller EXCEPT ![i] = k]
      /\ attempts' = attempts /\ process' = process /\ sent' = sent
  BY DEF Cancel
<1>2. k \in Callers /\ k.pc = "unsent"
  BY Members, Repositioned
<1> HIDE DEF k
<1>3. Coherent(attempts[i], k, sent[i])
  BY <1>1, <1>2, Members DEF Coherent
<1> QED BY <1>1, <1>2, <1>3, Members, OneAttempt

\* unsent frees the reservation of a call that never left.
LEMMA UnsentInv ==
  ASSUME IInv, NEW i \in Ids, Unsent(i)
  PROVE  TypeOK' /\ \A j \in Ids : Keeps(j)
<1> DEFINE a == [attempts[i] EXCEPT !.state = "released"]
<1>1. /\ caller[i].pc = "unsent" /\ caller' = [caller EXCEPT ![i] = Resting]
      /\ attempts' = [attempts EXCEPT ![i] = a] \/ attempts' = attempts
      /\ process' = process /\ sent' = sent
  BY DEF Unsent, Leave, Write
<1>2. /\ a \in Attempt /\ a.state = "released" /\ a.model = attempts[i].model
      /\ a.output = attempts[i].output /\ a.reserved = attempts[i].reserved
  <2>1. attempts[i] \in Attempt /\ "released" \in States
    BY Members DEF States
  <2> QED BY <2>1, Restated
<1> HIDE DEF a
<1>3. Resting \in Callers /\ Resting.pc = "none"
  BY DEF Resting, Callers
<1>4. attempts[i].state \in {"reserved", "sending"} /\ sent[i] = NotSent
  BY <1>1, Members DEF Coherent
<1>5. Coherent(a, Resting, sent[i]) /\ Coherent(attempts[i], Resting, sent[i])
  BY <1>2, <1>3, <1>4, Members DEF Coherent
<1> QED BY <1>1, <1>2, <1>3, <1>4, <1>5, Members, OneAttempt

\* The settlement charges the bill or keeps the reservation.
LEMMA SettleInv ==
  ASSUME IInv, NEW i \in Ids, NEW report \in {"complete", "incomplete", "invalid"},
         Settle(i, report)
  PROVE  TypeOK' /\ \A j \in Ids : Keeps(j)
<1>1. PICK actual : \/ Write(i, Settled(attempts[i], report, actual, sent[i].bill))
                    \/ attempts' = attempts
  BY DEF Settle
<1> DEFINE a == Settled(attempts[i], report, actual, sent[i].bill)
<1>2. /\ caller[i].pc = "calling" /\ caller' = [caller EXCEPT ![i] = Resting]
      /\ attempts' = [attempts EXCEPT ![i] = a] \/ attempts' = attempts
      /\ process' = process /\ sent' = sent
  BY <1>1 DEF Settle, Leave, Write
<1>3. /\ a \in Attempt /\ a.model = attempts[i].model
      /\ a.output = attempts[i].output /\ a.reserved = attempts[i].reserved
      /\ \/ a.state = "settled" /\ a.cost = sent[i].bill
         \/ a.state = "unknown"
  <2>1. attempts[i] \in Attempt /\ sent[i].bill \in Nat
    BY Members DEF Bills
  <2>2. CASE report = "complete" /\ actual \in Known
    <3>1. a = [attempts[i] EXCEPT !.state = "settled", !.cost = sent[i].bill]
      BY <2>2 DEF Settled
    <3> QED BY <2>1, <3>1 DEF Attempt, States
  <2>3. CASE ~(report = "complete" /\ actual \in Known)
    <3> DEFINE f == actual \notin Known \/ report = "invalid"
    <3>1. a = [attempts[i] EXCEPT !.state = "unknown", !.flagged = f]
      BY <2>3 DEF Settled
    <3>2. f \in BOOLEAN
      OBVIOUS
    <3> HIDE DEF f
    <3> QED BY <2>1, <3>1, <3>2 DEF Attempt, States
  <2> QED BY <2>2, <2>3
<1> HIDE DEF a
<1>4. Resting \in Callers /\ Resting.pc = "none"
  BY DEF Resting, Callers
<1>5. attempts[i].state = "sending"
  BY <1>2, Members DEF Coherent
<1>6. Coherent(a, Resting, sent[i]) /\ Coherent(attempts[i], Resting, sent[i])
  BY <1>3, <1>4, <1>5, Members DEF Coherent
<1> QED BY <1>2, <1>3, <1>4, <1>5, <1>6, Members, OneAttempt

\* A step that is about a process only.
LEMMA ProcessOnly ==
  ASSUME IInv, process' \in [Procs -> Openers], UNCHANGED <<attempts, caller, sent>>
  PROVE  TypeOK' /\ \A j \in Ids : Keeps(j)
<1>1. \A j \in Ids : Untouched(j)
  BY DEF Untouched
<1>2. TypeOK'
  BY DEF IInv, TypeOK, Openers
<1> QED BY <1>1, <1>2, UntouchedKeeps DEF IInv

\* OpenBudget lists, and is done.
LEMMA OpenInv ==
  ASSUME IInv, NEW p \in Procs, Open(p) \/ Opened(p)
  PROVE  TypeOK' /\ \A j \in Ids : Keeps(j)
<1>1. process \in [Procs -> Openers]
  BY DEF IInv, TypeOK, Openers
<1>2. process' \in [Procs -> Openers] /\ UNCHANGED <<attempts, caller, sent>>
  <2>1. CASE Open(p)
    <3> DEFINE todo == {i \in Ids : attempts[i].state \in {"reserved", "sending"}}
    <3>1. process' = [process EXCEPT ![p] = [state |-> "opening", todo |-> todo]]
      BY <2>1 DEF Open
    <3>2. todo \in SUBSET Ids
      OBVIOUS
    <3> HIDE DEF todo
    <3> QED BY <1>1, <2>1, <3>1, <3>2 DEF Openers, Open
  <2>2. CASE Opened(p)
    BY <1>1, <2>2 DEF Openers, Opened
  <2> QED BY <2>1, <2>2
<1> QED BY <1>2, ProcessOnly

\* Recover under the lease: what was marked stays charged.
LEMMA RecoverInv ==
  ASSUME IInv, NEW i \in Ids, NEW p \in Procs, RecoverOne(p, i)
  PROVE  TypeOK' /\ \A j \in Ids : Keeps(j)
<1> DEFINE a == Orphaned(attempts[i])
<1>1. process' \in [Procs -> Openers]
  <2>1. process \in [Procs -> Openers]
    BY DEF IInv, TypeOK, Openers
  <2>2. \/ process' = [process EXCEPT ![p].todo = @ \ {i}]
        \/ process' = [process EXCEPT ![p] = Down]
    BY DEF RecoverOne
  <2> QED BY <2>1, <2>2 DEF Openers, Down
<1>2. /\ \/ ~Leased(i) /\ attempts' = [attempts EXCEPT ![i] = a]
         \/ attempts' = attempts
      /\ caller' = caller /\ sent' = sent
  BY DEF RecoverOne, Probed, Write
<1>3. CASE attempts' = attempts
  BY <1>1, <1>2, <1>3, ProcessOnly
<1>4. CASE ~Leased(i) /\ attempts' = [attempts EXCEPT ![i] = a]
  <2> DEFINE st == CASE attempts[i].state = "reserved" -> "released"
                     [] attempts[i].state = "sending"  -> "unknown"
                     [] OTHER                          -> attempts[i].state
  <2>1. attempts[i] \in Attempt
    BY Members
  <2>2. /\ st \in States
        /\ attempts[i].state = "reserved" => st = "released"
        /\ attempts[i].state = "sending" => st = "unknown"
        /\ attempts[i].state \notin {"reserved", "sending"} => st = attempts[i].state
    BY <2>1 DEF Attempt, States
  <2>3. a = [attempts[i] EXCEPT !.state = st]
    BY DEF Orphaned
  <2> HIDE DEF a, st
  <2>4. /\ a \in Attempt /\ a.state = st /\ a.model = attempts[i].model
        /\ a.output = attempts[i].output /\ a.reserved = attempts[i].reserved
        /\ a.cost = attempts[i].cost
    BY <2>1, <2>2, <2>3, Restated
  <2>5. caller[i].pc = "none"
    BY <1>4 DEF Leased
  <2>6. Coherent(a, caller[i], sent[i])
    BY <2>2, <2>4, <2>5, Members DEF Coherent
  <2>7. attempts[i].state \in {"settled", "released"} => a = attempts[i]
    <3>1. ASSUME attempts[i].state \in {"settled", "released"} PROVE a = attempts[i]
      <4>1. st = attempts[i].state
        BY <2>2, <3>1
      <4> QED BY <2>1, <2>3, <4>1 DEF Attempt
    <3> QED BY <3>1
  <2> QED BY <1>1, <1>2, <1>4, <2>4, <2>5, <2>6, <2>7, Members, OneAttempt
<1> QED BY <1>2, <1>3, <1>4

\* Reconcile charges what the operator confirms, once, and nothing a call holds.
LEMMA ReconcileInv ==
  ASSUME IInv, NEW i \in Ids, NEW cost \in Confirmed, Reconcile(i, cost)
  PROVE  TypeOK' /\ \A j \in Ids : Keeps(j)
<1> DEFINE a == [attempts[i] EXCEPT !.state = "settled", !.cost = cost, !.flagged = FALSE]
           s == [bill |-> cost, fits |-> FALSE]
<1>1. /\ ~Leased(i) /\ attempts[i].state \in {"unknown", "sending"}
      /\ attempts' = [attempts EXCEPT ![i] = a]
      /\ sent' = [sent EXCEPT ![i] = s]
      /\ caller' = caller /\ process' = process
  BY DEF Reconcile, Reconcilable, Write
<1>2. cost \in Nat /\ attempts[i] \in Attempt
  BY BudgetConstants, Members
<1>3. /\ a \in Attempt /\ a.state = "settled" /\ a.cost = cost
      /\ a.model = attempts[i].model /\ a.output = attempts[i].output
      /\ a.reserved = attempts[i].reserved
  BY <1>2 DEF Attempt, States
<1>4. s \in Bills /\ s.bill = cost /\ s.fits = FALSE
  BY <1>2 DEF Bills
<1> HIDE DEF a, s
<1>5. caller[i].pc = "none"
  BY <1>1 DEF Leased
<1>6. Coherent(a, caller[i], s)
  BY <1>1, <1>3, <1>4, <1>5, Members DEF Coherent
<1> QED BY <1>1, <1>3, <1>4, <1>5, <1>6, Members, OneAttempt

\* Death leaves every record as it is.
LEMMA CrashInv ==
  ASSUME IInv, NEW p \in Procs, Crash(p)
  PROVE  TypeOK' /\ \A j \in Ids : Keeps(j)
<1>1. /\ process' \in [Procs -> Openers]
      /\ attempts' = attempts /\ sent' = sent
      /\ \A j \in Ids : caller'[j] \in {Resting, caller[j]}
      /\ caller' \in [Ids -> Callers]
  <2>1. process \in [Procs -> Openers] /\ caller \in [Ids -> Callers]
    BY DEF IInv, TypeOK, Openers, Callers
  <2>2. Down \in Openers /\ Resting \in Callers
    BY DEF Down, Openers, Resting, Callers
  <2> QED BY <2>1, <2>2 DEF Crash
<1>2. TypeOK'
  BY <1>1 DEF IInv, TypeOK, Openers, Callers
<1>3. ASSUME NEW j \in Ids PROVE Keeps(j)
  <2>1. Coherent(attempts[j], caller[j], sent[j])
    BY Members
  <2>2. Coherent(attempts[j], Resting, sent[j])
    BY <2>1 DEF Coherent, Resting
  <2> QED BY <1>1, <2>1, <2>2 DEF Keeps, Sound, Owned, Closed
<1> QED BY <1>2, <1>3

-----------------------------------------------------------------------------
(* The account: the theorems                                               *)

\* Every step keeps the invariant, the calls under way and the closed attempts.
LEMMA StepKeeps ==
  IInv /\ [Next]_vars => TypeOK' /\ \A j \in Ids : Keeps(j)
<1> SUFFICES ASSUME IInv, [Next]_vars
             PROVE  TypeOK' /\ \A j \in Ids : Keeps(j)
  OBVIOUS
<1>1. ASSUME NEW i \in Ids, Calling(i)
      PROVE  TypeOK' /\ \A j \in Ids : Keeps(j)
  BY <1>1, ReserveInv, ClaimInv, CancelInv, UnsentInv, SendInv, SettleInv DEF Calling
<1>2. ASSUME NEW i \in Ids, NEW cost \in Confirmed, Reconcile(i, cost)
      PROVE  TypeOK' /\ \A j \in Ids : Keeps(j)
  BY <1>2, ReconcileInv
<1>3. ASSUME NEW p \in Procs, Open(p) \/ Opened(p) \/ Crash(p) \/ \E i \in Ids : RecoverOne(p, i)
      PROVE  TypeOK' /\ \A j \in Ids : Keeps(j)
  BY <1>3, OpenInv, CrashInv, RecoverInv
<1>4. CASE UNCHANGED vars
  <2>1. process' \in [Procs -> Openers] /\ UNCHANGED <<attempts, caller, sent>>
    BY <1>4 DEF vars, IInv, TypeOK, Openers
  <2> QED BY <2>1, ProcessOnly
<1> QED BY <1>1, <1>2, <1>3, <1>4 DEF Next

\* The inductive invariant holds of every behaviour of the account.
THEOREM Invariant == Spec => []IInv
<1>1. IInv /\ [Next]_vars => IInv'
  BY StepKeeps DEF IInv, Keeps
<1> QED BY InitInv, <1>1, PTL DEF Spec

\* A call that left is never free (Recover, unsent and the settlement).
THEOREM CallsAreCharged == Spec => []NeverFree
<1>1. ASSUME IInv PROVE NeverFree
  <2>1. ASSUME NEW i \in Ids
        PROVE  /\ sent[i] # NotSent => attempts[i].state \in {"sending", "unknown", "settled"}
               /\ attempts[i].state = "settled" => attempts[i].cost = sent[i].bill
    BY <1>1, Members DEF Coherent, Attempt, States
  <2> QED BY <2>1 DEF NeverFree
<1> QED BY Invariant, <1>1, PTL

\* A bill at the call's own price and within its window and output is no more
\* than what the call reserved (the reservation in Budgeted.run), so single bills
\* exceed reservations only where the provider breaks the terms.
THEOREM BillsCovered ==
  Spec => [](\A i \in Ids : sent[i].fits => sent[i].bill <= attempts[i].reserved)
<1>1. IInv => \A i \in Ids : sent[i].fits => sent[i].bill <= attempts[i].reserved
  BY DEF IInv, Sound, Coherent
<1> QED BY Invariant, <1>1, PTL

\* Recovery and operators leave the attempts of live calls alone (the leases).
THEOREM LeasesHold == Spec => SenderOwns
<1>1. IInv /\ [Next]_vars => [\A i \in Ids : Owned(i)]_vars
  BY StepKeeps DEF Keeps
<1>2. Spec => [][\A i \in Ids : Owned(i)]_vars
  BY Invariant, <1>1, PTL DEF Spec
<1> QED BY <1>2 DEF SenderOwns, Owned

\* A settled or released attempt never changes (update, Recover, Reconcile).
THEOREM ClosedStays == Spec => ClosedIsFinal
<1>1. IInv /\ [Next]_vars => [\A i \in Ids : Closed(i)]_vars
  BY StepKeeps DEF Keeps
<1>2. Spec => [][\A i \in Ids : Closed(i)]_vars
  BY Invariant, <1>1, PTL DEF Spec
<1> QED BY <1>2 DEF ClosedIsFinal, Closed

\* Both of them (SenderOwns and ClosedIsFinal).
THEOREM AttemptsStay == Spec => AttemptsGuarded
  BY LeasesHold, ClosedStays, PTL DEF AttemptsGuarded

-----------------------------------------------------------------------------
(* The account: the limit                                                  *)

\* What an attempt still puts at risk: its reservation while it is held, and when
\* it is settled what it cost, up to the reservation.  Unlike the charge it never
\* grows once the attempt is admitted.
Risk(a) == CASE a.state \in HeldStates -> a.reserved
             [] a.state = "settled"    -> IF a.cost <= a.reserved THEN a.cost ELSE a.reserved
             [] OTHER                  -> 0
Risks == [i \in Ids |-> Risk(attempts[i])]

Covered == Total(Risks, Ids) <= Limit

\* A record that exists keeps its reservation, and one that does not stays away.
Admitted(i) ==
  /\ attempts[i].state = "absent" => attempts'[i] = attempts[i]
  /\ attempts[i].state # "absent" => attempts'[i].reserved = attempts[i].reserved

\* What an attempt may still cost.
LEMMA RiskValue ==
  ASSUME NEW a \in Attempt
  PROVE  /\ Risk(a) \in Nat /\ Charge(a) \in Nat /\ Risk(a) <= Charge(a)
         /\ a.state = "absent" => Risk(a) = 0
         /\ a.state \in HeldStates => Risk(a) = a.reserved
         /\ Risk(a) <= a.reserved
<1>1. a.reserved \in Nat /\ a.cost \in Nat
  BY DEF Attempt
<1>2. CASE a.state \in HeldStates
  BY <1>1, <1>2 DEF Risk, Charge, HeldStates
<1>3. CASE a.state = "settled"
  BY <1>1, <1>3 DEF Risk, Charge, HeldStates
<1>4. CASE a.state \notin HeldStates /\ a.state # "settled"
  BY <1>1, <1>4 DEF Risk, Charge, HeldStates
<1> QED BY <1>2, <1>3, <1>4

\* What the attempts may cost is a natural for each.
LEMMA RisksType ==
  TypeOK => /\ Risks \in [Ids -> Nat]
            /\ [i \in Ids |-> Charge(attempts[i])] \in [Ids -> Nat]
            /\ \A i \in Ids : Risk(attempts[i]) <= Charge(attempts[i])
<1> SUFFICES ASSUME TypeOK
             PROVE  \A i \in Ids : /\ Risk(attempts[i]) \in Nat /\ Charge(attempts[i]) \in Nat
                                  /\ Risk(attempts[i]) <= Charge(attempts[i])
  BY DEF Risks
<1>1. \A i \in Ids : attempts[i] \in Attempt
  BY DEF TypeOK
<1> QED BY <1>1, RiskValue

\* Every step but Reserve leaves the admitted attempts what they are.
LEMMA OthersAdmitted ==
  ASSUME IInv, [Next]_vars,
         ~ \E i \in Ids, p \in Procs, m \in Known, n \in Outputs : Reserve(i, p, m, n)
  PROVE  \A j \in Ids : Admitted(j)
<1> DEFINE Goal == \A j \in Ids : Admitted(j)
<1>0. \A i \in Ids : attempts[i] \in Attempt /\ Coherent(attempts[i], caller[i], sent[i])
  BY Members
<1>1. ASSUME attempts' = attempts PROVE Goal
  BY <1>1 DEF Admitted
<1>2. ASSUME NEW i \in Ids, NEW a, attempts' = [attempts EXCEPT ![i] = a],
             a.reserved = attempts[i].reserved, attempts[i].state # "absent" \/ a = attempts[i]
      PROVE  Goal
  <2>1. attempts'[i] = a /\ \A j \in Ids \ {i} : attempts'[j] = attempts[j]
    BY <1>2 DEF IInv, TypeOK
  <2>2. Admitted(i)
    BY <1>2, <2>1 DEF Admitted
  <2> QED BY <2>1, <2>2 DEF Admitted
<1>3. \A i \in Ids : \A st : [attempts[i] EXCEPT !.state = st].reserved = attempts[i].reserved
  BY <1>0 DEF Attempt
<1> HIDE DEF Goal
<1>4. ASSUME NEW i \in Ids, Claim(i) PROVE Goal
  <2>1. attempts[i].state = "reserved"
    BY <1>0, <1>4 DEF Claim, Coherent
  <2>2. attempts' = attempts
        \/ attempts' = [attempts EXCEPT ![i] = [attempts[i] EXCEPT !.state = "sending"]]
    BY <1>4 DEF Claim, Write
  <2> QED BY <1>1, <1>2, <1>3, <2>1, <2>2
<1>5. ASSUME NEW i \in Ids, Unsent(i) PROVE Goal
  <2>1. attempts[i].state # "absent"
    BY <1>0, <1>5 DEF Unsent, Coherent
  <2>2. attempts' = attempts
        \/ attempts' = [attempts EXCEPT ![i] = [attempts[i] EXCEPT !.state = "released"]]
    BY <1>5 DEF Unsent, Write
  <2> QED BY <1>1, <1>2, <1>3, <2>1, <2>2
<1>6. ASSUME NEW i \in Ids, NEW report, Settle(i, report) PROVE Goal
  <2>1. attempts[i].state # "absent"
    BY <1>0, <1>6 DEF Settle, Coherent
  <2>2. PICK actual : \/ attempts' = attempts
                      \/ attempts' = [attempts EXCEPT ![i] =
                                        Settled(attempts[i], report, actual, sent[i].bill)]
    BY <1>6 DEF Settle, Write
  <2>3. Settled(attempts[i], report, actual, sent[i].bill).reserved = attempts[i].reserved
    <3>1. attempts[i] \in Attempt
      BY <1>0
    <3>2. CASE report = "complete" /\ actual \in Known
      BY <3>1, <3>2 DEF Settled, Attempt
    <3>3. CASE ~(report = "complete" /\ actual \in Known)
      <4> DEFINE f == actual \notin Known \/ report = "invalid"
      <4>1. Settled(attempts[i], report, actual, sent[i].bill)
              = [attempts[i] EXCEPT !.state = "unknown", !.flagged = f]
        BY <3>3 DEF Settled
      <4> HIDE DEF f
      <4> QED BY <3>1, <4>1 DEF Attempt
    <3> QED BY <3>2, <3>3
  <2> QED BY <1>1, <1>2, <2>1, <2>2, <2>3
<1>7. ASSUME NEW i \in Ids, NEW p \in Procs, RecoverOne(p, i) PROVE Goal
  <2>1. attempts' = attempts \/ attempts' = [attempts EXCEPT ![i] = Orphaned(attempts[i])]
    BY <1>7 DEF RecoverOne, Write
  <2>2. /\ Orphaned(attempts[i]).reserved = attempts[i].reserved
        /\ attempts[i].state = "absent" => Orphaned(attempts[i]) = attempts[i]
    <3>1. attempts[i] \in Attempt
      BY <1>0
    <3> DEFINE st == CASE attempts[i].state = "reserved" -> "released"
                       [] attempts[i].state = "sending"  -> "unknown"
                       [] OTHER                          -> attempts[i].state
    <3>2. Orphaned(attempts[i]) = [attempts[i] EXCEPT !.state = st]
      BY DEF Orphaned
    <3>3. attempts[i].state = "absent" => st = attempts[i].state
      OBVIOUS
    <3> HIDE DEF st
    <3> QED BY <3>1, <3>2, <3>3 DEF Attempt
  <2> QED BY <1>1, <1>2, <2>1, <2>2
<1>8. ASSUME NEW i \in Ids, NEW cost \in Confirmed, Reconcile(i, cost) PROVE Goal
  <2>1. /\ attempts[i].state # "absent"
        /\ attempts' = [attempts EXCEPT ![i] =
             [attempts[i] EXCEPT !.state = "settled", !.cost = cost, !.flagged = FALSE]]
    BY <1>8 DEF Reconcile, Reconcilable, Write
  <2>2. [attempts[i] EXCEPT !.state = "settled", !.cost = cost, !.flagged = FALSE].reserved
          = attempts[i].reserved
    BY <1>0 DEF Attempt
  <2> QED BY <1>2, <2>1, <2>2
<1>9. ASSUME \/ \E i \in Ids : Cancel(i) \/ \E q \in Models, u \in Usages : Send(i, q, u)
             \/ \E p \in Procs : Open(p) \/ Opened(p) \/ Crash(p)
             \/ UNCHANGED vars
      PROVE  Goal
  <2>1. attempts' = attempts
    BY <1>9 DEF Cancel, Send, Open, Opened, Crash, vars
  <2> QED BY <1>1, <2>1
<1> QED BY <1>4, <1>5, <1>6, <1>7, <1>8, <1>9, Zenon DEF Next, Calling, Goal

\* ... so that no attempt's risk grows (settling, recovering and reconciling give
\* up what the reservation had to spare, and a closed attempt stays).
LEMMA RiskShrinks ==
  ASSUME IInv, TypeOK', \A j \in Ids : Admitted(j), \A j \in Ids : Closed(j)
  PROVE  \A j \in Ids : Risk(attempts'[j]) <= Risk(attempts[j])
<1> SUFFICES ASSUME NEW j \in Ids PROVE Risk(attempts'[j]) <= Risk(attempts[j])
  OBVIOUS
<1>1. attempts[j] \in Attempt /\ attempts'[j] \in Attempt
  BY DEF IInv, TypeOK
<1>2. Risk(attempts[j]) \in Nat
  BY <1>1, RiskValue
<1>3. CASE attempts'[j] = attempts[j]
  BY <1>2, <1>3
<1>4. CASE attempts'[j] # attempts[j]
  <2>1. attempts[j].state \in HeldStates /\ attempts'[j].reserved = attempts[j].reserved
    BY <1>1, <1>4 DEF Admitted, Closed, Attempt, States, HeldStates
  <2> QED BY <1>1, <2>1, RiskValue
<1> QED BY <1>3, <1>4

\* reserve admits an attempt only when its worst case fits beside all charges.
LEMMA ReserveCovered ==
  ASSUME IInv, NEW i \in Ids, NEW p \in Procs, NEW m \in Known, NEW n \in Outputs,
         Reserve(i, p, m, n)
  PROVE  Covered'
<1> DEFINE amount == Reservation(Price[m], n)
           a == [NoAttempt EXCEPT !.state = "reserved", !.model = m, !.output = n,
                                  !.reserved = amount]
           one == [j \in Ids |-> IF j = i THEN amount ELSE 0]
           charges == [j \in Ids |-> Charge(attempts[j])]
           both == [j \in Ids |-> Risks[j] + one[j]]
<1>0. IsFiniteSet(Ids) /\ Limit \in Nat
  BY BudgetConstants
<1>1. amount \in Nat /\ m \in Models /\ n \in Nat
  BY BudgetConstants, ReservationNat
<1>2. /\ attempts[i].state = "absent"
      /\ Consumed + amount <= Limit
      /\ attempts' = [attempts EXCEPT ![i] = a]
  BY DEF Reserve, Write, Admits
<1> HIDE DEF amount
<1>3. a \in Attempt /\ a.state = "reserved" /\ a.reserved = amount
  BY <1>1 DEF NoAttempt, Attempt, States
<1> HIDE DEF a
<1>4. Risk(attempts[i]) = 0 /\ Risk(a) = amount
  <2>1. attempts[i] \in Attempt
    BY DEF IInv, TypeOK
  <2> QED BY <1>2, <1>3, <2>1, RiskValue DEF HeldStates
<1>5. /\ Risks \in [Ids -> Nat] /\ charges \in [Ids -> Nat]
      /\ \A j \in Ids : Risks[j] <= charges[j]
  BY RisksType DEF IInv, Risks
<1>6. one \in [Ids -> Nat]
  BY <1>1
<1>7. Risks' = both
  <2>1. \A j \in Ids : Risk(attempts'[j]) = Risks[j] + one[j]
    BY <1>1, <1>2, <1>4, <1>5 DEF IInv, TypeOK, Risks
  <2> QED BY <2>1 DEF Risks
<1>8. both \in [Ids -> Nat]
  BY <1>5, <1>6
<1>9. Total(both, Ids) = Total(Risks, Ids) + Total(one, Ids)
  <2> HIDE DEF one
  <2> QED BY <1>0, <1>5, <1>6, TotalSum
<1>10. Total(one, Ids) = amount
  BY <1>0, <1>1, TotalSingle
<1>11. Total(Risks, Ids) <= Total(charges, Ids)
  <2> HIDE DEF charges
  <2> QED BY <1>0, <1>5, TotalMonotone
<1>12. /\ Total(Risks, Ids) \in Nat /\ Total(charges, Ids) \in Nat
       /\ Consumed = Total(charges, Ids)
  <2>1. Consumed = Together(charges)
    BY DEF Consumed
  <2> HIDE DEF charges
  <2> QED BY <1>0, <1>5, <2>1, TotalNat, TogetherTotal
<1>13. Total(Risks, Ids)' = Total(both, Ids)
  <2>1. Total(Risks, Ids)' = Total(Risks', Ids)
    BY DEF Total, IsFold, Some
  <2> HIDE DEF both
  <2> QED BY <1>7, <2>1
<1> HIDE DEF one, charges, both
<1>14. Total(both, Ids) <= Limit
  BY <1>0, <1>1, <1>2, <1>9, <1>10, <1>11, <1>12
<1> QED BY <1>13, <1>14 DEF Covered

\* The reservations and costs of all attempts together never pass the limit.
LEMMA CoveredStep == IInv /\ Covered /\ [Next]_vars => Covered'
<1> SUFFICES ASSUME IInv, Covered, [Next]_vars PROVE Covered'
  OBVIOUS
<1>1. CASE \E i \in Ids, p \in Procs, m \in Known, n \in Outputs : Reserve(i, p, m, n)
  BY <1>1, ReserveCovered
<1>2. CASE ~ \E i \in Ids, p \in Procs, m \in Known, n \in Outputs : Reserve(i, p, m, n)
  <2>0. IsFiniteSet(Ids) /\ Limit \in Nat
    BY BudgetConstants
  <2>1. TypeOK' /\ \A j \in Ids : Closed(j)
    BY StepKeeps DEF Keeps
  <2>2. \A j \in Ids : Risk(attempts'[j]) <= Risk(attempts[j])
    BY <1>2, <2>1, OthersAdmitted, RiskShrinks
  <2>3. Risks \in [Ids -> Nat] /\ Risks' \in [Ids -> Nat]
    <3>1. \A i \in Ids : attempts'[i] \in Attempt
      BY <2>1 DEF TypeOK
    <3>2. \A i \in Ids : Risk(attempts'[i]) \in Nat
      BY <3>1, RiskValue
    <3> QED BY <3>2, RisksType DEF IInv, Risks
  <2>4. \A j \in Ids : Risks'[j] <= Risks[j]
    BY <2>2 DEF Risks
  <2>5. Total(Risks', Ids) <= Total(Risks, Ids)
    BY <2>0, <2>3, <2>4, TotalMonotone
  <2>6. Total(Risks, Ids) \in Nat /\ Total(Risks', Ids) \in Nat
    BY <2>0, <2>3, TotalNat
  <2>7. Total(Risks, Ids)' = Total(Risks', Ids)
    BY DEF Total, IsFold, Some
  <2> QED BY <2>0, <2>5, <2>6, <2>7 DEF Covered
<1> QED BY <1>1, <1>2

\* At first nothing was sent.
LEMMA CoveredInit == Init => Covered
<1> SUFFICES ASSUME Init PROVE Covered
  OBVIOUS
<1> DEFINE nothing == [i \in Ids |-> 0]
<1>0. IsFiniteSet(Ids) /\ Limit \in Nat
  BY BudgetConstants
<1>1. Risks = nothing
  BY RiskValue DEF Init, Risks, Risk, NoAttempt, HeldStates
<1>2. nothing \in [Ids -> Nat]
  OBVIOUS
<1>3. [i \in Ids |-> nothing[i] + nothing[i]] = nothing
  OBVIOUS
<1> HIDE DEF nothing
<1>4. Total(nothing, Ids) \in Nat /\ Total(nothing, Ids) = Total(nothing, Ids) + Total(nothing, Ids)
  <2>1. Total([i \in Ids |-> nothing[i] + nothing[i]], Ids)
          = Total(nothing, Ids) + Total(nothing, Ids)
    BY <1>0, <1>2, TotalSum
  <2> QED BY <1>0, <1>2, <1>3, <2>1, TotalNat
<1>5. Total(nothing, Ids) = 0
  <2>1. \A n \in Nat : n = n + n => n = 0
    OBVIOUS
  <2> QED BY <1>4, <2>1, Zenon
<1> QED BY <1>0, <1>1, <1>5 DEF Covered

\* A bill is at most the attempt's risk and what it exceeds its reservation by.
LEMMA BillAtRisk ==
  ASSUME IInv, NEW i \in Ids
  PROVE  /\ sent[i].bill \in Nat /\ Excess(i) \in Nat /\ Risk(attempts[i]) \in Nat
         /\ sent[i].bill <= Risk(attempts[i]) + Excess(i)
<1>1. /\ attempts[i] \in Attempt /\ sent[i] \in Bills
      /\ Coherent(attempts[i], caller[i], sent[i])
  BY Members
<1>2. /\ sent[i].bill \in Nat /\ attempts[i].reserved \in Nat /\ attempts[i].cost \in Nat
      /\ attempts[i].state \in States /\ Risk(attempts[i]) \in Nat
  BY <1>1, RiskValue DEF Attempt, Bills
<1>3. Excess(i) \in Nat /\ sent[i].bill <= attempts[i].reserved + Excess(i)
  BY <1>1, <1>2 DEF Excess, Coherent
<1>4. CASE attempts[i].state \in HeldStates
  BY <1>1, <1>2, <1>3, <1>4, RiskValue
<1>5. CASE attempts[i].state = "settled"
  <2>1. attempts[i].cost = sent[i].bill
    BY <1>1, <1>5 DEF Coherent
  <2>2. Risk(attempts[i]) = IF attempts[i].cost <= attempts[i].reserved
                            THEN attempts[i].cost ELSE attempts[i].reserved
    BY <1>5 DEF Risk, HeldStates
  <2> QED BY <1>2, <1>3, <2>1, <2>2
<1>6. CASE attempts[i].state \in {"absent", "released"}
  <2>1. sent[i].bill = 0
    BY <1>1, <1>6 DEF Coherent, NotSent
  <2> QED BY <1>2, <1>3, <2>1
<1> QED BY <1>2, <1>3, <1>4, <1>5, <1>6 DEF States, HeldStates

\* A ledger that covers what every attempt may cost bounds the bill.
LEMMA CoveredBills == IInv /\ Covered => SpendBounded
<1> SUFFICES ASSUME IInv, Covered PROVE SpendBounded
  OBVIOUS
<1> DEFINE bills == [i \in Ids |-> sent[i].bill]
           excess == [i \in Ids |-> Excess(i)]
           both == [i \in Ids |-> Risks[i] + excess[i]]
<1>0. IsFiniteSet(Ids) /\ Limit \in Nat
  BY BudgetConstants
<1>1. /\ bills \in [Ids -> Nat] /\ excess \in [Ids -> Nat] /\ Risks \in [Ids -> Nat]
      /\ \A i \in Ids : bills[i] <= Risks[i] + excess[i]
  BY BillAtRisk DEF Risks
<1>2. /\ Bill = Together(bills)
      /\ Bill <= Limit + Together(excess) => SpendBounded
  BY DEF Bill, SpendBounded
<1> HIDE DEF bills, excess
<1>3. both \in [Ids -> Nat] /\ \A i \in Ids : bills[i] <= both[i]
  BY <1>1
<1>4. Total(both, Ids) = Total(Risks, Ids) + Total(excess, Ids)
  BY <1>0, <1>1, TotalSum
<1> HIDE DEF both
<1>5. Total(bills, Ids) <= Total(both, Ids)
  BY <1>0, <1>1, <1>3, TotalMonotone
<1>6. /\ Total(bills, Ids) \in Nat /\ Total(both, Ids) \in Nat
      /\ Total(Risks, Ids) \in Nat /\ Total(excess, Ids) \in Nat
  BY <1>0, <1>1, <1>3, TotalNat
<1>7. Together(bills) = Total(bills, Ids) /\ Together(excess) = Total(excess, Ids)
  BY <1>1, TogetherTotal
<1> QED BY <1>0, <1>2, <1>4, <1>5, <1>6, <1>7 DEF Covered

\* docs/COST_BUDGET.md, stage 1: what the provider bills for all calls of all
\* processes stays within the limit, but for what single bills exceed their
\* reservations by (reserve, the settlement, Recover and Reconcile).
THEOREM SpendStaysBounded == Spec => []SpendBounded
<1>1. Spec => [](IInv /\ Covered)
  BY Invariant, CoveredInit, CoveredStep, PTL DEF Spec
<1> QED BY <1>1, CoveredBills, PTL

-----------------------------------------------------------------------------
(* The requests: their inductive invariant                                 *)

Active(x) == x.pc \in {"call", "quit"}

\* A request inside Budgeted.run holds its attempt, and has heard of it only
\* while the call is under way.
Inside(x) ==
  Active(x) =>
    /\ x.attempt \in Ids
    /\ caller[x.attempt].pc # "none" /\ caller[x.attempt].proc = x.proc
    /\ x.heard # {} => caller[x.attempt].pc = "calling"

\* Recorded, and not in need of an operator who says by whom it was answered.
Recorded(i) == attempts[i].state \in {"settled", "unknown"} /\ ~attempts[i].flagged

Voice(x) ==
  /\ x.heard \cup x.answered \subseteq {x.attempt}
  /\ x.pc = "try" => x.heard = {}
  /\ x.pc # "done" => x.answered = {} /\ x.out = "none"
  /\ x.out = "answer" =>
       x.attempt \in Ids /\ x.answered = {x.attempt} /\ Recorded(x.attempt)

Fine(r) == Inside(req[r]) /\ Voice(req[r])

\* Two requests are never inside the same attempt.
Apart(r, s) == Active(req[r]) /\ Active(req[s]) /\ r # s => req[r].attempt # req[s].attempt

RInv == /\ IInv /\ req \in [Requests -> Request]
        /\ \A r \in Requests : Fine(r)
        /\ \A r, s \in Requests : Apart(r, s)

-----------------------------------------------------------------------------
(* Requests use the account                                                *)

LEMMA Quotient ==
  ASSUME NEW a \in Nat, NEW b \in Nat \ {0}
  PROVE  a \div b \in Nat /\ (a \div b) * b <= a
  OBVIOUS

\* The client of a try that the loop can reach is one that is configured.
LEMMA AskedKnown ==
  ASSUME NEW k \in 0 .. (Tries - 1) PROVE Asked(k) \in Known
<1> DEFINE d == Retries + 1
           q == k \div d
<1>0. Clients \in Seq(Known) /\ Len(Clients) \in Nat
  BY ResilientConstants, LenProperties
<1>1. /\ Clients \in Seq(Known) /\ Len(Clients) \in Nat /\ d \in Nat /\ d > 0
      /\ k \in Nat /\ k < Len(Clients) * d
  <2>1. d \in Nat /\ d > 0 /\ Tries = Len(Clients) * d
    BY ResilientConstants DEF Tries
  <2> HIDE DEF d
  <2>2. Tries \in Nat
    BY <1>0, <2>1, ProductNat
  <2> QED BY <1>0, <2>1, <2>2
<1> HIDE DEF d
<1>2. q \in Nat /\ q * d <= k
  BY <1>1, Quotient
<1> HIDE DEF q
<1>3. q < Len(Clients)
  <2> SUFFICES ASSUME q >= Len(Clients) PROVE FALSE
    BY <1>1, <1>2
  <2>1. Len(Clients) * d <= q * d
    BY <1>1, <1>2, ProductMonotone
  <2> QED BY <2>1, <1>1, <1>2, ProductNat
<1>4. q + 1 \in 1 .. Len(Clients)
  BY <1>1, <1>2, <1>3
<1>5. Clients[q + 1] \in Known
  BY <1>1, <1>4, ElementOfSeq
<1> QED BY <1>5 DEF Asked, q, d

\* Every step is a step of the account, or leaves it alone.
LEMMA StepRefines ==
  ASSUME RInv, RNext
  PROVE  [Next]_vars
<1>1. ASSUME NEW r \in Requests, Requesting(r)
      PROVE  [Next]_vars
  <2>1. ASSUME NEW i \in Ids, NEW n \in Outputs, Attempting(r, i, n)
        PROVE  Next
    <3>1. req[r].proc \in Procs /\ req[r].tries \in 0 .. (Tries - 1)
      BY DEF RInv, Request
    <3>2. Asked(req[r].tries) \in Known
      BY <3>1, AskedKnown
    <3>3. Reserve(i, req[r].proc, Asked(req[r].tries), n)
      BY <2>1 DEF Attempting
    <3> QED BY <3>1, <3>2, <3>3 DEF Next, Calling
  <2>2. ASSUME Active(req[r]) PROVE req[r].attempt \in Ids
    BY <2>2 DEF RInv, Fine, Inside
  <2>3. CASE Claiming(r) \/ Cancelling(r) \/ Releasing(r)
    BY <2>2, <2>3 DEF Claiming, Cancelling, Releasing, Active, Next, Calling
  <2>4. ASSUME NEW q \in Models, NEW u \in Usages, Sending(r, q, u)
        PROVE  Next
    BY <2>2, <2>4 DEF Sending, Active, Next, Calling
  <2>5. ASSUME NEW report \in {"complete", "incomplete", "invalid"}, Answering(r, report)
        PROVE  Next
    BY <2>2, <2>5 DEF Answering, Active, Next, Calling
  <2>6. CASE Stop(r) \/ Turned(r) \/ Hear(r)
    BY <2>6 DEF Stop, Turned, Hear
  <2> QED BY <1>1, <2>1, <2>3, <2>4, <2>5, <2>6 DEF Requesting
<1>2. ASSUME NEW p \in Procs, Hosting(p) \/ Dies(p)
      PROVE  Next
  BY <1>2 DEF Hosting, Dies, Next
<1>3. CASE Operating
  BY <1>3 DEF Operating, Next
<1> QED BY <1>1, <1>2, <1>3 DEF RNext

-----------------------------------------------------------------------------
(* What a step leaves alone                                                *)

\* What was recorded of an answer stays recorded.
LEMMA RecordsStay ==
  ASSUME IInv, [Next]_vars, NEW i \in Ids, Recorded(i)
  PROVE  Recorded(i)'
<1>1. attempts[i] \in Attempt /\ attempts \in [Ids -> Attempt]
  BY DEF IInv, TypeOK
<1>2. /\ caller[i].pc = "claim" => attempts[i].state = "reserved"
      /\ caller[i].pc = "unsent" => attempts[i].state \in {"reserved", "sending"}
      /\ caller[i].pc = "calling" => attempts[i].state = "sending"
  BY DEF IInv, Sound, Coherent
<1>3. ASSUME NEW j \in Ids, Calling(j) PROVE attempts'[i] = attempts[i]
  <2>1. ASSUME NEW p \in Procs, NEW m \in Known, NEW n \in Outputs, Reserve(j, p, m, n)
        PROVE  attempts'[i] = attempts[i]
    BY <1>1, <2>1 DEF Reserve, Write, Recorded
  <2>2. CASE Claim(j)
    BY <1>1, <1>2, <2>2 DEF Claim, Write, Recorded
  <2>3. CASE Unsent(j)
    BY <1>1, <1>2, <2>3 DEF Unsent, Write, Recorded
  <2>4. ASSUME NEW report \in {"complete", "incomplete", "invalid"}, Settle(j, report)
        PROVE  attempts'[i] = attempts[i]
    BY <1>1, <1>2, <2>4 DEF Settle, Write, Recorded
  <2>5. CASE Cancel(j) \/ \E q \in Models, u \in Usages : Send(j, q, u)
    BY <2>5 DEF Cancel, Send
  <2> QED BY <1>3, <2>1, <2>2, <2>3, <2>4, <2>5 DEF Calling
<1>4. ASSUME NEW j \in Ids, NEW cost \in Confirmed, Reconcile(j, cost)
      PROVE  Recorded(i)'
  BY <1>1, <1>4 DEF Reconcile, Write, Recorded, Attempt
<1>5. ASSUME NEW p \in Procs, NEW j \in Ids, RecoverOne(p, j)
      PROVE  attempts'[i] = attempts[i]
  <2>1. Orphaned(attempts[i]) = attempts[i]
    BY <1>1 DEF Orphaned, Recorded, Attempt
  <2> QED BY <1>1, <1>5, <2>1 DEF RecoverOne, Write
<1>6. ASSUME NEW p \in Procs, Open(p) \/ Opened(p) \/ Crash(p)
      PROVE  attempts'[i] = attempts[i]
  BY <1>6 DEF Open, Opened, Crash
<1>7. CASE UNCHANGED vars
  BY <1>7 DEF vars, Recorded
<1>8. attempts'[i] = attempts[i] => Recorded(i)'
  BY DEF Recorded
<1> QED BY <1>3, <1>4, <1>5, <1>6, <1>7, <1>8 DEF Next

\* A request that does nothing, and whose attempt nobody else holds, stays fine.
LEMMA Bystander ==
  ASSUME RInv, [Next]_vars, NEW s \in Requests, req'[s] = req[s],
         Active(req[s]) => caller'[req[s].attempt] = caller[req[s].attempt]
  PROVE  Fine(s)'
<1>1. Fine(s) /\ IInv
  BY DEF RInv
<1>2. Inside(req[s])'
  BY <1>1 DEF Fine, Inside, Active
<1>3. req[s].out = "answer" => Recorded(req[s].attempt)'
  BY <1>1, RecordsStay DEF Fine, Voice
<1>4. Voice(req[s])'
  BY <1>1, <1>3 DEF Fine, Voice, Recorded
<1> QED BY <1>2, <1>4 DEF Fine

\* A step of one request: it is enough to look at what the request becomes.
LEMMA OneRequest ==
  ASSUME RInv, [Next]_vars, NEW r \in Requests,
         req' \in [Requests -> Request],
         \A s \in Requests \ {r} :
           /\ req'[s] = req[s]
           /\ Active(req[s]) => caller'[req[s].attempt] = caller[req[s].attempt],
         Fine(r)',
         Active(req'[r]) => \/ Active(req[r]) /\ req'[r].attempt = req[r].attempt
                            \/ caller[req'[r].attempt].pc = "none"
  PROVE  RInv'
<1>1. IInv'
  BY StepKeeps DEF RInv, IInv, Keeps
<1>2. \A s \in Requests : Fine(s)'
  BY Bystander
<1>3. ASSUME NEW s \in Requests \ {r}, Active(req[s]), Active(req'[r])
      PROVE  req[s].attempt # req'[r].attempt
  BY <1>3 DEF RInv, Apart, Fine, Inside
<1>4. \A s, t \in Requests : Apart(s, t)'
  BY <1>3 DEF RInv, Apart, Active
<1> QED BY <1>1, <1>2, <1>4 DEF RInv

-----------------------------------------------------------------------------
(* The requests: the steps                                                 *)

\* The loop after a failed try goes on only for a cause that may be retried.
LEMMA FailedFacts ==
  ASSUME NEW x \in Request, NEW causes
  PROVE  /\ Failed(x, causes) \in Request
         /\ Failed(x, causes).pc \in {"try", "done"}
         /\ Failed(x, causes).attempt = x.attempt
         /\ Failed(x, causes).heard = x.heard
         /\ Failed(x, causes).answered = x.answered
         /\ Failed(x, causes).out \in {x.out, "error"}
         /\ Failed(x, causes).pc = "try" => Failed(x, causes).out = x.out /\ Retryable(causes)
<1>1. CASE Retryable(causes) /\ x.tries + 1 < Tries
  <2>1. x.tries + 1 \in 0 .. (Tries - 1)
    <3>1. Tries \in Nat
      BY ResilientConstants, LenProperties DEF Tries
    <3> QED BY <1>1, <3>1 DEF Request
  <2> QED BY <1>1, <2>1 DEF Failed, Request
<1>2. CASE ~(Retryable(causes) /\ x.tries + 1 < Tries)
  BY <1>2 DEF Failed, Returns, Request
<1> QED BY <1>1, <1>2

\* A try that failed leaves its request fine, if it is not retried after a fragment
\* was heard or the model answered.
LEMMA FailedFine ==
  ASSUME NEW r \in Requests, RInv, NEW x \in Request, NEW causes,
         x.heard \cup x.answered \subseteq {x.attempt}, x.out = "none",
         Retryable(causes) => x.heard = {} /\ x.answered = {},
         req' = [req EXCEPT ![r] = Failed(x, causes)]
  PROVE  Fine(r)' /\ ~Active(req'[r]) /\ req' \in [Requests -> Request]
<1> DEFINE y == Failed(x, causes)
<1>1. /\ y \in Request /\ y.pc \in {"try", "done"}
      /\ y.attempt = x.attempt /\ y.heard = x.heard /\ y.answered = x.answered
      /\ y.out \in {"none", "error"}
      /\ y.pc = "try" => y.out = "none" /\ Retryable(causes)
  BY FailedFacts
<1> HIDE DEF y
<1>2. req'[r] = y /\ req' \in [Requests -> Request]
  BY <1>1 DEF RInv, y
<1>3. ~Active(req'[r])
  BY <1>1, <1>2 DEF Active
<1>4. Inside(req[r])'
  BY <1>3 DEF Inside, Active
<1>5. Voice(req[r])'
  BY <1>1, <1>2 DEF Voice
<1> QED BY <1>2, <1>3, <1>4, <1>5 DEF Fine

\* A step of Budgeted.run moves the caller of its own attempt only, and that is no
\* other request's.
LEMMA OtherCallers ==
  ASSUME RInv, NEW r \in Requests, Active(req[r]), NEW k,
         caller' = [caller EXCEPT ![req[r].attempt] = k],
         NEW s \in Requests \ {r}, Active(req[s])
  PROVE  caller'[req[s].attempt] = caller[req[s].attempt]
  BY DEF RInv, Apart, Fine, Inside, IInv, TypeOK

\* Steps that leave the account alone.
LEMMA QuietInv ==
  ASSUME RInv, NEW r \in Requests, UNCHANGED vars, req' \in [Requests -> Request],
         \A s \in Requests \ {r} : req'[s] = req[s],
         Fine(r)',
         Active(req'[r]) => Active(req[r]) /\ req'[r].attempt = req[r].attempt
  PROVE  RInv'
  BY OneRequest DEF vars

LEMMA StopInv ==
  ASSUME RInv, NEW r \in Requests, Stop(r) PROVE RInv'
<1>1. req[r] \in Request /\ Fine(r) /\ req[r].pc = "try"
  BY DEF RInv, Stop, Running
<1> DEFINE y == Returns(req[r], "error")
<1>2. /\ y \in Request /\ y.pc = "done" /\ y.out = "error" /\ y.attempt = req[r].attempt
      /\ y.heard = req[r].heard /\ y.answered = req[r].answered
  BY <1>1 DEF Returns, Request
<1>3. req' = [req EXCEPT ![r] = y] /\ UNCHANGED vars
  BY DEF Stop, Becomes
<1> HIDE DEF y
<1>4. /\ req'[r] = y /\ req' \in [Requests -> Request]
      /\ \A s \in Requests \ {r} : req'[s] = req[s]
  BY <1>2, <1>3 DEF RInv
<1>5. Fine(r)'
  BY <1>1, <1>2, <1>4 DEF Fine, Inside, Active, Voice
<1> QED BY <1>2, <1>3, <1>4, <1>5, QuietInv DEF Active

LEMMA TurnedInv ==
  ASSUME RInv, NEW r \in Requests, Turned(r) PROVE RInv'
<1>1. /\ req[r] \in Request /\ req[r].out = "none" /\ req[r].heard = {} /\ req[r].answered = {}
  BY DEF RInv, Turned, Running, Fine, Voice
<1>2. PICK causes : req' = [req EXCEPT ![r] = Failed(req[r], causes)]
  BY DEF Turned, Becomes
<1>3. Fine(r)' /\ ~Active(req'[r]) /\ req' \in [Requests -> Request]
  BY <1>1, <1>2, FailedFine
<1>4. \A s \in Requests \ {r} : req'[s] = req[s]
  BY <1>2 DEF RInv
<1> QED BY <1>3, <1>4, QuietInv DEF Turned

LEMMA HearInv ==
  ASSUME RInv, NEW r \in Requests, Hear(r) PROVE RInv'
<1> DEFINE i == req[r].attempt
           y == [req[r] EXCEPT !.heard = @ \cup {i}]
<1>1. /\ req[r] \in Request /\ Fine(r) /\ req[r].pc = "call" /\ caller[i].pc = "calling"
      /\ i \in Ids /\ UNCHANGED vars
      /\ req' = [req EXCEPT ![r] = y]
  BY DEF RInv, Hear, Becomes, Fine, Inside, Active
<1>2. /\ y \in Request /\ y.pc = "call" /\ y.attempt = i /\ y.heard = req[r].heard \cup {i}
      /\ y.answered = req[r].answered /\ y.out = req[r].out /\ y.proc = req[r].proc
  BY <1>1 DEF Request
<1> HIDE DEF y
<1>3. /\ req'[r] = y /\ req' \in [Requests -> Request]
      /\ \A s \in Requests \ {r} : req'[s] = req[s]
  BY <1>1, <1>2 DEF RInv
<1>4. caller' = caller
  BY <1>1 DEF vars
<1>5. Inside(req[r])'
  BY <1>1, <1>2, <1>3, <1>4 DEF Fine, Inside, Active
<1>6. Voice(req[r])'
  BY <1>1, <1>2, <1>3 DEF Fine, Voice
<1> QED BY <1>1, <1>2, <1>3, <1>5, <1>6, QuietInv DEF Active, Fine

\* Steps that move the request's own caller and nothing it has heard.
LEMMA MovesInv ==
  ASSUME RInv, [Next]_vars, NEW r \in Requests, Active(req[r]), req[r].heard = {},
         NEW k, k.pc # "none", k.proc = caller[req[r].attempt].proc,
         caller' = [caller EXCEPT ![req[r].attempt] = k],
         NEW pc \in {"call", "quit"},
         req' = [req EXCEPT ![r] = [req[r] EXCEPT !.pc = pc]]
  PROVE  RInv'
<1> DEFINE i == req[r].attempt
           y == [req[r] EXCEPT !.pc = pc]
<1>1. /\ req[r] \in Request /\ Fine(r) /\ i \in Ids /\ caller[i].proc = req[r].proc
      /\ req[r].out = "none" /\ req[r].answered = {}
  BY DEF RInv, Fine, Inside, Voice, Active
<1>2. /\ y \in Request /\ y.pc = pc /\ y.attempt = i /\ y.heard = {} /\ y.answered = {}
      /\ y.out = "none" /\ y.proc = req[r].proc
  BY <1>1 DEF Request
<1> HIDE DEF y
<1>3. /\ req'[r] = y /\ req' \in [Requests -> Request]
      /\ \A s \in Requests \ {r} : req'[s] = req[s]
  BY <1>2 DEF RInv, y
<1>4. caller'[i] = k
  BY <1>1 DEF RInv, IInv, TypeOK
<1>5. Inside(req[r])'
  BY <1>1, <1>2, <1>3, <1>4 DEF Inside, Active
<1>6. Voice(req[r])'
  BY <1>2, <1>3 DEF Voice
<1> QED BY <1>2, <1>3, <1>5, <1>6, OtherCallers, OneRequest DEF Fine

LEMMA ClaimingInv ==
  ASSUME RInv, [Next]_vars, NEW r \in Requests,
         Claiming(r) \/ Cancelling(r) \/ \E q \in Models, u \in Usages : Sending(r, q, u)
  PROVE  RInv'
<1> DEFINE i == req[r].attempt
<1>1. req[r] \in Request /\ req[r].pc = "call" /\ Active(req[r]) /\ i \in Ids
  BY DEF RInv, Claiming, Cancelling, Sending, Active, Fine, Inside
<1>2. caller[i].pc # "calling" /\ caller[i] \in Callers
  BY <1>1, Members DEF Claiming, Cancelling, Sending, Claim, Cancel, Send, RInv
<1>3. req[r].heard = {}
  BY <1>1, <1>2 DEF RInv, Fine, Inside
<1>4. [req[r] EXCEPT !.pc = "call"] = req[r] /\ [req EXCEPT ![r] = req[r]] = req
  BY <1>1 DEF Request, RInv
<1>5. CASE Claiming(r)
  <2>1. PICK pc \in {"send", "unsent"} : caller' = [caller EXCEPT ![i] = [caller[i] EXCEPT !.pc = pc]]
    BY <1>5 DEF Claiming, Claim
  <2>2. /\ [caller[i] EXCEPT !.pc = pc].pc # "none"
        /\ [caller[i] EXCEPT !.pc = pc].proc = caller[i].proc
    BY <1>2 DEF Callers
  <2>3. req' = [req EXCEPT ![r] = [req[r] EXCEPT !.pc = "call"]]
    BY <1>4, <1>5 DEF Claiming
  <2> QED BY <1>1, <1>3, <2>1, <2>2, <2>3, MovesInv
<1>6. CASE Cancelling(r)
  <2>1. /\ caller' = [caller EXCEPT ![i] = [caller[i] EXCEPT !.pc = "unsent"]]
        /\ req' = [req EXCEPT ![r] = [req[r] EXCEPT !.pc = "quit"]]
    BY <1>6 DEF Cancelling, Cancel, Becomes
  <2>2. /\ [caller[i] EXCEPT !.pc = "unsent"].pc # "none"
        /\ [caller[i] EXCEPT !.pc = "unsent"].proc = caller[i].proc
    BY <1>2 DEF Callers
  <2> QED BY <1>1, <1>3, <2>1, <2>2, MovesInv
<1>7. ASSUME NEW q \in Models, NEW u \in Usages, Sending(r, q, u)
      PROVE  RInv'
  <2> DEFINE k == [caller[i] EXCEPT !.pc = "calling", !.actual = q]
  <2>1. caller' = [caller EXCEPT ![i] = k]
    BY <1>7 DEF Sending, Send
  <2>2. k.pc # "none" /\ k.proc = caller[i].proc
    BY <1>2 DEF Callers
  <2>3. req' = [req EXCEPT ![r] = [req[r] EXCEPT !.pc = "call"]]
    BY <1>4, <1>7 DEF Sending
  <2> HIDE DEF k
  <2> QED BY <1>1, <1>3, <2>1, <2>2, <2>3, MovesInv
<1> QED BY <1>5, <1>6, <1>7

LEMMA ReleasingInv ==
  ASSUME RInv, [Next]_vars, NEW r \in Requests, Releasing(r) PROVE RInv'
<1> DEFINE i == req[r].attempt
<1>1. /\ req[r] \in Request /\ Active(req[r]) /\ i \in Ids
      /\ caller[i].pc = "unsent" /\ caller' = [caller EXCEPT ![i] = Resting]
  BY DEF RInv, Releasing, Active, Fine, Inside, Unsent, Leave
<1>2. req[r].heard = {} /\ req[r].answered = {} /\ req[r].out = "none"
  BY <1>1 DEF RInv, Fine, Inside, Voice, Active
<1>3. PICK causes : req' = [req EXCEPT ![r] = Failed(req[r], causes)]
  BY DEF Releasing, Becomes
<1>4. Fine(r)' /\ ~Active(req'[r]) /\ req' \in [Requests -> Request]
  BY <1>1, <1>2, <1>3, FailedFine
<1>5. \A s \in Requests \ {r} : req'[s] = req[s]
  BY <1>3 DEF RInv
<1> QED BY <1>1, <1>4, <1>5, OtherCallers, OneRequest

\* reserve: a new attempt, which is nobody's.
LEMMA AttemptingInv ==
  ASSUME RInv, [Next]_vars, NEW r \in Requests, NEW i \in Ids, NEW n \in Outputs,
         Attempting(r, i, n)
  PROVE  RInv'
<1> DEFINE x == [req[r] EXCEPT !.attempt = i]
           y == [x EXCEPT !.pc = "call"]
<1>1. /\ req[r] \in Request /\ req[r].heard = {} /\ req[r].answered = {}
      /\ req[r].out = "none" /\ req[r].proc \in Procs
  BY DEF RInv, Attempting, Running, Fine, Voice, Request
<1>2. /\ x \in Request /\ x.attempt = i /\ x.heard = {} /\ x.answered = {} /\ x.out = "none"
      /\ y \in Request /\ y.attempt = i /\ y.heard = {} /\ y.answered = {} /\ y.out = "none"
      /\ y.pc = "call" /\ y.proc = req[r].proc
  BY <1>1 DEF Request
<1>3. attempts[i].state = "absent"
  BY DEF Attempting, Reserve
<1>4. caller[i].pc = "none" /\ caller \in [Ids -> Callers]
  BY <1>3, Members DEF RInv, Coherent, Callers, IInv, TypeOK
<1>5. \/ caller' = [caller EXCEPT ![i] = [Resting EXCEPT !.pc = "claim", !.proc = req[r].proc]]
      \/ caller' = caller
  BY DEF Attempting, Reserve
<1>6. \A s \in Requests \ {r} :
        Active(req[s]) => caller'[req[s].attempt] = caller[req[s].attempt]
  BY <1>4, <1>5 DEF RInv, Fine, Inside
<1>7. CASE caller'[i].pc # "none"
  <2>1. caller'[i].proc = req[r].proc
    BY <1>4, <1>5, <1>7 DEF Resting
  <2>2. req' = [req EXCEPT ![r] = y]
    BY <1>7 DEF Attempting, Leased, Becomes
  <2> HIDE DEF x, y
  <2>3. /\ req'[r] = y /\ req' \in [Requests -> Request]
        /\ \A s \in Requests \ {r} : req'[s] = req[s]
    BY <1>2, <2>2 DEF RInv
  <2>4. Fine(r)'
    BY <1>2, <1>7, <2>1, <2>3 DEF Fine, Inside, Voice
  <2> QED BY <1>2, <1>4, <1>6, <2>3, <2>4, OneRequest
<1>8. CASE caller'[i].pc = "none"
  <2>1. PICK causes : req' = [req EXCEPT ![r] = Failed(x, causes)]
    BY <1>8 DEF Attempting, Leased, Becomes
  <2> HIDE DEF x
  <2>2. Fine(r)' /\ ~Active(req'[r]) /\ req' \in [Requests -> Request]
    BY <1>2, <2>1, FailedFine
  <2>3. \A s \in Requests \ {r} : req'[s] = req[s]
    BY <2>1 DEF RInv
  <2> QED BY <1>6, <2>2, <2>3, OneRequest
<1> QED BY <1>7, <1>8

\* The end of a call: an answer that is booked, or a failure.
LEMMA AnsweringInv ==
  ASSUME RInv, [Next]_vars, NEW r \in Requests,
         NEW report \in {"complete", "incomplete", "invalid"}, Answering(r, report)
  PROVE  RInv'
<1> DEFINE i == req[r].attempt
           whole == [req[r] EXCEPT !.answered = @ \cup {i}]
           y == Returns(whole, "answer")
<1>1. /\ req[r] \in Request /\ req[r].pc = "call" /\ Active(req[r]) /\ i \in Ids
      /\ req[r].heard \subseteq {i} /\ req[r].answered = {} /\ req[r].out = "none"
  BY DEF RInv, Answering, Active, Fine, Inside, Voice
<1>2. /\ whole \in Request /\ whole.attempt = i /\ whole.heard = req[r].heard
      /\ whole.answered = {i} /\ whole.out = "none"
      /\ y \in Request /\ y.pc = "done" /\ y.attempt = i /\ y.heard = req[r].heard
      /\ y.answered = {i} /\ y.out = "answer"
  BY <1>1 DEF Request, Returns
<1>3. caller' = [caller EXCEPT ![i] = Resting] /\ Settle(i, report)
  BY DEF Answering, Settle, Leave
<1>4. PICK lost \in BOOLEAN :
        /\ attempts'[i] = attempts[i] => lost
        /\ LET booked == Booked(lost, attempts'[i].flagged) IN
           \/ Becomes(r, IF booked = {} THEN Returns(whole, "answer") ELSE Failed(whole, booked))
           \/ \E cause \in {"transient", "permanent"} :
                Becomes(r, Failed(req[r], Shielded(req[r], {cause} \cup booked)))
  BY BudgetConstants DEF Answering
<1> DEFINE booked == Booked(lost, attempts'[i].flagged)
<1>5. /\ booked = {} \/ booked = {"budget"}
      /\ booked = {} => ~lost /\ ~attempts'[i].flagged
  BY DEF Booked
<1>6. /\ \A s \in Requests \ {r} :
            Active(req[s]) => caller'[req[s].attempt] = caller[req[s].attempt]
  BY <1>1, <1>3, OtherCallers
<1>7. CASE booked = {} /\ req' = [req EXCEPT ![r] = y]
  <2>1. Recorded(i)'
    <3>1. attempts'[i] # attempts[i] /\ ~attempts'[i].flagged
      BY <1>4, <1>5, <1>7
    <3>2. attempts[i] \in Attempt /\ attempts \in [Ids -> Attempt]
      BY <1>1 DEF RInv, IInv, TypeOK
    <3>3. PICK actual : attempts'[i] = Settled(attempts[i], report, actual, sent[i].bill)
      BY <1>1, <1>3, <3>1, <3>2 DEF Settle, Write
    <3>4. attempts'[i].state \in {"settled", "unknown"}
      BY <3>2, <3>3 DEF Settled, Attempt
    <3>5. req'[r].attempt = i
      BY <1>2, <1>7 DEF RInv
    <3> QED BY <3>1, <3>4, <3>5 DEF Recorded
  <2> HIDE DEF y
  <2>2. /\ req'[r] = y /\ req' \in [Requests -> Request]
        /\ \A s \in Requests \ {r} : req'[s] = req[s]
    BY <1>2, <1>7 DEF RInv
  <2>3. Fine(r)'
    BY <1>1, <1>2, <2>1, <2>2 DEF Fine, Inside, Active, Voice, Recorded
  <2> QED BY <1>2, <1>6, <2>2, <2>3, OneRequest DEF Active
<1>8. CASE booked # {} /\ req' = [req EXCEPT ![r] = Failed(whole, booked)]
  <2>1. ~Retryable(booked)
    BY <1>5, <1>8 DEF Retryable
  <2> HIDE DEF whole, booked
  <2>2. Fine(r)' /\ ~Active(req'[r]) /\ req' \in [Requests -> Request]
    BY <1>1, <1>2, <1>8, <2>1, FailedFine
  <2>3. \A s \in Requests \ {r} : req'[s] = req[s]
    BY <1>8 DEF RInv
  <2> QED BY <1>6, <2>2, <2>3, OneRequest
<1>9. ASSUME NEW cause \in {"transient", "permanent"},
             req' = [req EXCEPT ![r] = Failed(req[r], Shielded(req[r], {cause} \cup booked))]
      PROVE  RInv'
  <2> DEFINE causes == Shielded(req[r], {cause} \cup booked)
  <2>1. Retryable(causes) => req[r].heard = {}
    BY <1>1 DEF Retryable, Shielded
  <2> HIDE DEF causes
  <2>2. req' = [req EXCEPT ![r] = Failed(req[r], causes)]
    BY <1>9 DEF causes
  <2>3. Fine(r)' /\ ~Active(req'[r]) /\ req' \in [Requests -> Request]
    BY <1>1, <2>1, <2>2, FailedFine
  <2>4. \A s \in Requests \ {r} : req'[s] = req[s]
    BY <2>2 DEF RInv
  <2> QED BY <1>6, <2>3, <2>4, OneRequest
<1> QED BY <1>4, <1>7, <1>8, <1>9 DEF Becomes

\* The process dies with the callers of its requests.
LEMMA DiesInv ==
  ASSUME RInv, [Next]_vars, NEW p \in Procs, Dies(p) PROVE RInv'
<1> DEFINE y(s) == Returns(req[s], "none")
<1>1. \A s \in Requests : req[s] \in Request /\ Fine(s)
  BY DEF RInv
<1>2. \A s \in Requests :
        /\ y(s) \in Request /\ y(s).pc = "done" /\ y(s).out = "none"
        /\ y(s).attempt = req[s].attempt
        /\ y(s).heard = req[s].heard /\ y(s).answered = req[s].answered
  BY <1>1 DEF Request, Returns
<1>3. \A s \in Requests : \/ req'[s] = y(s)
                          \/ req'[s] = req[s] /\ (Active(req[s]) => req[s].proc # p)
  BY DEF Dies, Active, NewRequest
<1>4. req' = [s \in Requests |-> req'[s]] /\ \A s \in Requests : req'[s] \in Request
  BY <1>1, <1>2 DEF Dies
<1> HIDE DEF y
<1>5. ASSUME NEW s \in Requests PROVE Fine(s)'
  <2>1. CASE req'[s] = y(s)
    BY <1>1, <1>2, <2>1 DEF Fine, Inside, Active, Voice
  <2>2. CASE req'[s] = req[s] /\ (Active(req[s]) => req[s].proc # p)
    <3>1. Active(req[s]) => caller'[req[s].attempt] = caller[req[s].attempt]
      BY <1>1, <2>2 DEF Fine, Inside, Dies, Crash
    <3> QED BY <2>2, <3>1, Bystander
  <2> QED BY <1>3, <2>1, <2>2
<1>6. \A s, t \in Requests : Apart(s, t)'
  <2>1. \A s \in Requests : Active(req'[s]) => req'[s] = req[s]
    BY <1>2, <1>3 DEF Active
  <2> QED BY <2>1 DEF RInv, Apart
<1>7. IInv'
  BY StepKeeps DEF RInv, IInv, Keeps
<1> QED BY <1>4, <1>5, <1>6, <1>7 DEF RInv

\* Steps of the account that no request takes.
LEMMA AccountInv ==
  ASSUME RInv, [Next]_vars, UNCHANGED <<caller, req>>
  PROVE  RInv'
<1>1. \A s \in Requests : Fine(s)'
  BY Bystander
<1>2. IInv'
  BY StepKeeps DEF RInv, IInv, Keeps
<1> QED BY <1>1, <1>2 DEF RInv, Apart

LEMMA RInitInv == RInit => RInv
<1> SUFFICES ASSUME RInit PROVE RInv
  OBVIOUS
<1>1. IInv
  BY InitInv DEF RInit
<1>2. 0 \in 0 .. (Tries - 1)
  <2>1. Len(Clients) \in Nat /\ Len(Clients) > 0 /\ Retries + 1 \in Nat /\ Retries + 1 > 0
    BY ResilientConstants, LenProperties, EmptySeq
  <2>2. Len(Clients) * (Retries + 1) \in Nat /\ Len(Clients) * (Retries + 1) >= 1
    BY <2>1
  <2> QED BY <2>2 DEF Tries
<1>3. PICK host \in [Requests -> Procs] : req = [r \in Requests |-> NewRequest(host[r])]
  BY DEF RInit
<1>4. \A r \in Requests : req[r] \in Request /\ req[r].pc = "try" /\ req[r].heard = {}
                          /\ req[r].answered = {} /\ req[r].out = "none"
  BY <1>2, <1>3 DEF NewRequest, Request
<1>5. req \in [Requests -> Request]
  BY <1>3, <1>4
<1> QED BY <1>1, <1>4, <1>5 DEF RInv, Fine, Inside, Active, Voice, Apart

LEMMA RStepInv == RInv /\ [RNext]_allVars => RInv'
<1> SUFFICES ASSUME RInv, [RNext]_allVars PROVE RInv'
  OBVIOUS
<1>1. CASE UNCHANGED allVars
  BY <1>1, AccountInv DEF allVars, vars
<1>2. CASE RNext
  <2>1. [Next]_vars
    BY <1>2, StepRefines
  <2>2. ASSUME NEW r \in Requests, Requesting(r) PROVE RInv'
    BY <2>1, <2>2, StopInv, TurnedInv, HearInv, ClaimingInv, ReleasingInv, AttemptingInv,
       AnsweringInv DEF Requesting
  <2>3. ASSUME NEW p \in Procs, Hosting(p) PROVE RInv'
    BY <2>1, <2>3, AccountInv DEF Hosting, Open, Opened, RecoverOne
  <2>4. ASSUME NEW p \in Procs, Dies(p) PROVE RInv'
    BY <2>1, <2>4, DiesInv
  <2>5. CASE Operating
    BY <2>1, <2>5, AccountInv DEF Operating, Reconcile
  <2> QED BY <1>2, <2>2, <2>3, <2>4, <2>5 DEF RNext
<1> QED BY <1>1, <1>2

-----------------------------------------------------------------------------
(* The requests: the theorems                                              *)

\* The invariant holds of every behaviour of requests and account.
THEOREM RequestsInvariant == RSpec => []RInv
  BY RInitInv, RStepInv, PTL DEF RSpec

\* Requests, their retries and fallbacks use the account as its specification
\* allows (Resilient.call over Budgeted.run), so what is proved of it holds.
THEOREM RequestsUseTheAccount == RSpec => Spec
<1>1. RInit => Init
  BY DEF RInit
<1>2. RInv /\ [RNext]_allVars => [Next]_vars
  BY StepRefines DEF allVars, vars
<1> QED BY <1>1, <1>2, RequestsInvariant, PTL DEF RSpec, Spec

\* A request speaks with the voice of its last attempt, and answers only when the
\* answer is booked (Resilient.Stream, ChatStream and the errors of Budgeted.run).
THEOREM VoiceIsOne == RSpec => []OneVoice
<1>1. RInv => OneVoice
  BY DEF RInv, Fine, Voice, Recorded, OneVoice
<1> QED BY <1>1, RequestsInvariant, PTL

-----------------------------------------------------------------------------
(* A run of the evolver and the pointer to what it validated               *)

\* internal/maintenance, Evolver: another component that counts what it is about to
\* use on disk before it uses it.

\* Of EvolverConstants: the contract is valid, and no patch or run is called by a
\* name that marks a content.
Contract ==
  /\ This \notin Earlier
  /\ ValidContract
  /\ {"base", "spoiled", "none"} \cap (Patches \cup Earlier) = {}

\* The constants of the component are as it assumes.
LEMMA ContractHolds == Contract
BY EvolverConstants DEF Contract

Contents == Patches \cup Runs \cup {"base", "spoiled", "none"}

Stages == {"baseline", "train", "holdout"}

Judged == {"generation_failed", "rejected", "training", "train_accepted", "inconclusive"}

Entry == [status : Judged, digest : Patches \cup {"none"}, train : Seq(BOOLEAN)]

Record ==
  [status : {"none", "running", "failed", "validating", "validation_inconclusive",
             "rejected", "candidate_ready"},
   baseline : Seq(BOOLEAN), cands : Seq(Entry), selected : Nat,
   validation : Seq(BOOLEAN), runs : Nat]

Execution == [stage : Stages, cand : Nat, case : Nat, on : Contents, ok : BOOLEAN]

Kept ==
  /\ disk \in Record
  /\ ev \in [pc : {"idle", "meter", "verify", "propose", "train", "apply", "finish", "over"},
             rec : Record, stage : Stages, results : Seq(BOOLEAN), best : Nat,
             proposed : Patches \cup {"none"}]
  /\ tree \in Contents /\ patch \in Seq(Contents)
  /\ valid \in [Runs -> Contents]
  /\ ran \in Seq(Execution)

\* The executions of an evaluation in a history: of a stage, and of a candidate
\* where each has its own.
Of(h, s, c) == {i \in DOMAIN h : h[i].stage = s /\ (s = "train" => h[i].cand = c)}

\* They are the cases of `results`, once each, with these outcomes.
Shows(h, s, c, results) ==
  /\ \A i \in Of(h, s, c) : h[i].case \in DOMAIN results /\ h[i].ok = results[h[i].case]
  /\ \A i, j \in Of(h, s, c) : h[i].case = h[j].case => i = j
  /\ \A k \in DOMAIN results : \E i \in Of(h, s, c) : h[i].case = k

On(h, s, c, content) == \A i \in Of(h, s, c) : h[i].on = content

Live == ev.pc \notin {"finish", "over"}
Measuring == ev.pc \in {"meter", "verify"}

\* The evaluation under way: what was executed is in its results, and unless the
\* content under test is spoiled now, it was the same each time.
Underway ==
  Measuring =>
    /\ Shows(ran, ev.stage, Count, ev.results)
    /\ Tree = "spoiled" \/ On(ran, ev.stage, Count, Tree)
    /\ ev.stage = "train" =>
         /\ Count > 0 /\ Cands[Count].status = "training"
         /\ Allowed(Cands[Count].digest)

Based ==
  Live /\ (ev.stage # "baseline" \/ ev.pc \in {"propose", "train", "apply"}) =>
    /\ Len(ev.rec.baseline) = TrainCases
    /\ Shows(ran, "baseline", 0, ev.rec.baseline)
    /\ On(ran, "baseline", 0, "base")

\* What a candidate accepted in training showed.
Excels(c) ==
  /\ Allowed(Cands[c].digest)
  /\ Shows(ran, "train", c, Cands[c].train)
  /\ On(ran, "train", c, Cands[c].digest)
  /\ Improves(ev.rec.baseline, Cands[c].train)

Trained ==
  Live =>
    /\ \A c \in 1 .. Count : Cands[c].status = "train_accepted" => Excels(c)
    /\ \A i \in DOMAIN ran : ran[i].cand <= Count
    /\ ev.best \in 0 .. Count
    /\ ev.best # 0 => Cands[ev.best].status = "train_accepted"
    /\ Count <= Len(patch)
    /\ ev.pc = "train" => Count < Len(patch) /\ Allowed(ev.proposed)
    /\ ev.stage = "baseline" /\ ev.pc \in {"idle", "meter", "verify"} => Count = 0

\* Once the held-out cases are looked at, the choice stands, in both records.
Chosen ==
  /\ ev.stage = "holdout" => ev.rec.selected # 0 /\ disk.selected # 0
  /\ Live /\ (ev.stage = "holdout" \/ ev.pc = "apply") =>
       ev.best # 0 /\ ev.rec.selected = ev.best /\ disk.selected # 0
  /\ ev.stage = "holdout" => ev.pc \in {"meter", "verify", "finish", "over"}

InOrder ==
  \A i \in DOMAIN ran : ran[i].stage = "holdout" =>
    /\ ev.stage = "holdout"
    /\ \A j \in DOMAIN ran : j > i => ran[j].stage = "holdout" /\ ran[j].case > ran[i].case

Metered ==
  /\ Len(ran) <= disk.runs /\ disk.runs <= MaxVerifierRuns
  /\ Len(ran) <= ev.rec.runs /\ ev.rec.runs <= MaxVerifierRuns
  /\ ev.pc = "verify" => Len(ran) < disk.runs /\ Len(ran) < ev.rec.runs
  /\ ev.pc = "idle" => /\ ran = <<>> /\ ev.rec = NoRecord
                       /\ ev.stage = "baseline" /\ ev.results = <<>> /\ ev.best = 0

Proven ==
  /\ ev.rec.status = "candidate_ready" =>
       ~Live /\ Tested(ev.rec.selected, ev.rec.cands[ev.rec.selected].digest)
  /\ disk.status = "candidate_ready" => ev.pc = "over" /\ disk = ev.rec

Pointed ==
  /\ \A r \in Earlier : valid[r] \in {r, "spoiled"}
  /\ look \in Runs \cup {"none"}
  /\ ptr \in [version : Nat, active : Runs \cup {"none"}, history : Seq(Runs)]
  /\ op = NoOp \/ op \in [kind : {"activate", "rollback"}, run : Runs \cup {"none"},
                              expected : Nat]

Given ==
  \/ launched \in Earlier \cup {"none", "base"}
  \/ disk.status = "candidate_ready" /\ launched = disk.cands[disk.selected].digest

EvoInv == /\ Kept /\ Underway /\ Based /\ Trained /\ Chosen /\ InOrder /\ Metered
          /\ Proven /\ Pointed /\ Given

\* An execution is one more, and the last; those of other evaluations stay, and
\* so does what they showed.
LEMMA EvExecuted ==
  ASSUME NEW h \in Seq(Execution), NEW e \in Execution, NEW g, g = Append(h, e)
  PROVE  /\ g \in Seq(Execution) /\ Len(g) = Len(h) + 1 /\ Len(h) \in Nat
         /\ DOMAIN h = 1 .. Len(h) /\ DOMAIN g = 1 .. Len(h) + 1
         /\ \A i \in DOMAIN h : g[i] = h[i]
         /\ g[Len(h) + 1] = e
         /\ \A s, c : Of(g, s, c) = IF e.stage = s /\ (s = "train" => e.cand = c)
                                    THEN Of(h, s, c) \cup {Len(h) + 1} ELSE Of(h, s, c)
<1>1. /\ g \in Seq(Execution) /\ Len(g) = Len(h) + 1 /\ Len(h) \in Nat
      /\ DOMAIN h = 1 .. Len(h) /\ DOMAIN g = 1 .. Len(h) + 1
      /\ \A i \in DOMAIN h : g[i] = h[i]
      /\ g[Len(h) + 1] = e
  OBVIOUS
<1>2. ASSUME NEW s, NEW c
      PROVE  Of(g, s, c) = IF e.stage = s /\ (s = "train" => e.cand = c)
                           THEN Of(h, s, c) \cup {Len(h) + 1} ELSE Of(h, s, c)
  BY <1>1 DEF Of
<1> QED BY <1>1, <1>2

\* What the other evaluations show stays.
LEMMA EvOthers ==
  ASSUME NEW h \in Seq(Execution), NEW e \in Execution, NEW g, g = Append(h, e),
         NEW s, NEW c, ~(e.stage = s /\ (s = "train" => e.cand = c))
  PROVE  /\ \A results : Shows(h, s, c, results) => Shows(g, s, c, results)
         /\ \A content : On(h, s, c, content) => On(g, s, c, content)
<1>0. /\ \A i \in DOMAIN h : g[i] = h[i]
      /\ DOMAIN h = 1 .. Len(h) /\ DOMAIN g = 1 .. Len(h) + 1 /\ g[Len(h) + 1] = e
      /\ Len(h) \in Nat
  BY EvExecuted
<1>1. Of(g, s, c) = Of(h, s, c)
  BY <1>0 DEF Of
<1>2. \A i \in Of(h, s, c) : g[i] = h[i]
  BY <1>0 DEF Of
<1>3. ASSUME NEW results, Shows(h, s, c, results) PROVE Shows(g, s, c, results)
  BY <1>1, <1>2, <1>3, Zenon DEF Shows
<1>4. \A content : On(h, s, c, content) => On(g, s, c, content)
  BY <1>1, <1>2 DEF On
<1> QED BY <1>3, <1>4

\* The evaluation executed shows one result more.
LEMMA EvShowsMore ==
  ASSUME NEW h \in Seq(Execution), NEW e \in Execution, NEW g, g = Append(h, e),
         NEW results \in Seq(BOOLEAN), NEW s, NEW c,
         e.stage = s, s = "train" => e.cand = c,
         e.case = Len(results) + 1, Shows(h, s, c, results)
  PROVE  /\ Shows(g, s, c, Append(results, e.ok))
         /\ \A content : On(h, s, c, content) /\ e.on = content => On(g, s, c, content)
<1> DEFINE E == Of(h, s, c)
           n == Len(h) + 1
           more == Append(results, e.ok)
<1>0. /\ \A i \in DOMAIN h : g[i] = h[i]
      /\ DOMAIN h = 1 .. Len(h) /\ DOMAIN g = 1 .. Len(h) + 1 /\ g[Len(h) + 1] = e
      /\ Len(h) \in Nat
  BY EvExecuted
<1>1. Of(g, s, c) = E \cup {n} /\ g[n] = e /\ n \notin E
  BY <1>0 DEF Of
<1>2. \A i \in E : g[i] = h[i]
  BY <1>0 DEF Of
<1>3. /\ Len(results) \in Nat /\ DOMAIN results = 1 .. Len(results)
      /\ DOMAIN more = 1 .. Len(results) + 1
      /\ \A k \in DOMAIN results : more[k] = results[k]
      /\ more[Len(results) + 1] = e.ok
  BY DEF Execution
<1> HIDE DEF more
<1>4. \A i \in E : h[i].case \in 1 .. Len(results) /\ h[i].ok = more[h[i].case]
  BY <1>3 DEF Shows
<1> HIDE DEF E, n
<1> DEFINE F == Of(g, s, c)
<1>10. F = E \cup {n} /\ g[n] = e /\ n \notin E
  BY <1>1
<1> HIDE DEF F
<1>5. \A i \in F : g[i].case \in DOMAIN more /\ g[i].ok = more[g[i].case]
  <2>1. ASSUME NEW i \in E
        PROVE  g[i].case \in DOMAIN more /\ g[i].ok = more[g[i].case]
    <3>1. g[i] = h[i] /\ h[i].case \in 1 .. Len(results) /\ h[i].ok = more[h[i].case]
      BY <1>2, <1>4
    <3>2. 1 .. Len(results) \subseteq DOMAIN more
      BY <1>3
    <3> QED BY <3>1, <3>2
  <2>2. g[n].case \in DOMAIN more /\ g[n].ok = more[g[n].case]
    <3>1. e.case \in DOMAIN more
      BY <1>3
    <3>2. g[n] = e /\ e.case = Len(results) + 1 /\ e.ok = more[Len(results) + 1]
      BY <1>3, <1>10
    <3> QED BY <3>1, <3>2
  <2> QED BY <1>10, <2>1, <2>2
<1>6. \A i, j \in F : g[i].case = g[j].case => i = j
  <2>1. \A i, j \in E : g[i].case = g[j].case => i = j
    BY <1>2 DEF Shows, E
  <2>2. ASSUME NEW i \in E PROVE g[i].case # g[n].case
    <3>1. h[i].case \in 1 .. Len(results)
      BY <1>4
    <3>2. g[i] = h[i] /\ g[n].case = Len(results) + 1
      BY <1>2, <1>10
    <3>3. h[i].case # Len(results) + 1
      BY <3>1, <1>3
    <3> QED BY <3>2, <3>3
  <2> QED BY <1>10, <2>1, <2>2
<1>7. \A k \in DOMAIN more : \E i \in F : g[i].case = k
  <2>1. \A k \in DOMAIN results : \E i \in E : g[i].case = k
    <3>1. \A k \in DOMAIN results : \E i \in E : h[i].case = k
      BY Zenon DEF Shows, E
    <3> QED BY <1>2, <3>1, Zenon
  <2>2. ASSUME NEW k \in DOMAIN more PROVE \E i \in F : g[i].case = k
    <3>1. k \in DOMAIN results \/ k = Len(results) + 1
      BY <1>3
    <3>2. g[n].case = Len(results) + 1 /\ n \in F /\ E \subseteq F
      BY <1>10
    <3> QED BY <2>1, <3>1, <3>2, Zenon
  <2> QED BY <2>2
<1>8. Shows(g, s, c, more)
  BY <1>5, <1>6, <1>7 DEF Shows, F
<1>9. \A content : On(h, s, c, content) /\ e.on = content => On(g, s, c, content)
  BY <1>1, <1>2 DEF On, E
<1> QED BY <1>8, <1>9 DEF more

\* Somebody may spoil what earlier runs left; the pointer stays.
LEMMA EvPointedKept ==
  ASSUME Pointed, UNCHANGED <<ptr, op, look>>,
         \A r \in Earlier : valid'[r] \in {valid[r], "spoiled"}
  PROVE  Pointed'
BY DEF Pointed, Runs, NoOp

\* A record that says candidate_ready is not written over.
LEMMA EvGivenKept ==
  ASSUME Proven, Given, launched' = launched, disk' = disk \/ ev.pc # "over"
  PROVE  Given'
BY DEF Given, Proven

\* What a return of Run keeps (Ends): the executions are counted, the choice
\* stands, and nothing more has to be known of the candidates.
LEMMA EvEnds ==
  ASSUME EvoInv, NEW rec \in Record,
         ev.pc \notin {"idle", "finish", "over"},
         ev' = [ev EXCEPT !.pc = "finish", !.rec = rec],
         rec.status = "candidate_ready" =>
           Tested(rec.selected, rec.cands[rec.selected].digest)',
         disk' = disk \/ /\ disk' \in Record /\ disk'.status # "candidate_ready"
                         /\ disk'.runs = rec.runs /\ disk'.selected = rec.selected,
         ran' \in Seq(Execution), InOrder',
         Len(ran') <= ev.rec.runs, Len(ran') <= disk.runs,
         rec.runs \in Nat, ev.rec.runs <= rec.runs, rec.runs <= MaxVerifierRuns,
         ev.stage = "holdout" => rec.selected # 0,
         tree' \in Contents, patch' \in Seq(Contents), valid' = valid,
         UNCHANGED <<ptr, op, look, launched>>, Contract
  PROVE  EvoInv'
<1> USE DEF EvoInv
<1>1. /\ ev'.pc = "finish" /\ ev'.rec = rec /\ ev'.stage = ev.stage
      /\ ev' \in [pc : {"idle", "meter", "verify", "propose", "train", "apply", "finish", "over"},
                  rec : Record, stage : Stages, results : Seq(BOOLEAN), best : Nat,
                  proposed : Patches \cup {"none"}]
  BY DEF Kept
<1>2. disk.status # "candidate_ready"
  BY DEF Proven
<1>3. Kept'
  BY <1>1 DEF Kept
<1>4. Underway' /\ Based' /\ Trained'
  BY <1>1 DEF Underway, Based, Trained, Live, Measuring
<1>5. Chosen'
  BY <1>1 DEF Chosen, Live
<1>6. Metered'
  <2>1. disk.runs \in Nat /\ ev.rec.runs \in Nat /\ Len(ran') \in Nat /\ MaxVerifierRuns \in Int
        /\ disk.runs <= MaxVerifierRuns
    <3>1. disk.runs \in Nat /\ ev.rec.runs \in Nat
      BY DEF Kept, Record
    <3>2. MaxVerifierRuns \in Int
      BY DEF Contract, ValidContract
    <3>3. Len(ran') \in Nat
      OBVIOUS
    <3> QED BY <3>1, <3>2, <3>3 DEF Metered
  <2>2. disk'.runs = disk.runs \/ disk'.runs = rec.runs
    OBVIOUS
  <2> QED BY <1>1, <2>1, <2>2 DEF Metered
<1>7. Proven'
  BY <1>1, <1>2 DEF Proven, Live
<1>8. Pointed'
  BY EvPointedKept
<1>9. Given'
  BY EvGivenKept
<1> QED BY <1>3, <1>4, <1>5, <1>6, <1>7, <1>8, <1>9

\* The results and the judgement of a candidate, one field after the other.
LEMMA EvEntry ==
  ASSUME NEW r \in Entry, NEW status, NEW results
  PROVE  [[r EXCEPT !.train = results] EXCEPT !.status = status]
           = [status |-> status, digest |-> r.digest, train |-> results]
<1> DEFINE a == [r EXCEPT !.train = results]
           b == [a EXCEPT !.status = status]
           e == [status |-> status, digest |-> r.digest, train |-> results]
<1>1. /\ a = [k \in {"status", "digest", "train"} |-> a[k]]
      /\ a.status = r.status /\ a.digest = r.digest /\ a.train = results
  BY DEF Entry
<1> HIDE DEF a
<1>2. /\ b = [k \in {"status", "digest", "train"} |-> b[k]]
      /\ b.status = status /\ b.digest = r.digest /\ b.train = results
  BY <1>1
<1>3. /\ e = [k \in {"status", "digest", "train"} |-> e[k]]
      /\ e.status = status /\ e.digest = r.digest /\ e.train = results
  OBVIOUS
<1> HIDE DEF b, e
<1>4. b = e
  BY <1>2, <1>3
<1> QED BY <1>4 DEF a, b, e

\* What Run's record becomes with the results of an evaluation: rec from base.
Filled(rec, base, results, status) ==
  /\ rec \in Record
  /\ rec.status = base.status /\ rec.runs = base.runs
  /\ rec.selected = base.selected
  /\ rec.baseline = IF ev.stage = "baseline" THEN results ELSE base.baseline
  /\ Len(rec.cands) = Count
  /\ \A c \in 1 .. Count :
       ev.stage # "train" \/ c # Count => rec.cands[c] = Cands[c]
  /\ ev.stage = "train" =>
       /\ rec.cands[Count].status = status
       /\ rec.cands[Count].digest = Cands[Count].digest
       /\ rec.cands[Count].train = results
  /\ rec.validation = IF ev.stage = "holdout" THEN results ELSE base.validation

LEMMA EvFilled ==
  ASSUME EvoInv, NEW base \in Record, base.cands = ev.rec.cands,
         NEW results \in Seq(BOOLEAN), NEW status,
         ev.stage = "train" => status \in Judged /\ Measuring
  PROVE  Filled(WithResults(base, results, status), base, results, status)
<1> PICK rec : rec = WithResults(base, results, status)
  OBVIOUS
<1> SUFFICES Filled(rec, base, results, status)
  OBVIOUS
<1> USE DEF Filled
<1>1. base \in Record /\ base.cands = Cands /\ ev.stage \in Stages
  BY DEF Cands, EvoInv, Kept
<1>2. CASE ev.stage = "baseline"
  <2>1. rec = [base EXCEPT !.baseline = results]
    BY <1>2 DEF WithResults
  <2>2. rec \in Record
    BY <1>1, <2>1 DEF Record
  <2> QED BY <1>1, <1>2, <2>1, <2>2 DEF Record, Count, Cands
<1>3. CASE ev.stage = "holdout"
  <2>1. rec = [base EXCEPT !.validation = results]
    BY <1>3 DEF WithResults
  <2>2. rec \in Record
    BY <1>1, <2>1 DEF Record
  <2> QED BY <1>1, <1>3, <2>1, <2>2 DEF Record, Count, Cands
<1>4. CASE ev.stage = "train"
  <2> DEFINE n == Count
             old == base.cands
             new == [old EXCEPT ![n] = [status |-> status, digest |-> old[n].digest,
                                        train |-> results]]
  <2>1. n > 0 /\ n = Len(old) /\ old \in Seq(Entry) /\ n \in Nat
    BY <1>1, <1>4 DEF EvoInv, Underway, Count, Cands, Record
  <2>2. old[n] \in Entry
    BY <2>1
  <2>3. [[old[n] EXCEPT !.train = results] EXCEPT !.status = status]
          = [status |-> status, digest |-> old[n].digest, train |-> results]
    BY <2>2, EvEntry
  <2>4. rec = [base EXCEPT !.cands = new]
    <3>1. rec = [base EXCEPT !.cands[n].train = results, !.cands[n].status = status]
      BY <1>4 DEF WithResults
    <3> DEFINE one == [base EXCEPT !.cands = [old EXCEPT ![n] = [old[n] EXCEPT !.train = results]]]
    <3>2. rec = [one EXCEPT !.cands = [one.cands EXCEPT ![n] = [one.cands[n] EXCEPT !.status = status]]]
      BY <3>1
    <3>3. one.cands = [old EXCEPT ![n] = [old[n] EXCEPT !.train = results]]
      BY <1>1 DEF Record
    <3>4. one.cands[n] = [old[n] EXCEPT !.train = results]
      BY <2>1, <3>3
    <3>5. [one.cands EXCEPT ![n] = [one.cands[n] EXCEPT !.status = status]] = new
      <4> DEFINE e == [status |-> status, digest |-> old[n].digest, train |-> results]
      <4>1. [one.cands[n] EXCEPT !.status = status] = e
        BY <2>3, <3>4, Zenon
      <4>2. new = [old EXCEPT ![n] = e]
        OBVIOUS
      <4> HIDE DEF e, new, one
      <4>3. [one.cands EXCEPT ![n] = e] = [old EXCEPT ![n] = e]
        BY <3>3, <2>1
      <4> QED BY <4>1, <4>2, <4>3
    <3> HIDE DEF new
    <3>6. rec = [one EXCEPT !.cands = new]
      BY <3>2, <3>5
    <3> QED BY <1>1, <3>6 DEF Record
  <2>5. [status |-> status, digest |-> old[n].digest, train |-> results] \in Entry
    BY <1>4, <2>2 DEF Entry
  <2>6. /\ new \in Seq(Entry) /\ Len(new) = n
        /\ \A c \in 1 .. n : c # n => new[c] = old[c]
        /\ new[n] = [status |-> status, digest |-> old[n].digest, train |-> results]
    BY <2>1, <2>5
  <2> HIDE DEF new
  <2>7. rec \in Record
    BY <1>1, <2>4, <2>6 DEF Record
  <2>8. rec.cands = new /\ rec.status = base.status /\ rec.runs = base.runs
        /\ rec.selected = base.selected /\ rec.baseline = base.baseline
        /\ rec.validation = base.validation
    BY <1>1, <2>4 DEF Record
  <2> QED BY <1>4, <2>6, <2>7, <2>8 DEF Count, Cands
<1> QED BY <1>1, <1>2, <1>3, <1>4 DEF Stages

LEMMA EvResults ==
  ASSUME EvoInv, NEW results \in Seq(BOOLEAN), NEW status,
         ev.stage = "train" => status \in Judged /\ Measuring,
         NEW rec, rec = WithResults(ev.rec, results, status)
  PROVE  /\ rec \in Record
         /\ rec.status = ev.rec.status /\ rec.runs = ev.rec.runs
         /\ rec.selected = ev.rec.selected
         /\ rec.baseline = IF ev.stage = "baseline" THEN results ELSE ev.rec.baseline
         /\ Len(rec.cands) = Count
         /\ \A c \in 1 .. Count :
              ev.stage # "train" \/ c # Count => rec.cands[c] = Cands[c]
         /\ ev.stage = "train" =>
              /\ rec.cands[Count].status = status
              /\ rec.cands[Count].digest = Cands[Count].digest
              /\ rec.cands[Count].train = results
         /\ rec.validation = IF ev.stage = "holdout" THEN results ELSE ev.rec.validation
<1>1. ev.rec \in Record
  BY DEF EvoInv, Kept
<1>2. Filled(WithResults(ev.rec, results, status), ev.rec, results, status)
  BY <1>1, EvFilled
<1> QED BY <1>2 DEF Filled

\* The same for an error: a running run has failed, another status stays.
LEMMA EvFails ==
  ASSUME EvoInv, NEW rec \in Record,
         ev.pc \notin {"idle", "finish", "over"}, Fails(rec),
         rec.status # "candidate_ready",
         disk' = disk \/ /\ disk' \in Record /\ disk'.status # "candidate_ready"
                         /\ disk'.runs = rec.runs /\ disk'.selected = rec.selected,
         ran' \in Seq(Execution), InOrder',
         Len(ran') <= ev.rec.runs, Len(ran') <= disk.runs,
         ev.rec.runs <= rec.runs, rec.runs <= MaxVerifierRuns,
         ev.stage = "holdout" => rec.selected # 0,
         tree' \in Contents, patch' \in Seq(Contents), valid' = valid,
         UNCHANGED <<ptr, op, look, launched>>, Contract
  PROVE  EvoInv'
<1> DEFINE failed == IF rec.status = "running" THEN [rec EXCEPT !.status = "failed"] ELSE rec
<1>1. ev' = [ev EXCEPT !.pc = "finish", !.rec = failed]
  BY DEF Fails, Ends
<1>2. /\ failed \in Record /\ failed.status # "candidate_ready"
      /\ failed.runs = rec.runs /\ failed.selected = rec.selected /\ rec.runs \in Nat
  BY DEF Record
<1> HIDE DEF failed
<1>3. disk' = disk \/ /\ disk' \in Record /\ disk'.status # "candidate_ready"
                      /\ disk'.runs = failed.runs /\ disk'.selected = failed.selected
  BY <1>2
<1> QED BY <1>1, <1>2, <1>3, EvEnds

\* At rest the history is in order still.
LEMMA EvSameOrder ==
  ASSUME EvoInv, ran' = ran, ev'.stage = ev.stage
  PROVE  /\ ran' \in Seq(Execution) /\ InOrder'
         /\ Len(ran') <= ev.rec.runs /\ Len(ran') <= disk.runs
BY DEF EvoInv, Kept, InOrder, Metered

\* What is executed next, and that it is the next in order.
LEMMA EvExecution ==
  ASSUME EvoInv, At("verify"), NEW ok \in BOOLEAN, Executed(ok), ev'.stage = ev.stage
  PROVE  \E e \in Execution :
           /\ ran' = Append(ran, e)
           /\ e.stage = ev.stage /\ e.cand = Count /\ e.case = Len(ev.results) + 1
           /\ e.on = Tree /\ e.ok = ok
           /\ ran' \in Seq(Execution) /\ InOrder'
           /\ Len(ran') <= ev.rec.runs /\ Len(ran') <= disk.runs
<1> DEFINE e == [stage |-> ev.stage, cand |-> Count, case |-> Len(ev.results) + 1,
                 on |-> Tree, ok |-> ok]
<1>1. /\ ran \in Seq(Execution) /\ ev.stage \in Stages /\ ev.results \in Seq(BOOLEAN)
      /\ ev.rec \in Record /\ tree \in Contents /\ valid \in [Runs -> Contents]
      /\ disk \in Record
  BY DEF EvoInv, Kept
<1>2. Tree \in Contents
  BY <1>1 DEF Tree, Runs
<1>3. Count \in Nat
  BY <1>1 DEF Count, Cands, Record
<1>4. e \in Execution
  BY <1>1, <1>2, <1>3 DEF Execution
<1>5. ran' = Append(ran, e)
  BY DEF Executed
<1>6. e.stage = ev.stage /\ e.cand = Count /\ e.case = Len(ev.results) + 1
      /\ e.on = Tree /\ e.ok = ok
  OBVIOUS
<1> HIDE DEF e
<1>7. /\ ran' \in Seq(Execution) /\ Len(ran') = Len(ran) + 1 /\ Len(ran) \in Nat
      /\ DOMAIN ran = 1 .. Len(ran) /\ DOMAIN ran' = 1 .. Len(ran) + 1
      /\ \A i \in DOMAIN ran : ran'[i] = ran[i]
      /\ ran'[Len(ran) + 1] = e
  BY <1>1, <1>4, <1>5
<1>8. InOrder'
  <2> SUFFICES ASSUME NEW i \in DOMAIN ran', ran'[i].stage = "holdout"
               PROVE  /\ ev'.stage = "holdout"
                      /\ \A j \in DOMAIN ran' : j > i =>
                           ran'[j].stage = "holdout" /\ ran'[j].case > ran'[i].case
    BY DEF InOrder
  <2>1. CASE i = Len(ran) + 1
    BY <1>6, <1>7, <2>1
  <2>2. CASE i \in DOMAIN ran
    <3>1. /\ ran'[i] = ran[i] /\ ev.stage = "holdout"
          /\ \A j \in DOMAIN ran : j > i => ran[j].stage = "holdout" /\ ran[j].case > ran[i].case
      BY <1>7, <2>2 DEF EvoInv, InOrder
    <3>2. Shows(ran, "holdout", Count, ev.results)
      BY <3>1 DEF EvoInv, Underway, Measuring, At
    <3>3. i \in Of(ran, "holdout", Count)
      BY <2>2, <3>1 DEF Of
    <3>4. ran[i].case \in 1 .. Len(ev.results)
      BY <1>1, <3>2, <3>3 DEF Shows
    <3>5. e.case > ran[i].case
      BY <1>1, <1>6, <3>4
    <3> QED BY <1>6, <1>7, <3>1, <3>5
  <2> QED BY <1>7, <2>1, <2>2
<1>9. Len(ran') <= ev.rec.runs /\ Len(ran') <= disk.runs
  <2>1. Len(ran) < disk.runs /\ Len(ran) < ev.rec.runs
    BY DEF EvoInv, Metered, At
  <2>2. disk.runs \in Nat /\ ev.rec.runs \in Nat
    BY <1>1 DEF Record
  <2> QED BY <1>7, <2>1, <2>2
<1> QED BY <1>4, <1>5, <1>6, <1>7, <1>8, <1>9

\* An evaluation that is not brought to its end concludes nothing.
LEMMA EvInconclusive ==
  ASSUME EvoInv, Contract, Measuring, NEW results \in Seq(BOOLEAN),
         NEW base \in Record, Inconclusive(base, results),
         base.cands = ev.rec.cands, base.status = ev.rec.status,
         base.selected = ev.rec.selected,
         ev.rec.runs <= base.runs, base.runs <= MaxVerifierRuns,
         disk' = disk \/ disk' = base,
         ran' \in Seq(Execution), InOrder',
         Len(ran') <= ev.rec.runs, Len(ran') <= disk.runs,
         UNCHANGED <<tree, patch, valid, ptr, op, look, launched>>
  PROVE  EvoInv'
<1> PICK status : status = "inconclusive"
  OBVIOUS
<1> PICK rec : rec = WithResults(base, results, status)
  OBVIOUS
<1> DEFINE last == IF ev.stage = "holdout"
                   THEN [rec EXCEPT !.status = "validation_inconclusive"] ELSE rec
<1>1. /\ rec \in Record /\ rec.status = ev.rec.status /\ rec.runs = base.runs
      /\ rec.selected = ev.rec.selected
  <2>1. status \in Judged
    BY DEF Judged
  <2>2. ev.stage = "train" => status \in Judged /\ Measuring
    BY <2>1
  <2>3. rec \in Record /\ rec.status = base.status /\ rec.runs = base.runs
        /\ rec.selected = base.selected
    <3>1. Filled(WithResults(base, results, status), base, results, status)
      BY <2>2, EvFilled
    <3> QED BY <3>1 DEF Filled
  <2> QED BY <2>3
<1>2. Fails(last)
  BY DEF Inconclusive
<1>3. ev.rec.status # "candidate_ready" /\ ev.rec \in Record /\ Live
  BY DEF EvoInv, Proven, Live, Measuring, Kept
<1>4. /\ last \in Record /\ last.status # "candidate_ready" /\ last.runs = base.runs
      /\ last.selected = ev.rec.selected
  BY <1>1, <1>3 DEF Record
<1> HIDE DEF last
<1>5. ev.pc \notin {"idle", "finish", "over"}
  BY DEF Measuring
<1>6. ev.rec.runs <= last.runs /\ last.runs <= MaxVerifierRuns
  BY <1>4
<1>7. ev.stage = "holdout" => last.selected # 0
  BY <1>4 DEF EvoInv, Chosen
<1>8. tree' \in Contents /\ patch' \in Seq(Contents)
  BY DEF EvoInv, Kept
<1>9. disk' = disk \/ /\ disk' \in Record /\ disk'.status # "candidate_ready"
                      /\ disk'.runs = last.runs /\ disk'.selected = last.selected
  BY <1>3, <1>4
<1> QED BY <1>2, <1>4, <1>5, <1>6, <1>7, <1>8, <1>9, EvFails

\* No verifier run is left, the time is over, or a verifier breaks.
LEMMA EvStopped ==
  ASSUME EvoInv, Contract, Stopped PROVE EvoInv'
<1>1. Measuring /\ ev.results \in Seq(BOOLEAN) /\ Inconclusive(ev.rec, ev.results)
  BY DEF Stopped, At, Measuring, EvoInv, Kept
<1>2. UNCHANGED <<disk, tree, patch, valid, ptr, op, look, launched>> /\ ran' = ran
  BY DEF Stopped, pointer
<1>3. ev'.stage = ev.stage
  BY <1>1 DEF Inconclusive, Fails, Ends, EvoInv, Kept
<1>4. /\ ran' \in Seq(Execution) /\ InOrder'
      /\ Len(ran') <= ev.rec.runs /\ Len(ran') <= disk.runs
  BY <1>2, <1>3, EvSameOrder
<1>5. /\ ev.rec \in Record /\ ev.rec.runs <= ev.rec.runs /\ ev.rec.runs <= MaxVerifierRuns
  BY DEF EvoInv, Kept, Metered, Record
<1> QED BY <1>1, <1>2, <1>4, <1>5, EvInconclusive

\* A verifier could not be run to its end.
LEMMA EvBroken ==
  ASSUME EvoInv, Contract, Broken PROVE EvoInv'
<1> DEFINE more == Append(ev.results, FALSE)
<1>1. Measuring /\ more \in Seq(BOOLEAN) /\ Inconclusive(ev.rec, more)
  <2>1. ev.results \in Seq(BOOLEAN)
    BY DEF EvoInv, Kept
  <2>2. more \in Seq(BOOLEAN)
    BY <2>1
  <2> QED BY <2>2 DEF Broken, At, Measuring
<1> HIDE DEF more
<1>2. /\ UNCHANGED <<disk, tree, patch, valid, ptr, op, look, launched>>
      /\ At("verify") /\ Executed(FALSE)
  BY DEF Broken, pointer
<1>3. ev'.stage = ev.stage
  BY <1>1 DEF Inconclusive, Fails, Ends, EvoInv, Kept
<1>4. /\ ran' \in Seq(Execution) /\ InOrder'
      /\ Len(ran') <= ev.rec.runs /\ Len(ran') <= disk.runs
  BY <1>2, <1>3, EvExecution
<1>5. /\ ev.rec \in Record /\ ev.rec.runs <= ev.rec.runs /\ ev.rec.runs <= MaxVerifierRuns
  BY DEF EvoInv, Kept, Metered, Record
<1> QED BY <1>1, <1>2, <1>4, <1>5, EvInconclusive

\* git, or the context of the run, fails.
LEMMA EvStumble ==
  ASSUME EvoInv, Contract, Stumble PROVE EvoInv'
<1>1. /\ UNCHANGED <<disk, tree, patch, valid, ptr, op, look, launched>> /\ ran' = ran
      /\ ev.pc \in {"propose", "train", "apply"} /\ Fails(ev.rec)
  BY DEF Stumble, pointer, At
<1>2. ev'.stage = ev.stage
  BY <1>1 DEF Fails, Ends, EvoInv, Kept
<1>3. /\ ran' \in Seq(Execution) /\ InOrder'
      /\ Len(ran') <= ev.rec.runs /\ Len(ran') <= disk.runs
  BY <1>1, <1>2, EvSameOrder
<1>4. /\ ev.rec \in Record /\ ev.rec.status # "candidate_ready"
      /\ tree' \in Contents /\ patch' \in Seq(Contents)
  BY <1>1 DEF EvoInv, Kept, Proven, Live
<1>5. ev.rec.runs <= ev.rec.runs /\ ev.rec.runs <= MaxVerifierRuns
  BY <1>4 DEF EvoInv, Metered, Record
<1>6. ev.stage = "holdout" => ev.rec.selected # 0
  BY DEF EvoInv, Chosen
<1> QED BY <1>1, <1>3, <1>4, <1>5, <1>6, EvFails

\* A verifier answers: the evaluation under way shows one result more, and what
\* the others showed stays.
LEMMA EvVerify ==
  ASSUME EvoInv, Contract, Verify PROVE EvoInv'
<1> USE DEF EvoInv
<1>1. PICK ok \in BOOLEAN : /\ Executed(ok)
                            /\ ev' = [ev EXCEPT !.pc = "meter", !.results = Append(@, ok)]
  BY DEF Verify
<1>2. /\ UNCHANGED <<disk, tree, patch, valid, ptr, op, look, launched>> /\ At("verify")
      /\ ev.pc = "verify"
  BY DEF Verify, pointer, At
<1>3. /\ ev'.pc = "meter" /\ ev'.rec = ev.rec /\ ev'.stage = ev.stage /\ ev'.best = ev.best
      /\ ev'.proposed = ev.proposed /\ ev'.results = Append(ev.results, ok)
      /\ ev.results \in Seq(BOOLEAN) /\ ev.stage \in Stages
      /\ ev' \in [pc : {"idle", "meter", "verify", "propose", "train", "apply", "finish", "over"},
                  rec : Record, stage : Stages, results : Seq(BOOLEAN), best : Nat,
                  proposed : Patches \cup {"none"}]
  <2>1. ev.results \in Seq(BOOLEAN)
    BY DEF Kept
  <2>2. Append(ev.results, ok) \in Seq(BOOLEAN)
    BY <2>1
  <2> DEFINE more == Append(ev.results, ok)
  <2>3. ev' = [ev EXCEPT !.pc = "meter", !.results = more] /\ more \in Seq(BOOLEAN)
    BY <1>1, <2>2
  <2> HIDE DEF more
  <2>4. /\ ev'.pc = "meter" /\ ev'.rec = ev.rec /\ ev'.stage = ev.stage /\ ev'.best = ev.best
        /\ ev'.proposed = ev.proposed /\ ev'.results = more /\ ev.stage \in Stages
        /\ ev' \in [pc : {"idle", "meter", "verify", "propose", "train", "apply", "finish", "over"},
                    rec : Record, stage : Stages, results : Seq(BOOLEAN), best : Nat,
                    proposed : Patches \cup {"none"}]
    BY <2>3 DEF Kept
  <2> QED BY <2>1, <2>4 DEF more
<1>4. PICK e \in Execution :
           /\ ran' = Append(ran, e)
           /\ e.stage = ev.stage /\ e.cand = Count /\ e.case = Len(ev.results) + 1
           /\ e.on = Tree /\ e.ok = ok
           /\ ran' \in Seq(Execution) /\ InOrder'
           /\ Len(ran') <= ev.rec.runs /\ Len(ran') <= disk.runs
  BY <1>1, <1>2, <1>3, EvExecution
<1>5. /\ Count' = Count /\ Cands' = Cands /\ Tree' = Tree
      /\ \A content : Allowed(content)' <=> Allowed(content)
  BY <1>2, <1>3 DEF Count, Cands, Tree, Allowed
<1>6. Kept'
  BY <1>2, <1>3, <1>4 DEF Kept
<1>7. Underway'
  <2>1. /\ Shows(ran, ev.stage, Count, ev.results)
        /\ Tree = "spoiled" \/ On(ran, ev.stage, Count, Tree)
        /\ ev.stage = "train" =>
             /\ Count > 0 /\ Cands[Count].status = "training"
             /\ Allowed(Cands[Count].digest)
    BY <1>2 DEF Underway, Measuring
  <2>2. /\ Shows(ran', ev.stage, Count, Append(ev.results, ok))
        /\ Tree = "spoiled" \/ On(ran', ev.stage, Count, Tree)
    BY <1>3, <1>4, <2>1, EvShowsMore DEF Kept
  <2> QED BY <1>3, <1>5, <2>1, <2>2 DEF Underway
<1>8. Based'
  BY <1>2, <1>3, <1>4, <1>5, EvOthers DEF Based, Live, Kept
<1>9. Trained'
  <2>1. ASSUME NEW c \in 1 .. Count, Cands[c].status = "train_accepted"
        PROVE  Excels(c)'
    <3>1. Excels(c)
      BY <1>2, <2>1 DEF Trained, Live
    <3>2. ev.stage = "train" => c # Count
      BY <1>2, <2>1 DEF Underway, Measuring
    <3>3. ~(e.stage = "train" /\ e.cand = c)
      BY <1>4, <3>2
    <3> QED BY <1>3, <1>4, <1>5, <3>1, <3>3, EvOthers DEF Excels, Improves, PassCount, Kept
  <2>2. \A i \in DOMAIN ran' : ran'[i].cand <= Count
    <3>1. \A i \in DOMAIN ran : ran[i].cand <= Count
      BY <1>2 DEF Trained, Live
    <3>2. Count \in Nat
      BY DEF Kept, Record, Count, Cands
    <3> QED BY <1>4, <3>1, <3>2, EvExecuted DEF Kept
  <2> QED BY <1>2, <1>3, <1>5, <2>1, <2>2 DEF Trained, Live
<1>10. Chosen'
  BY <1>2, <1>3 DEF Chosen, Live
<1>11. Metered'
  BY <1>2, <1>3, <1>4 DEF Metered
<1>12. Proven'
  BY <1>2, <1>3 DEF Proven, Live
<1>13. Pointed'
  BY <1>2, EvPointedKept
<1>14. Given'
  BY <1>2, EvGivenKept
<1> QED BY <1>4, <1>6, <1>7, <1>8, <1>9, <1>10, <1>11, <1>12, <1>13, <1>14

\* The evolver, field by field.
Now(pc, rec, stage, results, best, proposed) ==
  [pc |-> pc, rec |-> rec, stage |-> stage, results |-> results, best |-> best,
   proposed |-> proposed]

\* What a step of the run on its way keeps, whatever it learns of a candidate.
LEMMA EvGoes ==
  ASSUME EvoInv, Contract, Live,
         NEW pc \in {"meter", "verify", "propose", "train", "apply"}, NEW rec \in Record,
         NEW stage \in Stages, NEW results \in Seq(BOOLEAN), NEW best \in Nat,
         NEW proposed \in Patches \cup {"none"},
         ev' = Now(pc, rec, stage, results, best, proposed),
         disk' = disk \/ disk' = rec, rec.status # "candidate_ready",
         ev.rec.runs <= rec.runs, rec.runs <= MaxVerifierRuns,
         pc = "verify" => Len(ran) < rec.runs /\ disk' = rec,
         ev.stage = "holdout" => stage = "holdout",
         stage = "holdout" \/ pc = "apply" => best # 0 /\ rec.selected = best /\ disk'.selected # 0,
         stage = "holdout" => pc \in {"meter", "verify"},
         tree' \in Contents, patch' \in Seq(Contents), valid' \in [Runs -> Contents],
         \A r \in Earlier : valid'[r] = valid[r],
         UNCHANGED <<ran, ptr, op, look, launched>>
  PROVE  /\ Kept' /\ Chosen' /\ InOrder' /\ Metered' /\ Proven' /\ Pointed' /\ Given'
         /\ ev'.pc = pc /\ ev'.rec = rec /\ ev'.stage = stage /\ ev'.results = results
         /\ ev'.best = best /\ ev'.proposed = proposed
<1> USE DEF EvoInv
<1>1. /\ ev'.pc = pc /\ ev'.rec = rec /\ ev'.stage = stage /\ ev'.results = results
      /\ ev'.best = best /\ ev'.proposed = proposed
  BY DEF Now
<1>2. disk.status # "candidate_ready" /\ ev.pc # "over" /\ disk \in Record /\ ev.rec \in Record
  BY DEF Proven, Live, Kept
<1>3. Kept'
  BY <1>2 DEF Kept, Now
<1>4. Chosen'
  BY <1>1 DEF Chosen, Live
<1>5. InOrder'
  BY <1>1 DEF InOrder
<1>6. Metered'
  <2>1. /\ disk.runs \in Nat /\ ev.rec.runs \in Nat /\ rec.runs \in Nat /\ Len(ran) \in Nat
        /\ MaxVerifierRuns \in Int
    <3>1. disk.runs \in Nat /\ ev.rec.runs \in Nat /\ rec.runs \in Nat
      BY <1>2 DEF Record
    <3>2. Len(ran) \in Nat
      BY DEF Kept
    <3>3. MaxVerifierRuns \in Int
      BY DEF Contract, ValidContract
    <3> QED BY <3>1, <3>2, <3>3
  <2>2. /\ Len(ran) <= disk.runs /\ disk.runs <= MaxVerifierRuns /\ Len(ran) <= ev.rec.runs
    BY DEF Metered
  <2>3. disk'.runs = disk.runs \/ disk'.runs = rec.runs
    OBVIOUS
  <2> QED BY <1>1, <2>1, <2>2, <2>3 DEF Metered
<1>7. Proven'
  BY <1>1, <1>2 DEF Proven
<1>8. Pointed'
  BY EvPointedKept
<1>9. Given'
  BY <1>2, EvGivenKept
<1> QED BY <1>1, <1>3, <1>4, <1>5, <1>6, <1>7, <1>8, <1>9

\* A candidate whose entry stays keeps what it showed.
LEMMA EvExcelsKept ==
  ASSUME NEW c, Excels(c), ran' = ran, ev'.rec.baseline = ev.rec.baseline,
         ev'.rec.cands[c] = ev.rec.cands[c]
  PROVE  Excels(c)'
BY DEF Excels, Cands, Allowed, Improves, PassCount

\* While nothing is executed, what was tested is tested.
LEMMA EvTestedStays ==
  ASSUME NEW c, NEW content, Tested(c, content), ran' = ran
  PROVE  Tested(c, content)'
<1>1. \A s, d : Executions(s, d)' = Executions(s, d)
  BY DEF Executions
<1>2. \A these : Passed(these)' = Passed(these)
  BY DEF Passed
<1>3. \A these, on, n : Measured(these, on, n)' <=> Measured(these, on, n)
  BY DEF Measured
<1>4. Allowed(content)' <=> Allowed(content)
  BY DEF Allowed
<1> QED BY <1>1, <1>2, <1>3, <1>4, Zenon DEF Tested

\* An evolver that has ended does nothing.
LEMMA EvRested ==
  ASSUME EvoInv, NEW rec \in Record, ev'.rec = rec,
         ev' \in [pc : {"over"}, rec : Record, stage : Stages, results : Seq(BOOLEAN), best : Nat,
                  proposed : Patches \cup {"none"}],
         ev'.stage = ev.stage, Live \/ ev.pc = "finish",
         \/ rec = ev.rec
         \/ /\ rec.status # "candidate_ready" /\ rec.runs = ev.rec.runs
            /\ ev.stage = "holdout" => rec.selected # 0,
         disk' = disk \/ disk' = rec,
         tree' \in Contents, patch' = patch, valid' = valid,
         UNCHANGED <<ran, ptr, op, look, launched>>
  PROVE  EvoInv'
<1> USE DEF EvoInv
<1>1. ev'.pc = "over" /\ disk.status # "candidate_ready" /\ ev.pc # "over"
  BY DEF Proven, Live
<1>2. Kept'
  <2>1. ev' \in [pc : {"idle", "meter", "verify", "propose", "train", "apply", "finish", "over"},
                 rec : Record, stage : Stages, results : Seq(BOOLEAN), best : Nat,
                 proposed : Patches \cup {"none"}]
    OBVIOUS
  <2> QED BY <2>1 DEF Kept
<1>3. Underway' /\ Based' /\ Trained'
  BY <1>1 DEF Underway, Based, Trained, Live, Measuring
<1>4. Chosen'
  BY <1>1 DEF Chosen, Live
<1>5. InOrder'
  BY DEF InOrder
<1>6. Metered'
  <2>1. Len(ran) <= ev.rec.runs /\ ev.rec.runs <= MaxVerifierRuns /\ rec.runs = ev.rec.runs
    BY DEF Metered
  <2> QED BY <1>1, <2>1 DEF Metered
<1>7. Proven'
  <2>1. ASSUME rec.status = "candidate_ready"
        PROVE  Tested(rec.selected, rec.cands[rec.selected].digest)'
    <3>1. Tested(rec.selected, rec.cands[rec.selected].digest)
      BY <2>1 DEF Proven
    <3> QED BY <3>1, EvTestedStays
  <2> QED BY <1>1, <2>1 DEF Proven, Live
<1>8. Pointed'
  BY EvPointedKept
<1>9. Given'
  BY <1>1, EvGivenKept
<1> QED BY <1>2, <1>3, <1>4, <1>5, <1>6, <1>7, <1>8, <1>9

\* A write succeeds, or the file is either the old or the new one.
LEMMA EvWrote ==
  ASSUME NEW ok \in BOOLEAN, NEW rec, Wrote(ok, disk, rec)
  PROVE  /\ disk' = disk \/ disk' = rec
         /\ ok => disk' = rec
BY DEF Wrote, Trouble

\* The first save of a run.
LEMMA EvStart ==
  ASSUME EvoInv, Contract, Start PROVE EvoInv'
<1> USE DEF EvoInv
<1> DEFINE first == [NoRecord EXCEPT !.status = "running"]
<1>1. PICK ok \in BOOLEAN : /\ Wrote(ok, disk, first)
                            /\ ev' = [ev EXCEPT !.pc = IF ok THEN "meter" ELSE "over", !.rec = first]
  BY DEF Start
<1>2. /\ UNCHANGED <<patch, valid, ran, ptr, op, look, launched>> /\ tree' = "base"
      /\ ev.pc = "idle" /\ Live
  BY DEF Start, pointer, At, Live
<1>3. /\ ran = <<>> /\ ev.rec = NoRecord /\ ev.stage = "baseline" /\ ev.results = <<>>
      /\ ev.best = 0
  BY <1>2 DEF Metered
<1>4. /\ first \in Record /\ first.runs = 0 /\ first.status # "candidate_ready"
      /\ first.cands = <<>> /\ ev.rec.runs = 0
  <2>1. first = [status |-> "running", baseline |-> <<>>, cands |-> <<>>, selected |-> 0,
                 validation |-> <<>>, runs |-> 0]
    BY DEF NoRecord
  <2>2. ev.rec.runs = 0
    BY <1>3 DEF NoRecord
  <2>3. <<>> \in Seq(BOOLEAN) /\ <<>> \in Seq(Entry)
    OBVIOUS
  <2> HIDE DEF first
  <2> QED BY <2>1, <2>2, <2>3 DEF Record
<1> HIDE DEF first
<1>5. (disk' = disk \/ disk' = first) /\ tree' \in Contents
  BY <1>1, <1>2, EvWrote DEF Contents
<1>6. CASE ~ok
  <2>1. /\ ev'.rec = first /\ ev'.stage = ev.stage
        /\ ev' \in [pc : {"over"}, rec : Record, stage : Stages, results : Seq(BOOLEAN), best : Nat,
                    proposed : Patches \cup {"none"}]
    BY <1>1, <1>4, <1>6 DEF Kept
  <2> QED BY <1>2, <1>3, <1>4, <1>5, <2>1, EvRested
<1>7. CASE ok
  <2>1. /\ ev' = Now("meter", first, "baseline", <<>>, 0, ev.proposed)
        /\ ev.proposed \in Patches \cup {"none"}
    BY <1>1, <1>3, <1>7 DEF Kept, Now
  <2>2. 0 <= MaxVerifierRuns /\ <<>> \in Seq(BOOLEAN)
    BY <1>3 DEF Metered, NoRecord
  <2>3. /\ Kept' /\ Chosen' /\ InOrder' /\ Metered' /\ Proven' /\ Pointed' /\ Given'
        /\ ev'.pc = "meter" /\ ev'.rec = first /\ ev'.stage = "baseline" /\ ev'.results = <<>>
        /\ ev'.best = 0
    BY <1>2, <1>3, <1>4, <1>5, <2>1, <2>2, EvGoes DEF Stages, Kept
  <2>4. Count' = 0
    BY <1>4, <2>3 DEF Count, Cands
  <2>5. Underway'
    BY <1>2, <1>3, <2>3 DEF Underway, Shows, On, Of
  <2>6. Based'
    BY <2>3 DEF Based
  <2>7. Trained'
    BY <1>2, <1>3, <2>3, <2>4 DEF Trained, Kept
  <2> QED BY <2>3, <2>5, <2>6, <2>7
<1> QED BY <1>6, <1>7

\* A verifier is counted, in memory and on disk.
LEMMA EvMeter ==
  ASSUME EvoInv, Contract, Meter PROVE EvoInv'
<1> USE DEF EvoInv
<1> DEFINE more == [ev.rec EXCEPT !.runs = @ + 1]
<1>1. PICK ok \in BOOLEAN : /\ Wrote(ok, disk, more)
                            /\ IF ok THEN ev' = [ev EXCEPT !.pc = "verify", !.rec = more]
                               ELSE Inconclusive(more, ev.results)
  BY DEF Meter
<1>2. /\ UNCHANGED <<tree, patch, valid, ran, ptr, op, look, launched>>
      /\ ev.pc = "meter" /\ Live /\ Measuring /\ ev.rec.runs < MaxVerifierRuns
  BY DEF Meter, pointer, At, Live, Measuring
<1>3. /\ more \in Record /\ more.runs = ev.rec.runs + 1 /\ ev.rec.runs \in Nat
      /\ more.status = ev.rec.status /\ more.selected = ev.rec.selected
      /\ more.baseline = ev.rec.baseline /\ more.cands = ev.rec.cands
      /\ ev.rec \in Record
  <2>1. ev.rec \in Record
    BY DEF Kept
  <2>2. ev.rec.runs \in Nat /\ ev.rec.runs + 1 \in Nat
    BY <2>1 DEF Record
  <2> QED BY <2>1, <2>2 DEF Record
<1> HIDE DEF more
<1>4. disk' = disk \/ disk' = more
  BY <1>1, EvWrote
<1>5. MaxVerifierRuns \in Int /\ Len(ran) \in Nat /\ Len(ran) <= ev.rec.runs
      /\ ev.rec.status # "candidate_ready"
  BY <1>2 DEF Contract, ValidContract, Kept, Metered, Proven
<1>6. ev.rec.runs <= more.runs /\ more.runs <= MaxVerifierRuns /\ Len(ran) < more.runs
  BY <1>2, <1>3, <1>5
<1>7. ev.stage = "holdout" => more.selected # 0 /\ disk'.selected # 0 /\ ev.best # 0
                              /\ more.selected = ev.best
  BY <1>2, <1>3, <1>4 DEF Chosen
<1>8. tree' \in Contents /\ patch' \in Seq(Contents)
  BY <1>2 DEF Kept
<1>9. CASE ~ok
  <2>1. Inconclusive(more, ev.results) /\ ev.results \in Seq(BOOLEAN)
    BY <1>1, <1>9 DEF Kept
  <2>2. ev'.stage = ev.stage
    BY <2>1 DEF Inconclusive, Fails, Ends, Kept
  <2>3. /\ ran' \in Seq(Execution) /\ InOrder'
        /\ Len(ran') <= ev.rec.runs /\ Len(ran') <= disk.runs
    BY <1>2, <2>2, EvSameOrder
  <2> QED BY <1>2, <1>3, <1>4, <1>6, <2>1, <2>3, EvInconclusive
<1>10. CASE ok
  <2>1. /\ ev' = Now("verify", more, ev.stage, ev.results, ev.best, ev.proposed)
        /\ ev.proposed \in Patches \cup {"none"} /\ ev.stage \in Stages
        /\ ev.results \in Seq(BOOLEAN) /\ ev.best \in Nat
    BY <1>1, <1>10 DEF Kept, Now
  <2>2. disk' = more
    BY <1>1, <1>10, EvWrote
  <2>3. /\ Kept' /\ Chosen' /\ InOrder' /\ Metered' /\ Proven' /\ Pointed' /\ Given'
        /\ ev'.pc = "verify" /\ ev'.rec = more /\ ev'.stage = ev.stage /\ ev'.results = ev.results
        /\ ev'.best = ev.best
    BY <1>2, <1>3, <1>5, <1>6, <1>7, <1>8, <2>1, <2>2, EvGoes DEF Kept
  <2>4. Count' = Count /\ Cands' = Cands /\ Tree' = Tree
    BY <1>2, <1>3, <2>3 DEF Count, Cands, Tree
  <2>5. Underway'
    BY <1>2, <2>3, <2>4 DEF Underway, Measuring, Allowed
  <2>6. Based'
    BY <1>2, <1>3, <2>3 DEF Based, Live
  <2>7. Trained'
    <3>1. ASSUME NEW c \in 1 .. Count, Cands[c].status = "train_accepted"
          PROVE  Excels(c)'
      <4>1. Excels(c)
        BY <1>2, <3>1 DEF Trained
      <4> QED BY <1>2, <1>3, <2>3, <4>1, EvExcelsKept
    <3> QED BY <1>2, <2>3, <2>4, <3>1 DEF Trained, Live
  <2> QED BY <2>3, <2>5, <2>6, <2>7
<1> QED BY <1>9, <1>10

\* The baseline is measured: what was executed on the base revision is recorded.
LEMMA EvBaselineDone ==
  ASSUME EvoInv, Contract, BaselineDone PROVE EvoInv'
<1> USE DEF EvoInv
<1>a. PICK status : status = ""
  OBVIOUS
<1>b. PICK rec : rec = WithResults(ev.rec, ev.results, status)
  OBVIOUS
<1>1. IF tree = "base" THEN ev' = [ev EXCEPT !.pc = "propose", !.rec = rec] ELSE Fails(rec)
  BY <1>a, <1>b DEF BaselineDone
<1>2. /\ UNCHANGED <<disk, tree, patch, valid, ran, ptr, op, look, launched>>
      /\ ev.pc = "meter" /\ ev.stage = "baseline" /\ Len(ev.results) = Cases
      /\ Live /\ Measuring
  BY DEF BaselineDone, pointer, At, Evaluated, Live, Measuring
<1>3. /\ ev.results \in Seq(BOOLEAN) /\ ev.best \in Nat /\ ev.proposed \in Patches \cup {"none"}
      /\ tree' \in Contents /\ patch' \in Seq(Contents)
  BY <1>2 DEF Kept
<1>4. /\ rec \in Record
      /\ rec.status = ev.rec.status /\ rec.runs = ev.rec.runs
      /\ rec.selected = ev.rec.selected
      /\ rec.baseline = ev.results
      /\ Len(rec.cands) = Count
  <2>1. ev.stage = "train" => status \in Judged /\ Measuring
    BY <1>2
  <2> QED BY <1>b, <1>2, <1>3, <2>1, EvResults
<1>5. ev.rec.status # "candidate_ready" /\ ev.rec.runs <= MaxVerifierRuns /\ ev.rec.runs \in Nat
  BY <1>2 DEF Proven, Metered, Kept, Record
<1>6. ev.rec.runs <= rec.runs /\ rec.runs <= MaxVerifierRuns /\ rec.status # "candidate_ready"
  BY <1>4, <1>5
<1>7. CASE tree # "base"
  <2>1. Fails(rec)
    BY <1>1, <1>7
  <2>2. ev'.stage = ev.stage
    BY <2>1 DEF Fails, Ends, Kept
  <2>3. /\ ran' \in Seq(Execution) /\ InOrder'
        /\ Len(ran') <= ev.rec.runs /\ Len(ran') <= disk.runs
    BY <1>2, <2>2, EvSameOrder
  <2>4. ev.pc \notin {"idle", "finish", "over"}
    BY <1>2
  <2> QED BY <1>2, <1>3, <1>4, <1>6, <2>1, <2>3, <2>4, EvFails
<1>8. CASE tree = "base"
  <2>1. ev' = Now("propose", rec, "baseline", ev.results, ev.best, ev.proposed)
    BY <1>1, <1>2, <1>8 DEF Kept, Now
  <2>2. /\ Kept' /\ Chosen' /\ InOrder' /\ Metered' /\ Proven' /\ Pointed' /\ Given'
        /\ ev'.pc = "propose" /\ ev'.rec = rec /\ ev'.stage = "baseline" /\ ev'.best = ev.best
    BY <1>2, <1>3, <1>4, <1>6, <2>1, EvGoes DEF Stages, Kept
  <2>3. Count = 0 /\ Count' = 0
    BY <1>2, <1>4, <2>2 DEF Trained, Count, Cands
  <2>4. Underway'
    BY <2>2 DEF Underway, Measuring
  <2>5. Based'
    <3>1. Shows(ran, "baseline", 0, ev.results)
      BY <1>2, <2>3 DEF Underway
    <3>2. On(ran, "baseline", 0, "base")
      BY <1>2, <1>8, <2>3 DEF Underway, Tree
    <3>3. Len(ev.results) = TrainCases
      BY <1>2 DEF Cases
    <3> QED BY <1>2, <1>4, <2>2, <3>1, <3>2, <3>3 DEF Based
  <2>6. Trained'
    <3>1. /\ \A i \in DOMAIN ran : ran[i].cand <= 0
          /\ ev.best \in 0 .. 0 /\ 0 <= Len(patch)
      BY <1>2, <2>3 DEF Trained
    <3> QED BY <1>2, <2>2, <2>3, <3>1 DEF Trained
  <2> QED BY <2>2, <2>4, <2>5, <2>6
<1> QED BY <1>7, <1>8

\* A candidate more.
Adding(entry) == [ev.rec EXCEPT !.cands = Append(@, entry)]

\* The record with it.
LEMMA EvAppended ==
  ASSUME EvoInv, NEW entry \in Entry, NEW rec, rec = Adding(entry)
  PROVE  /\ rec \in Record /\ ev.rec \in Record
         /\ rec.status = ev.rec.status /\ rec.runs = ev.rec.runs
         /\ rec.selected = ev.rec.selected /\ rec.baseline = ev.rec.baseline
         /\ Count \in Nat /\ Len(rec.cands) = Count + 1
         /\ \A c \in 1 .. Count : rec.cands[c] = ev.rec.cands[c]
         /\ rec.cands[Count + 1] = entry
<1>1. ev.rec \in Record /\ ev.rec.cands \in Seq(Entry)
  BY DEF EvoInv, Kept, Record
<1> DEFINE more == Append(ev.rec.cands, entry)
<1>2. /\ more \in Seq(Entry) /\ Count \in Nat /\ Len(more) = Count + 1
      /\ \A c \in 1 .. Count : more[c] = ev.rec.cands[c]
      /\ more[Count + 1] = entry
  BY <1>1 DEF Count, Cands
<1>3. rec = [ev.rec EXCEPT !.cands = more]
  BY DEF Adding
<1> HIDE DEF more
<1>4. /\ rec \in Record /\ rec.cands = more
      /\ rec.status = ev.rec.status /\ rec.runs = ev.rec.runs
      /\ rec.selected = ev.rec.selected /\ rec.baseline = ev.rec.baseline
  BY <1>1, <1>2, <1>3 DEF Record
<1> QED BY <1>1, <1>2, <1>4

\* A generator that fails, or whose changes may not be, leaves an entry.
LEMMA EvUnfit ==
  ASSUME EvoInv, Contract, Unfit PROVE EvoInv'
<1>1. PICK status \in {"generation_failed", "rejected"} :
        Saves([ev.rec EXCEPT !.cands = Append(@, [status |-> status, digest |-> "none",
                                                      train |-> <<>>])], "propose")
  BY DEF Unfit
<1>a. PICK entry : entry = [status |-> status, digest |-> "none", train |-> <<>>]
  OBVIOUS
<1>b. PICK rec : rec = Adding(entry)
  OBVIOUS
<1>2. PICK ok \in BOOLEAN : /\ Wrote(ok, disk, rec)
                            /\ IF ok THEN ev' = [ev EXCEPT !.pc = "propose", !.rec = rec]
                               ELSE Fails(rec)
  BY <1>1, <1>a, <1>b DEF Saves, Adding
<1>3. /\ UNCHANGED <<tree, valid, ran, ptr, op, look, launched>> /\ patch' = Append(patch, "none")
      /\ ev.pc = "propose" /\ Live
  BY DEF Unfit, pointer, At, Live
<1>4. /\ entry \in Entry /\ entry.status # "train_accepted"
  <2>1. <<>> \in Seq(BOOLEAN)
    OBVIOUS
  <2>2. status \in Judged /\ status # "train_accepted"
    BY DEF Judged
  <2> QED BY <1>a, <2>1, <2>2 DEF Entry
<1>5. /\ rec \in Record /\ ev.rec \in Record
      /\ rec.status = ev.rec.status /\ rec.runs = ev.rec.runs
      /\ rec.selected = ev.rec.selected /\ rec.baseline = ev.rec.baseline
      /\ Count \in Nat /\ Len(rec.cands) = Count + 1
      /\ \A c \in 1 .. Count : rec.cands[c] = ev.rec.cands[c]
      /\ rec.cands[Count + 1] = entry
  BY <1>4, <1>b, EvAppended
<1> USE DEF EvoInv
<1>6. disk' = disk \/ disk' = rec
  BY <1>2, EvWrote
<1>7. /\ patch \in Seq(Contents) /\ "none" \in Contents
      /\ patch' \in Seq(Contents) /\ Len(patch') = Len(patch) + 1 /\ tree' \in Contents
      /\ Len(patch) \in Nat
  <2>1. patch \in Seq(Contents) /\ "none" \in Contents /\ tree \in Contents
    BY DEF Kept, Contents
  <2> QED BY <1>3, <2>1
<1>8. rec.status # "candidate_ready" /\ ev.rec.runs <= rec.runs /\ rec.runs <= MaxVerifierRuns
  BY <1>3, <1>5 DEF Proven, Metered, Record
<1>9. ev.stage # "holdout"
  BY <1>3 DEF Chosen
<1>10. CASE ~ok
  <2>1. Fails(rec)
    BY <1>2, <1>10
  <2>2. ev'.stage = ev.stage
    BY <2>1 DEF Fails, Ends, Kept
  <2>3. /\ ran' \in Seq(Execution) /\ InOrder'
        /\ Len(ran') <= ev.rec.runs /\ Len(ran') <= disk.runs
    BY <1>3, <2>2, EvSameOrder
  <2>4. ev.pc \notin {"idle", "finish", "over"}
    BY <1>3
  <2> QED BY <1>3, <1>5, <1>6, <1>7, <1>8, <1>9, <2>1, <2>3, <2>4, EvFails
<1>11. CASE ok
  <2>1. /\ ev' = Now("propose", rec, ev.stage, ev.results, ev.best, ev.proposed)
        /\ ev.proposed \in Patches \cup {"none"} /\ ev.stage \in Stages
        /\ ev.results \in Seq(BOOLEAN) /\ ev.best \in Nat
    BY <1>2, <1>11 DEF Kept, Now
  <2>2. /\ Kept' /\ Chosen' /\ InOrder' /\ Metered' /\ Proven' /\ Pointed' /\ Given'
        /\ ev'.pc = "propose" /\ ev'.rec = rec /\ ev'.stage = ev.stage /\ ev'.best = ev.best
    BY <1>3, <1>5, <1>6, <1>7, <1>8, <1>9, <2>1, EvGoes DEF Kept
  <2>3. Count' = Count + 1 /\ Cands' = rec.cands
    BY <1>5, <2>2 DEF Count, Cands
  <2>4. Underway'
    BY <2>2 DEF Underway, Measuring
  <2>5. Based'
    BY <1>3, <1>5, <2>2 DEF Based
  <2>6. Trained'
    <3>1. ASSUME NEW c \in 1 .. Count + 1, rec.cands[c].status = "train_accepted"
          PROVE  Excels(c)'
      <4>1. c \in 1 .. Count
        BY <1>4, <1>5, <3>1
      <4>2. Excels(c)
        BY <1>3, <1>5, <3>1, <4>1 DEF Trained, Cands
      <4> QED BY <1>3, <1>5, <2>2, <4>1, <4>2, EvExcelsKept
    <3>2. /\ \A i \in DOMAIN ran : ran[i].cand <= Count + 1
          /\ ev.best \in 0 .. Count + 1
          /\ ev.best # 0 => rec.cands[ev.best].status = "train_accepted"
          /\ Count + 1 <= Len(patch')
      <4>1. /\ \A i \in DOMAIN ran : ran[i].cand <= Count
            /\ ev.best \in 0 .. Count
            /\ ev.best # 0 => ev.rec.cands[ev.best].status = "train_accepted"
            /\ Count <= Len(patch)
        BY <1>3 DEF Trained, Cands
      <4>2. \A i \in DOMAIN ran : ran[i].cand \in Nat
        <5>1. ran \in Seq(Execution)
          BY DEF Kept
        <5>2. \A i \in DOMAIN ran : ran[i] \in Execution
          BY <5>1
        <5> QED BY <5>2 DEF Execution
      <4> QED BY <1>5, <1>7, <4>1, <4>2
    <3> QED BY <1>3, <2>2, <2>3, <3>1, <3>2 DEF Trained
  <2> QED BY <2>2, <2>4, <2>5, <2>6
<1> QED BY <1>10, <1>11

\* A proposal that may be tried is captured.
LEMMA EvPropose ==
  ASSUME EvoInv, Contract, Propose PROVE EvoInv'
<1>1. PICK p \in Patches, ok \in BOOLEAN :
           /\ Allowed(p) /\ Wrote(ok, patch, Append(patch, p))
           /\ IF ok THEN ev' = [ev EXCEPT !.pc = "train", !.proposed = p] ELSE Fails(ev.rec)
  BY DEF Propose
<1>2. /\ UNCHANGED <<disk, tree, valid, ran, ptr, op, look, launched>>
      /\ ev.pc = "propose" /\ Live
  BY DEF Propose, pointer, At, Live
<1> USE DEF EvoInv
<1>3. /\ patch \in Seq(Contents) /\ tree' \in Contents /\ ev.rec \in Record
      /\ p \in Contents /\ Len(patch) \in Nat
      /\ Append(patch, p) \in Seq(Contents) /\ Len(Append(patch, p)) = Len(patch) + 1
  <2>1. patch \in Seq(Contents) /\ tree \in Contents /\ ev.rec \in Record /\ p \in Contents
    BY DEF Kept, Contents
  <2> QED BY <1>2, <2>1
<1>4. /\ patch' = patch \/ patch' = Append(patch, p)
      /\ ok => patch' = Append(patch, p)
  BY <1>1 DEF Wrote, Trouble
<1>5. patch' \in Seq(Contents)
  BY <1>3, <1>4
<1>6. ev.rec.status # "candidate_ready" /\ ev.rec.runs <= ev.rec.runs
      /\ ev.rec.runs <= MaxVerifierRuns
  BY <1>2, <1>3 DEF Proven, Metered, Record
<1>7. ev.stage # "holdout"
  BY <1>2 DEF Chosen
<1>8. CASE ~ok
  <2>1. Fails(ev.rec)
    BY <1>1, <1>8
  <2>2. ev'.stage = ev.stage
    BY <2>1 DEF Fails, Ends, Kept
  <2>3. /\ ran' \in Seq(Execution) /\ InOrder'
        /\ Len(ran') <= ev.rec.runs /\ Len(ran') <= disk.runs
    BY <1>2, <2>2, EvSameOrder
  <2>4. ev.pc \notin {"idle", "finish", "over"}
    BY <1>2
  <2> QED BY <1>2, <1>3, <1>5, <1>6, <1>7, <2>1, <2>3, <2>4, EvFails
<1>9. CASE ok
  <2>1. /\ ev' = Now("train", ev.rec, ev.stage, ev.results, ev.best, p)
        /\ p \in Patches \cup {"none"} /\ ev.stage \in Stages
        /\ ev.results \in Seq(BOOLEAN) /\ ev.best \in Nat
    BY <1>1, <1>9 DEF Kept, Now
  <2>2. /\ Kept' /\ Chosen' /\ InOrder' /\ Metered' /\ Proven' /\ Pointed' /\ Given'
        /\ ev'.pc = "train" /\ ev'.rec = ev.rec /\ ev'.stage = ev.stage /\ ev'.best = ev.best
        /\ ev'.proposed = p
    BY <1>2, <1>3, <1>5, <1>6, <1>7, <2>1, EvGoes DEF Kept
  <2>3. Count' = Count /\ Cands' = Cands /\ Count \in Nat
    BY <1>3, <2>2 DEF Count, Cands, Record
  <2>4. Underway'
    BY <2>2 DEF Underway, Measuring
  <2>5. Based'
    BY <1>2, <2>2 DEF Based
  <2>6. Trained'
    <3>1. ASSUME NEW c \in 1 .. Count, Cands[c].status = "train_accepted"
          PROVE  Excels(c)'
      <4>1. Excels(c)
        BY <1>2, <3>1 DEF Trained
      <4> QED BY <1>2, <2>2, <4>1, EvExcelsKept
    <3>2. Count < Len(patch')
      BY <1>2, <1>3, <1>4, <1>9, <2>3 DEF Trained
    <3>3. Allowed(p)'
      BY <1>1 DEF Allowed
    <3> QED BY <1>2, <1>3, <2>2, <2>3, <3>1, <3>2, <3>3 DEF Trained
  <2> QED BY <2>2, <2>4, <2>5, <2>6
<1> QED BY <1>8, <1>9

\* The proposal is entered, its patch applied, and its evaluation begins: nothing
\* was executed for it yet.
LEMMA EvTrain ==
  ASSUME EvoInv, Contract, Train PROVE EvoInv'
<1>a. PICK entry : entry = [status |-> "training", digest |-> ev.proposed, train |-> <<>>]
  OBVIOUS
<1>b. PICK rec : rec = Adding(entry)
  OBVIOUS
<1>1. PICK ok \in BOOLEAN :
           /\ Wrote(ok, disk, rec)
           /\ IF ok THEN ev' = [Evaluates("train") EXCEPT !.pc = "meter", !.rec = rec]
              ELSE Fails(rec)
  BY <1>a, <1>b DEF Train, Adding
<1>2. /\ UNCHANGED <<patch, valid, ran, ptr, op, look, launched>> /\ tree' = patch[Len(patch)]
      /\ ev.pc = "train" /\ Live
  BY DEF Train, pointer, At, Live
<1>3. /\ entry \in Entry /\ entry.status = "training" /\ entry.digest = ev.proposed
  <2>1. <<>> \in Seq(BOOLEAN) /\ ev.proposed \in Patches \cup {"none"}
    BY DEF EvoInv, Kept
  <2>2. "training" \in Judged
    BY DEF Judged
  <2> QED BY <1>a, <2>1, <2>2 DEF Entry
<1>4. /\ rec \in Record /\ ev.rec \in Record
      /\ rec.status = ev.rec.status /\ rec.runs = ev.rec.runs
      /\ rec.selected = ev.rec.selected /\ rec.baseline = ev.rec.baseline
      /\ Count \in Nat /\ Len(rec.cands) = Count + 1
      /\ \A c \in 1 .. Count : rec.cands[c] = ev.rec.cands[c]
      /\ rec.cands[Count + 1] = entry
  BY <1>3, <1>b, EvAppended
<1> USE DEF EvoInv
<1>5. disk' = disk \/ disk' = rec
  BY <1>1, EvWrote
<1>6. /\ patch' \in Seq(Contents) /\ tree' \in Contents
  <2>1. patch \in Seq(Contents)
    BY DEF Kept
  <2>2. Count < Len(patch)
    BY <1>2 DEF Trained
  <2> QED BY <1>2, <1>4, <2>1, <2>2
<1>7. rec.status # "candidate_ready" /\ ev.rec.runs <= rec.runs /\ rec.runs <= MaxVerifierRuns
  BY <1>2, <1>4 DEF Proven, Metered, Record
<1>8. ev.stage # "holdout"
  BY <1>2 DEF Chosen
<1>9. CASE ~ok
  <2>1. Fails(rec)
    BY <1>1, <1>9
  <2>2. ev'.stage = ev.stage
    BY <2>1 DEF Fails, Ends, Kept
  <2>3. /\ ran' \in Seq(Execution) /\ InOrder'
        /\ Len(ran') <= ev.rec.runs /\ Len(ran') <= disk.runs
    BY <1>2, <2>2, EvSameOrder
  <2>4. ev.pc \notin {"idle", "finish", "over"}
    BY <1>2
  <2> QED BY <1>2, <1>4, <1>5, <1>6, <1>7, <1>8, <2>1, <2>3, <2>4, EvFails
<1>10. CASE ok
  <2>1. /\ ev' = Now("meter", rec, "train", <<>>, ev.best, ev.proposed)
        /\ ev.proposed \in Patches \cup {"none"}
        /\ <<>> \in Seq(BOOLEAN) /\ ev.best \in Nat
    <3>1. ev.proposed \in Patches \cup {"none"} /\ <<>> \in Seq(BOOLEAN) /\ ev.best \in Nat
      BY DEF Kept
    <3>2. ev' = [[ev EXCEPT !.stage = "train", !.results = <<>>] EXCEPT !.pc = "meter", !.rec = rec]
      BY <1>1, <1>10 DEF Evaluates
    <3>3. DOMAIN ev = {"pc", "rec", "stage", "results", "best", "proposed"}
      BY DEF Kept
    <3> DEFINE old == [ev EXCEPT !.stage = "train", !.results = <<>>]
    <3>4. /\ DOMAIN old = {"pc", "rec", "stage", "results", "best", "proposed"}
          /\ old.stage = "train" /\ old.results = <<>> /\ old.best = ev.best
          /\ old.proposed = ev.proposed
      BY <3>3
    <3>5. ev' = [old EXCEPT !.pc = "meter", !.rec = rec]
      BY <3>2
    <3> HIDE DEF old
    <3>6. ev' = Now("meter", rec, "train", <<>>, ev.best, ev.proposed)
      BY <3>4, <3>5 DEF Now
    <3> QED BY <3>1, <3>6
  <2>2. /\ Kept' /\ Chosen' /\ InOrder' /\ Metered' /\ Proven' /\ Pointed' /\ Given'
        /\ ev'.pc = "meter" /\ ev'.rec = rec /\ ev'.stage = "train" /\ ev'.best = ev.best
        /\ ev'.results = <<>>
    <3>1. "train" \in Stages /\ valid' \in [Runs -> Contents]
      BY <1>2 DEF Stages, Kept
    <3>2. /\ rec \in Record /\ Live /\ ev.stage # "holdout"
          /\ UNCHANGED <<ran, ptr, op, look, launched>> /\ valid' = valid
      BY <1>2, <1>4, <1>8
    <3>3. <<>> \in Seq(BOOLEAN)
      OBVIOUS
    <3> HIDE DEF EvoInv
    <3>4. PICK pc, stage, results : pc = "meter" /\ stage = "train" /\ results = <<>>
      OBVIOUS
    <3>5. /\ ev' = Now(pc, rec, stage, results, ev.best, ev.proposed)
          /\ pc \in {"meter", "verify", "propose", "train", "apply"} /\ stage \in Stages
          /\ results \in Seq(BOOLEAN)
          /\ pc # "verify" /\ stage # "holdout" /\ pc # "apply"
      BY <2>1, <3>1, <3>3, <3>4
    <3>6. ev.best \in Nat /\ ev.proposed \in Patches \cup {"none"}
      BY <2>1
    <3>7. /\ Kept' /\ Chosen' /\ InOrder' /\ Metered' /\ Proven' /\ Pointed' /\ Given'
          /\ ev'.pc = pc /\ ev'.rec = rec /\ ev'.stage = stage /\ ev'.results = results
          /\ ev'.best = ev.best
      BY <1>5, <1>6, <1>7, <3>1, <3>2, <3>5, <3>6, EvGoes
    <3> QED BY <3>4, <3>7
  <2>3. Count' = Count + 1 /\ Cands' = rec.cands
    BY <1>4, <2>2 DEF Count, Cands
  <2>4. Underway'
    <3>1. \A i \in DOMAIN ran : ran[i].cand <= Count /\ ran[i].cand \in Nat
      <4>1. ran \in Seq(Execution)
        BY DEF Kept
      <4>2. \A i \in DOMAIN ran : ran[i] \in Execution
        BY <4>1
      <4> QED BY <1>2, <4>2 DEF Trained, Execution
    <3>2. Of(ran, "train", Count + 1) = {}
      BY <1>4, <3>1 DEF Of
    <3>3. Shows(ran, "train", Count + 1, <<>>)
      BY <3>2 DEF Shows
    <3>4. On(ran, "train", Count + 1, Tree')
      BY <3>2 DEF On
    <3>6. /\ Count' > 0 /\ Cands'[Count'].status = "training"
          /\ Cands'[Count'].digest = ev.proposed
      BY <1>3, <1>4, <2>3
    <3>7. Allowed(ev.proposed)
      BY <1>2 DEF Trained
    <3>8. Allowed(Cands[Count].digest)'
      BY <3>6, <3>7 DEF Allowed
    <3> QED BY <1>2, <2>2, <2>3, <3>3, <3>4, <3>6, <3>8 DEF Underway
  <2>5. Based'
    BY <1>2, <1>4, <2>2 DEF Based
  <2>6. Trained'
    <3>1. ASSUME NEW c \in 1 .. Count + 1, rec.cands[c].status = "train_accepted"
          PROVE  Excels(c)'
      <4>1. c \in 1 .. Count
        BY <1>3, <1>4, <3>1
      <4>2. Excels(c)
        BY <1>2, <1>4, <3>1, <4>1 DEF Trained, Cands
      <4> QED BY <1>2, <1>4, <2>2, <4>1, <4>2, EvExcelsKept
    <3>2. /\ \A i \in DOMAIN ran : ran[i].cand <= Count + 1
          /\ ev.best \in 0 .. Count + 1
          /\ ev.best # 0 => rec.cands[ev.best].status = "train_accepted"
          /\ Count + 1 <= Len(patch')
      <4>1. /\ \A i \in DOMAIN ran : ran[i].cand <= Count
            /\ ev.best \in 0 .. Count
            /\ ev.best # 0 => ev.rec.cands[ev.best].status = "train_accepted"
            /\ Count < Len(patch)
        BY <1>2 DEF Trained, Cands
      <4>2. \A i \in DOMAIN ran : ran[i].cand \in Nat
        <5>1. ran \in Seq(Execution)
          BY DEF Kept
        <5>2. \A i \in DOMAIN ran : ran[i] \in Execution
          BY <5>1
        <5> QED BY <5>2 DEF Execution
      <4>3. Len(patch) \in Nat
        BY DEF Kept
      <4> QED BY <1>2, <1>4, <4>1, <4>2, <4>3
    <3> QED BY <1>2, <2>2, <2>3, <3>1, <3>2 DEF Trained
  <2> QED BY <2>2, <2>4, <2>5, <2>6
<1> QED BY <1>9, <1>10

\* The run ends, or its process dies.
LEMMA EvFinish ==
  ASSUME EvoInv, Contract, Finish \/ EvolverCrash PROVE EvoInv'
<1>1. /\ UNCHANGED <<tree, patch, valid, ran, ptr, op, look, launched>>
      /\ ev' = [ev EXCEPT !.pc = "over"] /\ ev.pc # "over"
      /\ disk' = disk \/ \E ok \in BOOLEAN : Wrote(ok, disk, ev.rec)
  BY DEF Finish, EvolverCrash, pointer, At
<1>2. disk' = disk \/ disk' = ev.rec
  BY <1>1, EvWrote
<1>3. /\ ev'.rec = ev.rec /\ ev.rec \in Record /\ ev'.stage = ev.stage /\ tree' \in Contents
      /\ ev' \in [pc : {"over"}, rec : Record, stage : Stages, results : Seq(BOOLEAN), best : Nat,
                  proposed : Patches \cup {"none"}]
  BY <1>1 DEF EvoInv, Kept
<1>4. Live \/ ev.pc = "finish"
  BY <1>1 DEF Live
<1>5. PICK rec : rec = ev.rec
  OBVIOUS
<1>6. /\ disk' = disk \/ disk' = rec
      /\ rec \in Record /\ ev'.rec = rec
  BY <1>2, <1>3, <1>5
<1> QED BY <1>1, <1>3, <1>4, <1>5, <1>6, EvRested

\* A candidate is judged after its training: it is accepted for what was executed
\* on what was proposed.
LEMMA EvJudges ==
  ASSUME EvoInv, Contract, ev.pc = "meter", ev.stage = "train",
         NEW status \in {"train_accepted", "rejected"},
         NEW rec, rec = WithResults(ev.rec, ev.results, status),
         status = "train_accepted" => /\ tree = Cands[Count].digest
                                      /\ Improves(ev.rec.baseline, ev.results),
         NEW best, best = ev.best \/ (best = Count /\ status = "train_accepted"),
         disk' = disk \/ disk' = rec,
         ev' = [ev EXCEPT !.pc = "propose", !.rec = rec, !.best = best],
         UNCHANGED <<tree, patch, valid, ran, ptr, op, look, launched>>
  PROVE  EvoInv'
<1>1. /\ Live /\ Measuring /\ ev.results \in Seq(BOOLEAN) /\ status \in Judged
      /\ ev.best \in Nat /\ ev.proposed \in Patches \cup {"none"}
      /\ patch' \in Seq(Contents) /\ tree' \in Contents /\ valid' \in [Runs -> Contents]
  BY DEF Live, Measuring, EvoInv, Kept, Judged
<1>2. /\ rec \in Record
      /\ rec.status = ev.rec.status /\ rec.runs = ev.rec.runs
      /\ rec.selected = ev.rec.selected /\ rec.baseline = ev.rec.baseline
      /\ Len(rec.cands) = Count
      /\ \A c \in 1 .. Count : c # Count => rec.cands[c] = Cands[c]
      /\ rec.cands[Count].status = status
      /\ rec.cands[Count].digest = Cands[Count].digest
      /\ rec.cands[Count].train = ev.results
  BY <1>1, EvResults
<1>3. /\ Count > 0 /\ Cands[Count].status = "training" /\ Count \in Nat
      /\ Allowed(Cands[Count].digest)
      /\ Shows(ran, "train", Count, ev.results)
      /\ tree = "spoiled" \/ On(ran, "train", Count, tree)
  <2>1. ev.rec.cands \in Seq(Entry)
    BY DEF EvoInv, Kept, Record
  <2> QED BY <1>1, <2>1 DEF EvoInv, Underway, Tree, Count, Cands
<1>4. /\ ev.best \in 0 .. Count
      /\ ev.best # 0 => Cands[ev.best].status = "train_accepted"
      /\ Count <= Len(patch)
      /\ \A i \in DOMAIN ran : ran[i].cand <= Count
  BY <1>1 DEF EvoInv, Trained
<1>5. /\ best \in Nat /\ best \in 0 .. Count
      /\ best # 0 => rec.cands[best].status = "train_accepted"
  <2>1. ev.best # Count
    BY <1>3, <1>4
  <2> QED BY <1>2, <1>3, <1>4, <2>1
<1>6. rec.status # "candidate_ready" /\ ev.rec.runs <= rec.runs /\ rec.runs <= MaxVerifierRuns
  BY <1>1, <1>2 DEF EvoInv, Proven, Metered, Record
<1>7. PICK pc, stage : pc = "propose" /\ stage = "train"
  OBVIOUS
<1>8. /\ ev' = Now(pc, rec, stage, ev.results, best, ev.proposed)
      /\ pc \in {"meter", "verify", "propose", "train", "apply"} /\ stage \in Stages
      /\ pc # "verify" /\ stage # "holdout" /\ pc # "apply" /\ ev.stage # "holdout"
  BY <1>7 DEF EvoInv, Kept, Now, Stages
<1>9. /\ Kept' /\ Chosen' /\ InOrder' /\ Metered' /\ Proven' /\ Pointed' /\ Given'
      /\ ev'.pc = pc /\ ev'.rec = rec /\ ev'.stage = stage /\ ev'.best = best
  BY <1>1, <1>2, <1>5, <1>6, <1>8, EvGoes
<1>10. Count' = Count /\ Cands' = rec.cands
  BY <1>2, <1>9 DEF Count, Cands
<1>11. Underway'
  BY <1>7, <1>9 DEF Underway, Measuring
<1>12. Based'
  BY <1>1, <1>2, <1>9 DEF EvoInv, Based
<1>13. Trained'
  <2>1. ASSUME NEW c \in 1 .. Count, rec.cands[c].status = "train_accepted", c # Count
        PROVE  Excels(c)'
    <3>1. Excels(c)
      BY <1>1, <1>2, <2>1 DEF EvoInv, Trained
    <3>2. ev'.rec.cands[c] = ev.rec.cands[c] /\ ev'.rec.baseline = ev.rec.baseline
      BY <1>2, <1>9, <2>1 DEF Cands
    <3> QED BY <3>1, <3>2, EvExcelsKept
  <2>2. ASSUME rec.cands[Count].status = "train_accepted"
        PROVE  Excels(Count)'
    <3> DEFINE n == Count
    <3>1. tree = Cands[n].digest /\ Improves(ev.rec.baseline, ev.results)
      BY <1>2, <2>2
    <3>2. tree # "spoiled"
      BY <1>3, <3>1 DEF Allowed, Contract
    <3>3. On(ran, "train", n, Cands[n].digest)
      BY <1>3, <3>1, <3>2
    <3>4. PICK m : m = n
      OBVIOUS
    <3>5. /\ ev'.rec.cands[m].digest = Cands[n].digest
          /\ ev'.rec.cands[m].train = ev.results /\ ev'.rec.baseline = ev.rec.baseline
      BY <1>2, <1>9, <3>4
    <3>6. PICK d, t, b : d = Cands[n].digest /\ t = ev.results /\ b = ev.rec.baseline
      OBVIOUS
    <3>7. /\ Allowed(d) /\ Shows(ran, "train", m, t) /\ On(ran, "train", m, d)
          /\ Improves(b, t)
      BY <1>3, <3>1, <3>3, <3>4, <3>6
    <3>8. Excels(m)'
      BY <3>5, <3>6, <3>7 DEF Excels, Cands, Allowed, Improves, PassCount
    <3>9. m = n'
      BY <1>10, <3>4
    <3> QED BY <3>8, <3>9
  <2>3. \A c \in 1 .. Count : rec.cands[c].status = "train_accepted" => Excels(c)'
    <3>1. ASSUME NEW c \in 1 .. Count, rec.cands[c].status = "train_accepted"
          PROVE  Excels(c)'
      <4>1. CASE c # Count
        BY <2>1, <3>1, <4>1
      <4>2. CASE c = Count
        <5>1. c = Count'
          BY <1>10, <4>2
        <5> QED BY <2>2, <3>1, <4>2, <5>1
      <4> QED BY <4>1, <4>2
    <3> QED BY <3>1
  <2>4. ev'.pc # "train" /\ ev'.stage # "baseline" /\ ev'.best = best
    BY <1>7, <1>9
  <2>5. /\ best \in 0 .. Count
        /\ best # 0 => rec.cands[best].status = "train_accepted"
    BY <1>5
  <2> QED BY <1>4, <1>10, <2>3, <2>4, <2>5 DEF Trained
<1> QED BY <1>9, <1>11, <1>12, <1>13 DEF EvoInv

\* The train cases were executed: the candidate is judged.
LEMMA EvTrainDone ==
  ASSUME EvoInv, Contract, TrainDone PROVE EvoInv'
<1> DEFINE good == /\ Intact(tree, Cands[Count].digest)
                   /\ Improves(ev.rec.baseline, ev.results)
<1>a. PICK status : status = IF good THEN "train_accepted" ELSE "rejected"
  OBVIOUS
<1>b. PICK rec : rec = WithResults(ev.rec, ev.results, status)
  OBVIOUS
<1>c. PICK best : best = IF good /\ (ev.best = 0 \/ PassCount(ev.results)
                                       > PassCount(Cands[ev.best].train))
                         THEN Count ELSE ev.best
  OBVIOUS
<1>1. PICK ok \in BOOLEAN :
        /\ Wrote(ok, disk, rec)
        /\ IF ok THEN ev' = [ev EXCEPT !.pc = "propose", !.rec = rec, !.best = best]
           ELSE Fails(rec)
  BY <1>a, <1>b, <1>c DEF TrainDone
<1>2. /\ UNCHANGED <<tree, patch, valid, ran, ptr, op, look, launched>>
      /\ ev.pc = "meter" /\ ev.stage = "train" /\ Live /\ Measuring
  BY DEF TrainDone, pointer, Evaluated, At, Live, Measuring
<1>3. /\ status \in {"train_accepted", "rejected"}
      /\ status = "train_accepted" => /\ tree = Cands[Count].digest
                                      /\ Improves(ev.rec.baseline, ev.results)
      /\ best = ev.best \/ (best = Count /\ status = "train_accepted")
  BY <1>a, <1>c DEF Intact
<1> HIDE DEF good
<1>4. disk' = disk \/ disk' = rec
  BY <1>1, EvWrote
<1>5. CASE ok
  <2>1. ev' = [ev EXCEPT !.pc = "propose", !.rec = rec, !.best = best]
    BY <1>1, <1>5
  <2> QED BY <1>b, <1>2, <1>3, <1>4, <2>1, EvJudges
<1>6. CASE ~ok
  <2>1. Fails(rec)
    BY <1>1, <1>6
  <2>2. ev'.stage = ev.stage
    BY <2>1 DEF Fails, Ends, EvoInv, Kept
  <2>3. /\ ran' \in Seq(Execution) /\ InOrder'
        /\ Len(ran') <= ev.rec.runs /\ Len(ran') <= disk.runs
    BY <1>2, <2>2, EvSameOrder
  <2>4. ev.results \in Seq(BOOLEAN) /\ status \in Judged
    BY <1>3 DEF EvoInv, Kept, Judged
  <2>5. rec \in Record /\ rec.status = ev.rec.status /\ rec.runs = ev.rec.runs
    BY <1>b, <1>2, <2>4, EvResults
  <2>6. rec.status # "candidate_ready" /\ ev.rec.runs <= rec.runs /\ rec.runs <= MaxVerifierRuns
    BY <1>2, <2>5 DEF EvoInv, Proven, Metered, Record
  <2>7. /\ tree' \in Contents /\ patch' \in Seq(Contents)
        /\ ev.pc \notin {"idle", "finish", "over"} /\ ev.stage # "holdout"
    BY <1>2 DEF EvoInv, Kept
  <2> QED BY <1>2, <1>4, <2>1, <2>3, <2>5, <2>6, <2>7, EvFails
<1> QED BY <1>5, <1>6

\* The best in training is fixed; without one the run ends.
LEMMA EvSelect ==
  ASSUME EvoInv, Contract, Select PROVE EvoInv'
<1>1. /\ UNCHANGED <<tree, patch, valid, ran, ptr, op, look, launched>>
      /\ ev.pc = "propose" /\ Live
  BY DEF Select, pointer, At, Live
<1>2. /\ ev.rec \in Record /\ ev.rec.status # "candidate_ready" /\ ev.rec.runs \in Nat
      /\ ev.rec.runs <= MaxVerifierRuns /\ ev.stage # "holdout"
      /\ tree' \in Contents /\ patch' \in Seq(Contents) /\ valid' \in [Runs -> Contents]
      /\ ev.best \in Nat /\ ev.results \in Seq(BOOLEAN) /\ ev.stage \in Stages
      /\ ev.proposed \in Patches \cup {"none"}
  <2>1. /\ ev.rec \in Record /\ ev.rec.status # "candidate_ready" /\ ev.stage # "holdout"
        /\ tree' \in Contents /\ patch' \in Seq(Contents) /\ valid' \in [Runs -> Contents]
        /\ ev.best \in Nat /\ ev.results \in Seq(BOOLEAN) /\ ev.stage \in Stages
        /\ ev.proposed \in Patches \cup {"none"}
    BY <1>1 DEF EvoInv, Kept, Proven, Chosen
  <2> QED BY <2>1 DEF Record, EvoInv, Metered
<1>3. CASE ev.best = 0
  <2>a. PICK rec : rec = [ev.rec EXCEPT !.status = "rejected"]
    OBVIOUS
  <2>1. ev' = [ev EXCEPT !.pc = "finish", !.rec = rec] /\ disk' = disk
    BY <1>3, <2>a DEF Select, Ends
  <2>2. rec \in Record /\ rec.status # "candidate_ready" /\ rec.runs = ev.rec.runs
    BY <1>2, <2>a DEF Record
  <2>3. ev'.stage = ev.stage
    BY <2>1 DEF EvoInv, Kept
  <2>4. /\ ran' \in Seq(Execution) /\ InOrder'
        /\ Len(ran') <= ev.rec.runs /\ Len(ran') <= disk.runs
    BY <1>1, <2>3, EvSameOrder
  <2>5. ev.rec.runs <= rec.runs /\ rec.runs <= MaxVerifierRuns /\ rec.runs \in Nat
    BY <1>2, <2>2
  <2>6. ev.pc \notin {"idle", "finish", "over"}
    BY <1>1
  <2> QED BY <1>1, <1>2, <2>1, <2>2, <2>4, <2>5, <2>6, EvEnds
<1>4. CASE ev.best # 0
  <2>a. PICK rec : rec = [ev.rec EXCEPT !.selected = ev.best, !.status = "validating"]
    OBVIOUS
  <2>1. PICK ok \in BOOLEAN :
          /\ Wrote(ok, disk, rec)
          /\ IF ok THEN ev' = [ev EXCEPT !.pc = "apply", !.rec = rec] ELSE Fails(rec)
    BY <1>4, <2>a DEF Select, Saves
  <2>2. /\ rec \in Record /\ rec.status # "candidate_ready" /\ rec.runs = ev.rec.runs
        /\ rec.selected = ev.best /\ rec.cands = ev.rec.cands /\ rec.baseline = ev.rec.baseline
    BY <1>2, <2>a DEF Record
  <2>3. ev.rec.runs <= rec.runs /\ rec.runs <= MaxVerifierRuns
    BY <1>2, <2>2
  <2>4. disk' = disk \/ disk' = rec
    BY <2>1, EvWrote
  <2>5. CASE ~ok
    <3>1. Fails(rec)
      BY <2>1, <2>5
    <3>2. ev'.stage = ev.stage
      BY <3>1 DEF Fails, Ends, EvoInv, Kept
    <3>3. /\ ran' \in Seq(Execution) /\ InOrder'
          /\ Len(ran') <= ev.rec.runs /\ Len(ran') <= disk.runs
      BY <1>1, <3>2, EvSameOrder
    <3>4. ev.pc \notin {"idle", "finish", "over"}
      BY <1>1
    <3> QED BY <1>1, <1>2, <2>2, <2>3, <2>4, <3>1, <3>3, <3>4, EvFails
  <2>6. CASE ok
    <3>1. PICK pc : pc = "apply"
      OBVIOUS
    <3>2. /\ ev' = Now(pc, rec, ev.stage, ev.results, ev.best, ev.proposed)
          /\ pc \in {"meter", "verify", "propose", "train", "apply"} /\ pc # "verify"
      BY <2>1, <2>6, <3>1 DEF EvoInv, Kept, Now
    <3>3. disk'.selected # 0
      BY <1>4, <2>1, <2>2, <2>6, EvWrote
    <3>4. /\ Kept' /\ Chosen' /\ InOrder' /\ Metered' /\ Proven' /\ Pointed' /\ Given'
          /\ ev'.pc = pc /\ ev'.rec = rec /\ ev'.stage = ev.stage /\ ev'.best = ev.best
      BY <1>1, <1>2, <1>4, <2>2, <2>3, <2>4, <3>2, <3>3, EvGoes
    <3>5. Count' = Count /\ Cands' = Cands
      BY <2>2, <3>4 DEF Count, Cands
    <3>6. Underway'
      BY <3>1, <3>4 DEF Underway, Measuring
    <3>7. Based'
      BY <1>1, <2>2, <3>4 DEF EvoInv, Based
    <3>8. Trained'
      <4>1. ASSUME NEW c \in 1 .. Count, Cands[c].status = "train_accepted"
            PROVE  Excels(c)'
        <5>1. Excels(c)
          BY <1>1, <4>1 DEF EvoInv, Trained
        <5> QED BY <1>1, <2>2, <3>4, <5>1, EvExcelsKept
      <4>2. ev'.pc \notin {"train", "idle", "meter", "verify"}
        BY <3>1, <3>4
      <4> QED BY <1>1, <3>4, <3>5, <4>1, <4>2 DEF EvoInv, Trained
    <3> QED BY <3>4, <3>6, <3>7, <3>8 DEF EvoInv
  <2> QED BY <2>5, <2>6
<1> QED BY <1>3, <1>4

\* The chosen patch is applied for the held-out cases: none was executed before.
LEMMA EvApply ==
  ASSUME EvoInv, Contract, Apply PROVE EvoInv'
<1>1. /\ UNCHANGED <<disk, tree, patch, ran, ptr, op, look, launched>>
      /\ valid' = [valid EXCEPT ![This] = patch[ev.best]]
      /\ ev.pc = "apply" /\ Live
      /\ ev' = [[ev EXCEPT !.stage = "holdout", !.results = <<>>] EXCEPT !.pc = "meter"]
  BY DEF Apply, pointer, At, Live, Evaluates
<1>2. /\ ev.rec \in Record /\ ev.rec.status # "candidate_ready" /\ ev.stage # "holdout"
      /\ tree' \in Contents /\ patch \in Seq(Contents) /\ valid \in [Runs -> Contents]
      /\ ev.best \in Nat /\ ev.proposed \in Patches \cup {"none"}
      /\ DOMAIN ev = {"pc", "rec", "stage", "results", "best", "proposed"}
  BY <1>1 DEF EvoInv, Kept, Proven, Chosen
<1>3. /\ ev.best # 0 /\ ev.rec.selected = ev.best /\ disk.selected # 0
      /\ ev.best <= Count /\ Count <= Len(patch)
  BY <1>1 DEF EvoInv, Chosen, Trained
<1>4. /\ valid' \in [Runs -> Contents]
      /\ \A r \in Earlier : valid'[r] = valid[r]
  <2>1. patch[ev.best] \in Contents
    <3>1. Count \in Nat /\ Len(patch) \in Nat
      BY <1>2 DEF Record, Count, Cands
    <3>2. ev.best \in 1 .. Len(patch)
      BY <1>2, <1>3, <3>1
    <3> QED BY <1>2, <3>2
  <2> QED BY <1>1, <1>2, <2>1 DEF Contract, Runs
<1>5. PICK pc, stage, results : pc = "meter" /\ stage = "holdout" /\ results = <<>>
  OBVIOUS
<1>6. ev' = Now(pc, ev.rec, stage, results, ev.best, ev.proposed)
  <2> DEFINE old == [ev EXCEPT !.stage = "holdout", !.results = <<>>]
  <2>1. /\ DOMAIN old = {"pc", "rec", "stage", "results", "best", "proposed"}
        /\ old.stage = "holdout" /\ old.results = <<>> /\ old.best = ev.best
        /\ old.proposed = ev.proposed /\ old.rec = ev.rec
    BY <1>2
  <2>2. ev' = [old EXCEPT !.pc = "meter"]
    BY <1>1
  <2> HIDE DEF old
  <2> QED BY <1>5, <2>1, <2>2 DEF Now
<1>7. /\ pc \in {"meter", "verify", "propose", "train", "apply"} /\ stage \in Stages
      /\ results \in Seq(BOOLEAN) /\ pc # "verify" /\ pc # "apply"
      /\ stage = "holdout" => pc \in {"meter", "verify"}
  BY <1>5 DEF Stages
<1>8. ev.rec.runs <= ev.rec.runs /\ ev.rec.runs <= MaxVerifierRuns
  BY <1>2 DEF EvoInv, Metered, Record
<1>9. /\ Kept' /\ Chosen' /\ InOrder' /\ Metered' /\ Proven' /\ Pointed' /\ Given'
      /\ ev'.pc = pc /\ ev'.rec = ev.rec /\ ev'.stage = stage /\ ev'.best = ev.best
      /\ ev'.results = results
  BY <1>1, <1>2, <1>3, <1>4, <1>6, <1>7, <1>8, EvGoes
<1>10. Count' = Count /\ Cands' = Cands
  BY <1>9 DEF Count, Cands
<1>11. Underway'
  <2>1. Of(ran, "holdout", Count) = {}
    BY <1>2 DEF EvoInv, InOrder, Of
  <2>2. Shows(ran, "holdout", Count, <<>>) /\ On(ran, "holdout", Count, Tree')
    BY <2>1 DEF Shows, On
  <2> QED BY <1>1, <1>5, <1>9, <1>10, <2>2 DEF Underway
<1>12. Based'
  BY <1>1, <1>9 DEF EvoInv, Based
<1>13. Trained'
  <2>1. ASSUME NEW c \in 1 .. Count, Cands[c].status = "train_accepted"
        PROVE  Excels(c)'
    <3>1. Excels(c)
      BY <1>1, <2>1 DEF EvoInv, Trained
    <3> QED BY <1>1, <1>9, <3>1, EvExcelsKept
  <2>2. ev'.pc # "train" /\ ev'.stage # "baseline"
    BY <1>5, <1>9
  <2> QED BY <1>1, <1>9, <1>10, <2>1, <2>2 DEF EvoInv, Trained
<1> QED BY <1>9, <1>11, <1>12, <1>13 DEF EvoInv

\* What an evaluation shows, said of the positions of its executions.
LEMMA EvPassed ==
  ASSUME NEW results \in Seq(BOOLEAN), NEW s, NEW c, Shows(ran, s, c, results)
  PROVE  /\ {ran[i].case : i \in Executions(s, c)} = 1 .. Len(results)
         /\ \A i, j \in Executions(s, c) : ran[i].case = ran[j].case => i = j
         /\ Passed(Executions(s, c)) = {k \in 1 .. Len(results) : results[k]}
<1>1. Executions(s, c) = Of(ran, s, c)
  BY DEF Executions, Of
<1> DEFINE E == Of(ran, s, c)
<1>2. /\ \A i \in E : ran[i].case \in DOMAIN results /\ ran[i].ok = results[ran[i].case]
      /\ \A i, j \in E : ran[i].case = ran[j].case => i = j
      /\ \A k \in DOMAIN results : \E i \in E : ran[i].case = k
  BY Zenon DEF Shows
<1>3. DOMAIN results = 1 .. Len(results) /\ \A k \in DOMAIN results : results[k] \in BOOLEAN
  OBVIOUS
<1> HIDE DEF E
<1>4. {ran[i].case : i \in E} = 1 .. Len(results)
  BY <1>2, <1>3
<1>5. Passed(E) = {k \in 1 .. Len(results) : results[k]}
  <2>1. ASSUME NEW k \in Passed(E) PROVE k \in 1 .. Len(results) /\ results[k]
    <3>1. PICK i \in E : ran[i].ok /\ ran[i].case = k
      BY DEF Passed
    <3>2. k \in DOMAIN results /\ ran[i].ok = results[k]
      BY <1>2, <3>1
    <3> QED BY <1>3, <3>1, <3>2
  <2>2. ASSUME NEW k \in 1 .. Len(results), results[k] PROVE k \in Passed(E)
    <3>1. PICK i \in E : ran[i].case = k
      BY <1>2, <1>3
    <3>2. ran[i].ok = results[k]
      BY <1>2, <3>1
    <3>3. ran[i].ok
      BY <2>2, <3>2
    <3> QED BY <3>1, <3>3 DEF Passed
  <2> QED BY <2>1, <2>2
<1> QED BY <1>1, <1>2, <1>4, <1>5 DEF E

\* A strictly larger count of passes, with no pass lost, is a strictly larger set.
LEMMA EvImproves ==
  ASSUME NEW b \in Seq(BOOLEAN), NEW t \in Seq(BOOLEAN), Improves(b, t)
  PROVE  /\ Len(b) = Len(t)
         /\ {k \in 1 .. Len(b) : b[k]} \subseteq {k \in 1 .. Len(t) : t[k]}
         /\ {k \in 1 .. Len(b) : b[k]} # {k \in 1 .. Len(t) : t[k]}
<1>1. Len(b) = Len(t) /\ \A i \in DOMAIN b : b[i] => t[i]
  BY DEF Improves
<1>2. DOMAIN b = 1 .. Len(b) /\ DOMAIN t = 1 .. Len(t) /\ Len(b) \in Nat /\ Len(t) \in Nat
  OBVIOUS
<1> DEFINE P(r) == {k \in 1 .. Len(r) : r[k]}
<1>3. PassCount(b) = Cardinality(P(b)) /\ PassCount(t) = Cardinality(P(t))
  <2> DEFINE Q(r) == {i \in DOMAIN r : r[i]}
  <2>1. Q(b) = P(b) /\ Q(t) = P(t)
    BY <1>2
  <2>2. PassCount(b) = Cardinality(Q(b)) /\ PassCount(t) = Cardinality(Q(t))
    BY DEF PassCount
  <2> HIDE DEF P, Q
  <2> QED BY <2>1, <2>2
<1>4. Cardinality(P(b)) \in Nat /\ Cardinality(P(t)) \in Nat
  <2>1. \A n \in Nat : IsFiniteSet(1 .. n)
    BY FS_Interval
  <2>2. P(b) \in SUBSET (1 .. Len(b)) /\ P(t) \in SUBSET (1 .. Len(t))
    OBVIOUS
  <2>3. IsFiniteSet(P(b)) /\ IsFiniteSet(P(t))
    BY <1>2, <2>1, <2>2, FS_Subset
  <2> QED BY <2>3, FS_CardinalityType
<1>5. Cardinality(P(t)) > Cardinality(P(b))
  BY <1>3 DEF Improves
<1>6. Cardinality(P(t)) # Cardinality(P(b))
  BY <1>4, <1>5
<1>7. P(b) # P(t)
  BY <1>6
<1>8. P(b) \subseteq P(t)
  BY <1>1, <1>2
<1> QED BY <1>1, <1>7, <1>8

\* As many passes as cases are all of them.
LEMMA EvAllPass ==
  ASSUME NEW r \in Seq(BOOLEAN), PassCount(r) = Len(r)
  PROVE  {k \in 1 .. Len(r) : r[k]} = 1 .. Len(r)
<1> DEFINE P == {k \in 1 .. Len(r) : r[k]}
<1>1. DOMAIN r = 1 .. Len(r) /\ Len(r) \in Nat
  OBVIOUS
<1>2. IsFiniteSet(1 .. Len(r)) /\ Cardinality(1 .. Len(r)) = Len(r)
  <2>1. PICK n \in Nat : n = Len(r)
    BY <1>1
  <2>4. 1 \in Int /\ n \in Int
    OBVIOUS
  <2>2. IsFiniteSet(1 .. n) /\ Cardinality(1 .. n) = IF 1 > n THEN 0 ELSE n - 1 + 1
    BY <2>4, FS_Interval, Zenon
  <2>3. (IF 1 > n THEN 0 ELSE n - 1 + 1) = n
    OBVIOUS
  <2> QED BY <2>1, <2>2, <2>3
<1>3. P \in SUBSET (1 .. Len(r))
  OBVIOUS
<1>4. Cardinality(P) = Cardinality(1 .. Len(r))
  <2> DEFINE Q == {i \in DOMAIN r : r[i]}
  <2>1. Q = P
    BY <1>1
  <2>2. PassCount(r) = Cardinality(Q)
    BY DEF PassCount
  <2> HIDE DEF P, Q
  <2> QED BY <1>2, <2>1, <2>2
<1> HIDE DEF P
<1>5. P = 1 .. Len(r)
  BY <1>2, <1>3, <1>4, FS_Subset
<1> QED BY <1>5 DEF P

\* A candidate that passes the held-out cases, untouched, was tested.
LEMMA EvTested ==
  ASSUME EvoInv, Contract, ev.pc = "meter", ev.stage = "holdout",
         Len(ev.results) = HoldoutCases, PassCount(ev.results) = HoldoutCases,
         valid[This] = Cands[ev.best].digest
  PROVE  Tested(ev.best, Cands[ev.best].digest)
<1> DEFINE b == ev.best
           d == Cands[b].digest
           base == ev.rec.baseline
           t == Cands[b].train
<1>1. Live /\ Measuring
  BY DEF Live, Measuring
<1>2. /\ ev.results \in Seq(BOOLEAN) /\ base \in Seq(BOOLEAN) /\ ev.rec.cands \in Seq(Entry)
      /\ b \in Nat
  BY DEF EvoInv, Kept, Record
<1>3. b # 0 /\ b \in 1 .. Count /\ Cands[b].status = "train_accepted"
  BY <1>1, <1>2 DEF EvoInv, Chosen, Trained, Count, Cands
<1>4. t \in Seq(BOOLEAN)
  <2>1. Cands[b] \in Entry
    BY <1>2, <1>3 DEF Count, Cands
  <2> QED BY <2>1 DEF Entry
<1>5. Excels(b)
  BY <1>1, <1>3 DEF EvoInv, Trained
<1>6. /\ Allowed(d) /\ Shows(ran, "train", b, t) /\ On(ran, "train", b, d)
      /\ Improves(base, t)
  BY <1>5 DEF Excels
<1>7. /\ Len(base) = TrainCases /\ Shows(ran, "baseline", 0, base) /\ On(ran, "baseline", 0, "base")
  BY <1>1 DEF EvoInv, Based
<1>8. /\ Shows(ran, "holdout", Count, ev.results) /\ On(ran, "holdout", Count, d)
  <2>1. d # "spoiled"
    BY <1>6 DEF Allowed, Contract
  <2> QED BY <1>1, <2>1 DEF EvoInv, Underway, Tree
<1>9. \A s, c : Executions(s, c) = Of(ran, s, c)
  BY DEF Executions, Of
<1>10. Executions("holdout", b) = Executions("holdout", Count)
  BY DEF Executions
<1> HIDE DEF b, d, base, t
<1>11. Measured(Executions("baseline", 0), "base", TrainCases)
  BY <1>2, <1>7, <1>9, EvPassed DEF Measured, On
<1>12. Measured(Executions("train", b), d, TrainCases)
  <2>1. Len(t) = TrainCases
    BY <1>6, <1>7 DEF Improves
  <2> QED BY <1>4, <1>6, <1>9, <2>1, EvPassed DEF Measured, On
<1>13. Measured(Executions("holdout", b), d, HoldoutCases)
  BY <1>2, <1>8, <1>9, <1>10, EvPassed DEF Measured, On
<1>14. /\ Passed(Executions("baseline", 0)) \subseteq Passed(Executions("train", b))
       /\ Passed(Executions("baseline", 0)) # Passed(Executions("train", b))
  <2>1. /\ Passed(Executions("baseline", 0)) = {k \in 1 .. Len(base) : base[k]}
        /\ Passed(Executions("train", b)) = {k \in 1 .. Len(t) : t[k]}
    BY <1>2, <1>4, <1>6, <1>7, EvPassed
  <2> QED BY <1>2, <1>4, <1>6, <2>1, EvImproves, Zenon
<1>15. Passed(Executions("holdout", b)) = 1 .. HoldoutCases
  <2>1. Passed(Executions("holdout", b)) = {k \in 1 .. Len(ev.results) : ev.results[k]}
    BY <1>2, <1>8, <1>10, EvPassed
  <2> QED BY <1>2, <2>1, EvAllPass, Zenon
<1>16. Tested(b, d)
  BY <1>6, <1>11, <1>12, <1>13, <1>14, <1>15, Zenon DEF Tested
<1> QED BY <1>16 DEF b, d

\* The held-out cases were executed: the candidate passed them all and is what was
\* proposed still, or the run ends without one.
LEMMA EvHoldoutDone ==
  ASSUME EvoInv, Contract, HoldoutDone PROVE EvoInv'
<1> DEFINE good == /\ Intact(valid[This], Cands[ev.best].digest)
                   /\ PassCount(ev.results) = HoldoutCases
<1>a. PICK mark, status : mark = "" /\ status = IF good THEN "candidate_ready" ELSE "rejected"
  OBVIOUS
<1>b. PICK rec : rec = WithResults(ev.rec, ev.results, mark)
  OBVIOUS
<1>c. PICK last : last = [rec EXCEPT !.status = status]
  OBVIOUS
<1>1. /\ UNCHANGED <<disk, tree, patch, valid, ptr, op, look, launched>> /\ ran' = ran
      /\ ev.pc = "meter" /\ ev.stage = "holdout" /\ Len(ev.results) = Cases
      /\ ev' = [ev EXCEPT !.pc = "finish", !.rec = last]
  BY <1>a, <1>b, <1>c DEF HoldoutDone, pointer, Evaluated, At, Ends
<1>2. /\ status \in {"candidate_ready", "rejected"}
      /\ status = "candidate_ready" => /\ valid[This] = Cands[ev.best].digest
                                       /\ PassCount(ev.results) = HoldoutCases
  BY <1>a DEF Intact
<1> HIDE DEF good
<1>3. Live /\ Measuring /\ ev.results \in Seq(BOOLEAN) /\ Len(ev.results) = HoldoutCases
  BY <1>1 DEF Live, Measuring, EvoInv, Kept, Cases
<1>4. /\ rec \in Record /\ rec.runs = ev.rec.runs /\ rec.selected = ev.rec.selected
      /\ Len(rec.cands) = Count /\ \A c \in 1 .. Count : rec.cands[c] = Cands[c]
  <2>1. ev.stage # "train"
    BY <1>1
  <2> QED BY <1>b, <1>3, <2>1, EvResults
<1>5. /\ last \in Record /\ last.status = status /\ last.runs = ev.rec.runs
      /\ last.selected = ev.rec.selected /\ last.cands = rec.cands
  BY <1>2, <1>4, <1>c DEF Record
<1>6. /\ ev.best # 0 /\ ev.rec.selected = ev.best /\ ev.best \in 1 .. Count
  <2>1. ev.best # 0 /\ ev.rec.selected = ev.best
    BY <1>1, <1>3 DEF EvoInv, Chosen
  <2>2. ev.best \in 0 .. Count
    BY <1>3 DEF EvoInv, Trained
  <2> QED BY <2>1, <2>2
<1>7. last.status = "candidate_ready" =>
        Tested(last.selected, last.cands[last.selected].digest)'
  <2>1. ASSUME last.status = "candidate_ready"
        PROVE  Tested(last.selected, last.cands[last.selected].digest)'
    <3>1. PICK c, d : c = last.selected /\ d = last.cands[last.selected].digest
      OBVIOUS
    <3>2. c = ev.best /\ d = Cands[ev.best].digest
      BY <1>4, <1>5, <1>6, <3>1
    <3>3. Tested(ev.best, Cands[ev.best].digest)
      BY <1>1, <1>2, <1>3, <1>5, <2>1, EvTested
    <3>4. Tested(c, d)
      BY <3>2, <3>3
    <3>5. Tested(c, d)'
      BY <1>1, <3>4, EvTestedStays
    <3> QED BY <1>1, <3>1, <3>5
  <2> QED BY <2>1
<1>8. ev'.stage = ev.stage
  BY <1>1 DEF EvoInv, Kept
<1>9. /\ ran' \in Seq(Execution) /\ InOrder'
      /\ Len(ran') <= ev.rec.runs /\ Len(ran') <= disk.runs
  BY <1>1, <1>8, EvSameOrder
<1>10. /\ last.runs \in Nat /\ ev.rec.runs <= last.runs /\ last.runs <= MaxVerifierRuns
  BY <1>5 DEF EvoInv, Metered, Record
<1>11. /\ tree' \in Contents /\ patch' \in Seq(Contents)
       /\ ev.pc \notin {"idle", "finish", "over"} /\ last.selected # 0
  BY <1>1, <1>5, <1>6 DEF EvoInv, Kept
<1> QED BY <1>1, <1>5, <1>7, <1>9, <1>10, <1>11, EvEnds

\* What the verifiers left cannot be measured.
LEMMA EvUnmeasured ==
  ASSUME EvoInv, Contract, Unmeasured PROVE EvoInv'
<1>a. PICK status : status = "rejected"
  OBVIOUS
<1>b. PICK rec : rec = WithResults(ev.rec, ev.results, status)
  OBVIOUS
<1>1. /\ UNCHANGED <<tree, patch, valid, ptr, op, look, launched>> /\ ran' = ran
      /\ ev.pc = "meter" /\ ev.stage \in Stages /\ Measuring /\ Live
      /\ ev.results \in Seq(BOOLEAN)
  BY DEF Unmeasured, pointer, Evaluated, At, EvoInv, Kept, Measuring, Live
<1>2. /\ ev.stage = "baseline" => Fails(rec) /\ UNCHANGED disk
      /\ ev.stage = "train" => disk' = rec /\ ev' = [ev EXCEPT !.pc = "propose", !.rec = rec]
      /\ ev.stage = "holdout" => /\ ev' = [ev EXCEPT !.pc = "finish",
                                                     !.rec = [rec EXCEPT !.status = "rejected"]]
                                 /\ UNCHANGED disk
  BY <1>a, <1>b DEF Unmeasured, Ends
<1>3. /\ rec \in Record /\ rec.runs = ev.rec.runs /\ rec.selected = ev.rec.selected
      /\ rec.status = ev.rec.status
  <2>1. status \in Judged
    BY <1>a DEF Judged
  <2>2. ev.stage = "train" => status \in Judged /\ Measuring
    BY <1>1, <2>1
  <2> QED BY <1>1, <1>b, <2>2, EvResults
<1>4. ev.rec.status # "candidate_ready" /\ ev.rec.runs \in Nat /\ ev.rec.runs <= MaxVerifierRuns
  BY <1>1 DEF EvoInv, Proven, Metered, Kept, Record
<1>5. /\ tree' \in Contents /\ patch' \in Seq(Contents)
      /\ ev.pc \notin {"idle", "finish", "over"}
      /\ ev.stage = "holdout" => rec.selected # 0
  BY <1>1, <1>3 DEF EvoInv, Kept, Chosen
<1>6. CASE ev.stage = "baseline"
  <2>1. Fails(rec) /\ UNCHANGED disk /\ ev.stage # "holdout"
    BY <1>2, <1>6
  <2>2. ev'.stage = ev.stage
    BY <2>1 DEF Fails, Ends, EvoInv, Kept
  <2>3. /\ ran' \in Seq(Execution) /\ InOrder'
        /\ Len(ran') <= ev.rec.runs /\ Len(ran') <= disk.runs
    BY <1>1, <2>2, EvSameOrder
  <2>4. rec.status # "candidate_ready" /\ ev.rec.runs <= rec.runs /\ rec.runs <= MaxVerifierRuns
    BY <1>3, <1>4
  <2> QED BY <1>1, <1>3, <1>5, <2>1, <2>3, <2>4, EvFails
<1>7. CASE ev.stage = "train"
  <2>1. PICK best : best = ev.best
    OBVIOUS
  <2>2. ev' = [ev EXCEPT !.pc = "propose", !.rec = rec, !.best = best] /\ disk' = rec
    <3>1. ev' = [ev EXCEPT !.pc = "propose", !.rec = rec] /\ disk' = rec
      BY <1>2, <1>7
    <3>2. ev = [ev EXCEPT !.best = ev.best]
      BY DEF EvoInv, Kept
    <3> QED BY <2>1, <3>1, <3>2 DEF EvoInv, Kept
  <2>3. status \in {"train_accepted", "rejected"} /\ status # "train_accepted"
    BY <1>a
  <2> QED BY <1>1, <1>7, <1>b, <2>1, <2>2, <2>3, EvJudges
<1>8. CASE ev.stage = "holdout"
  <2>1. PICK last : last = [rec EXCEPT !.status = "rejected"]
    OBVIOUS
  <2>2. ev' = [ev EXCEPT !.pc = "finish", !.rec = last] /\ disk' = disk
    BY <1>2, <1>8, <2>1
  <2>3. /\ last \in Record /\ last.status # "candidate_ready" /\ last.runs = ev.rec.runs
        /\ last.selected = rec.selected
    BY <1>3, <2>1 DEF Record
  <2>4. ev'.stage = ev.stage
    BY <2>2 DEF EvoInv, Kept
  <2>5. /\ ran' \in Seq(Execution) /\ InOrder'
        /\ Len(ran') <= ev.rec.runs /\ Len(ran') <= disk.runs
    BY <1>1, <2>4, EvSameOrder
  <2>6. last.runs \in Nat /\ ev.rec.runs <= last.runs /\ last.runs <= MaxVerifierRuns
    BY <1>4, <2>3
  <2> QED BY <1>1, <1>5, <2>2, <2>3, <2>5, <2>6, EvEnds
<1> QED BY <1>1, <1>6, <1>7, <1>8 DEF Stages

\* While the evolver itself does nothing, what is known of it stands, even where a
\* content has become spoiled.
LEMMA EvHeld ==
  ASSUME EvoInv, UNCHANGED <<disk, ev, ran>>, tree' \in Contents,
         patch' \in Seq(Contents), Len(patch') = Len(patch),
         valid' \in [Runs -> Contents],
         Measuring => Tree' = Tree \/ Tree' = "spoiled",
         Pointed', Given'
  PROVE  EvoInv'
<1> USE DEF EvoInv
<1>1. Kept' /\ Chosen' /\ InOrder' /\ Metered'
  BY DEF Kept, Chosen, Live, InOrder, Metered
<1>2. Count' = Count /\ Cands' = Cands
  BY DEF Count, Cands
<1>3. Underway'
  BY <1>2 DEF Underway, Measuring, Allowed
<1>4. Based'
  BY DEF Based, Live
<1>5. Trained'
  <2>1. ASSUME NEW c \in 1 .. Count, Live, Cands[c].status = "train_accepted"
        PROVE  Excels(c)'
    <3>1. Excels(c)
      BY <2>1 DEF Trained
    <3> QED BY <3>1, EvExcelsKept
  <2> QED BY <1>2, <2>1 DEF Trained, Live, Allowed
<1>6. Proven'
  <2>1. ASSUME ev.rec.status = "candidate_ready"
        PROVE  Tested(ev.rec.selected, ev.rec.cands[ev.rec.selected].digest)'
    <3>1. Tested(ev.rec.selected, ev.rec.cands[ev.rec.selected].digest)
      BY <2>1 DEF Proven
    <3> QED BY <3>1, EvTestedStays
  <2> QED BY <2>1 DEF Proven, Live
<1> QED BY <1>1, <1>3, <1>4, <1>5, <1>6

\* Operators and launchers touch the pointer and nothing of the run.
LEMMA EvApart ==
  ASSUME EvoInv, UNCHANGED <<disk, ev, tree, patch, valid, ran>>, Pointed', Given'
  PROVE  EvoInv'
<1>1. /\ tree' \in Contents /\ patch' \in Seq(Contents) /\ Len(patch') = Len(patch)
      /\ valid' \in [Runs -> Contents]
  BY DEF EvoInv, Kept
<1>2. Tree' = Tree
  BY DEF Tree
<1> QED BY <1>1, <1>2, EvHeld

\* Somebody changes a file.
LEMMA EvSpoil ==
  ASSUME EvoInv, Contract, Spoil PROVE EvoInv'
<1>1. /\ UNCHANGED <<disk, ev, ran, ptr, op, look, launched>>
      /\ \/ tree' = "spoiled" /\ ev.stage # "holdout" /\ UNCHANGED <<patch, valid>>
         \/ \E i \in DOMAIN patch : /\ patch' = [patch EXCEPT ![i] = "spoiled"]
                                    /\ UNCHANGED <<tree, valid>>
         \/ \E r \in Runs : valid' = [valid EXCEPT ![r] = "spoiled"] /\ UNCHANGED <<tree, patch>>
         \/ UNCHANGED <<tree, patch, valid>>
  BY DEF Spoil, pointer
<1>2. /\ tree \in Contents /\ patch \in Seq(Contents) /\ valid \in [Runs -> Contents]
      /\ "spoiled" \in Contents
  BY DEF EvoInv, Kept, Contents
<1>3. /\ tree' \in Contents /\ patch' \in Seq(Contents) /\ Len(patch') = Len(patch)
      /\ valid' \in [Runs -> Contents]
      /\ \A r \in Runs : valid'[r] = valid[r] \/ valid'[r] = "spoiled"
      /\ tree' = tree \/ tree' = "spoiled"
  <2>1. CASE tree' = "spoiled" /\ ev.stage # "holdout" /\ UNCHANGED <<patch, valid>>
    BY <1>2, <2>1
  <2>2. CASE \E i \in DOMAIN patch : /\ patch' = [patch EXCEPT ![i] = "spoiled"]
                                     /\ UNCHANGED <<tree, valid>>
    <3>1. PICK i \in DOMAIN patch : /\ patch' = [patch EXCEPT ![i] = "spoiled"]
                                    /\ UNCHANGED <<tree, valid>>
      BY <2>2
    <3> QED BY <1>2, <3>1
  <2>3. CASE \E r \in Runs : /\ valid' = [valid EXCEPT ![r] = "spoiled"]
                                 /\ UNCHANGED <<tree, patch>>
    BY <1>2, <2>3
  <2>4. CASE UNCHANGED <<tree, patch, valid>>
    BY <1>2, <2>4
  <2> QED BY <1>1, <2>1, <2>2, <2>3, <2>4
<1>4. Tree' = Tree \/ Tree' = "spoiled"
  BY <1>1, <1>3 DEF Tree, Runs
<1>5. Pointed'
  <2>1. \A r \in Earlier : valid'[r] = valid[r] \/ valid'[r] = "spoiled"
    BY <1>3 DEF Runs
  <2> QED BY <1>1, <2>1, EvPointedKept DEF EvoInv
<1>6. Given'
  BY <1>1, EvGivenKept DEF EvoInv
<1> QED BY <1>1, <1>3, <1>4, <1>5, <1>6, EvHeld

\* An operator takes the lock, or lets it go.
LEMMA EvHolds ==
  ASSUME EvoInv, Contract, Activate \/ Rollback \/ LetGo PROVE EvoInv'
<1>1. UNCHANGED <<disk, ev, tree, patch, valid, ran, ptr, look, launched>>
  BY DEF Activate, Rollback, LetGo, evolver
<1>2. /\ ptr.version \in Nat /\ ptr.history \in Seq(Runs)
  BY DEF EvoInv, Pointed
<1>3. \/ op' = NoOp
      \/ op' \in [kind : {"activate", "rollback"}, run : Runs \cup {"none"}, expected : Nat]
  <2>1. CASE Activate
    BY <1>2, <2>1 DEF Activate
  <2>2. CASE Rollback
    <3>1. Previous \in Runs \cup {"none"}
      <4>1. CASE ptr.history = <<>>
        BY <4>1 DEF Previous
      <4>2. CASE ptr.history # <<>>
        <5>1. ptr.history[Len(ptr.history)] \in Runs
          BY <1>2, <4>2
        <5> QED BY <4>2, <5>1 DEF Previous
      <4> QED BY <4>1, <4>2
    <3> QED BY <1>2, <2>2, <3>1 DEF Rollback
  <2>3. CASE LetGo
    BY <2>3 DEF LetGo
  <2> QED BY <2>1, <2>2, <2>3
<1>4. Pointed'
  BY <1>1, <1>3 DEF EvoInv, Pointed, NoOp
<1>5. Given'
  BY <1>1, EvGivenKept DEF EvoInv
<1> QED BY <1>1, <1>4, <1>5, EvApart

\* The pointer is switched to what was validated, or back.
LEMMA EvSwitch ==
  ASSUME EvoInv, Contract, Switch PROVE EvoInv'
<1>1. /\ UNCHANGED <<disk, ev, tree, patch, valid, ran, look, launched>>
      /\ op # NoOp /\ op' = NoOp
      /\ ptr' = ptr \/ ptr' = Activated \/ ptr' = RolledBack
  <2>1. /\ UNCHANGED <<disk, ev, tree, patch, valid, ran, look, launched>>
        /\ op # NoOp /\ op' = NoOp
        /\ \/ ptr' = ptr
           \/ \E ok \in BOOLEAN :
                Wrote(ok, ptr, IF op.kind = "activate" THEN Activated ELSE RolledBack)
    BY DEF Switch, evolver
  <2> QED BY <2>1 DEF Wrote, Trouble
<1>2. /\ ptr.version \in Nat /\ ptr.active \in Runs \cup {"none"} /\ ptr.history \in Seq(Runs)
      /\ op.run \in Runs \cup {"none"}
      /\ ptr \in [version : Nat, active : Runs \cup {"none"}, history : Seq(Runs)]
  BY <1>1 DEF EvoInv, Pointed
<1>3. Activated \in [version : Nat, active : Runs \cup {"none"}, history : Seq(Runs)]
  <2>1. ptr.version + 1 \in Nat
    BY <1>2
  <2>2. (IF ptr.active = "none" THEN ptr.history ELSE Append(ptr.history, ptr.active)) \in Seq(Runs)
    BY <1>2
  <2> QED BY <1>2, <2>1, <2>2 DEF Activated
<1>4. RolledBack \in [version : Nat, active : Runs \cup {"none"}, history : Seq(Runs)]
  <2>1. ptr.version + 1 \in Nat
    BY <1>2
  <2>2. (IF ptr.history = <<>> THEN <<>> ELSE Front(ptr.history)) \in Seq(Runs)
    <3>1. CASE ptr.history = <<>>
      BY <3>1
    <3>2. CASE ptr.history # <<>>
      <4>1. Len(ptr.history) - 1 \in Nat /\ \A i \in 1 .. Len(ptr.history) - 1 : ptr.history[i] \in Runs
        BY <1>2, <3>2
      <4>2. SubSeq(ptr.history, 1, Len(ptr.history) - 1) \in Seq(Runs)
        BY <1>2, <4>1
      <4> QED BY <3>2, <4>1, <4>2 DEF Front
    <3> QED BY <3>1, <3>2
  <2> QED BY <1>2, <2>1, <2>2 DEF RolledBack
<1>5. Pointed'
  BY <1>1, <1>2, <1>3, <1>4 DEF EvoInv, Pointed, NoOp
<1>6. Given'
  BY <1>1, EvGivenKept DEF EvoInv
<1> QED BY <1>1, <1>5, <1>6, EvApart

\* A launcher reads the pointer, and then, without the lock, what it names: what it
\* is given is what the record and the worktree hold at that moment.
LEMMA EvLaunch ==
  ASSUME EvoInv, Contract, Resolve \/ Launch PROVE EvoInv'
<1>1. UNCHANGED <<disk, ev, tree, patch, valid, ran, ptr, op>>
  BY DEF Resolve, Launch, evolver
<1>2. CASE Resolve
  <2>1. look' \in Runs \cup {"none"} /\ launched' \in {"none", "base", launched}
    BY <1>2 DEF Resolve, EvoInv, Pointed
  <2>2. Pointed'
    BY <1>1, <2>1 DEF EvoInv, Pointed, NoOp
  <2>3. Given'
    BY <1>1, <2>1 DEF EvoInv, Given
  <2> QED BY <1>1, <2>2, <2>3, EvApart
<1>3. CASE Launch
  <2>1. /\ look' = "none" /\ look # "none" /\ look \in Runs
        /\ launched' = IF Ready(look) THEN valid[look] ELSE "none"
    BY <1>3 DEF Launch, EvoInv, Pointed
  <2>2. Pointed'
    BY <1>1, <2>1 DEF EvoInv, Pointed, NoOp
  <2>3. Given'
    <3>1. CASE ~Ready(look)
      BY <2>1, <3>1 DEF Given
    <3>2. CASE Ready(look) /\ look = This
      <4>1. /\ disk.status = "candidate_ready"
            /\ valid[This] = disk.cands[disk.selected].digest
        BY <3>2 DEF Ready, Intact, Digest
      <4> QED BY <1>1, <2>1, <3>2, <4>1 DEF Given
    <3>3. CASE Ready(look) /\ look # This
      <4>1. look \in Earlier /\ valid[look] = look
        BY <2>1, <3>3 DEF Ready, Intact, Digest, Runs
      <4> QED BY <2>1, <3>3, <4>1 DEF Given
    <3> QED BY <3>1, <3>2, <3>3
  <2> QED BY <1>1, <2>2, <2>3, EvApart
<1> QED BY <1>2, <1>3

\* A run that has not begun.
LEMMA EvInit == ASSUME Contract, EInit PROVE EvoInv
<1>1. /\ disk = NoRecord /\ ev.rec = NoRecord /\ ev.pc = "idle"
      /\ ev.stage = "baseline" /\ ev.results = <<>> /\ ev.best = 0
      /\ tree = "none" /\ patch = <<>> /\ ran = <<>> /\ op = NoOp /\ look = "none"
      /\ launched = "none" /\ ptr = [version |-> 0, active |-> "none", history |-> <<>>]
      /\ valid = [r \in Runs |-> IF r = This THEN "none" ELSE r]
  BY DEF EInit
<1>2. /\ NoRecord \in Record /\ NoRecord.status = "none" /\ NoRecord.runs = 0
      /\ NoRecord.cands = <<>>
  <2>1. <<>> \in Seq(BOOLEAN) /\ <<>> \in Seq(Entry)
    OBVIOUS
  <2> QED BY <2>1 DEF Record, NoRecord
<1>3. Kept
  <2>1. ev \in [pc : {"idle", "meter", "verify", "propose", "train", "apply", "finish", "over"},
                rec : Record, stage : Stages, results : Seq(BOOLEAN), best : Nat,
                proposed : Patches \cup {"none"}]
    <3>1. <<>> \in Seq(BOOLEAN)
      OBVIOUS
    <3> QED BY <1>2, <3>1 DEF EInit, Stages
  <2>2. valid \in [Runs -> Contents] /\ tree \in Contents
    BY <1>1 DEF Contents
  <2>3. patch \in Seq(Contents) /\ ran \in Seq(Execution)
    BY <1>1
  <2> QED BY <1>1, <1>2, <2>1, <2>2, <2>3 DEF Kept
<1>4. Count = 0
  BY <1>1, <1>2 DEF Count, Cands
<1>5. Underway /\ Based
  BY <1>1 DEF Underway, Measuring, Based, Live
<1>6. Trained
  BY <1>1, <1>4 DEF Trained
<1>7. Chosen /\ InOrder
  BY <1>1 DEF Chosen, InOrder
<1>8. Metered
  <2>1. 0 <= MaxVerifierRuns
    BY DEF Contract, ValidContract
  <2> QED BY <1>1, <1>2, <2>1 DEF Metered
<1>9. Proven
  BY <1>1, <1>2 DEF Proven
<1>10. Pointed
  <2>1. \A r \in Earlier : valid[r] \in {r, "spoiled"}
    BY <1>1 DEF Contract, Runs
  <2>2. ptr \in [version : Nat, active : Runs \cup {"none"}, history : Seq(Runs)]
    BY <1>1
  <2> QED BY <1>1, <2>1, <2>2 DEF Pointed
<1>11. Given
  BY <1>1 DEF Given
<1> QED BY <1>3, <1>5, <1>6, <1>7, <1>8, <1>9, <1>10, <1>11 DEF EvoInv

\* Every step keeps the invariant.
LEMMA EvStep == ASSUME EvoInv, Contract, [ENext]_evolverVars PROVE EvoInv'
<1>1. CASE Start
  BY <1>1, EvStart
<1>2. CASE Meter
  BY <1>2, EvMeter
<1>3. CASE Verify
  BY <1>3, EvVerify
<1>4. CASE Stopped
  BY <1>4, EvStopped
<1>5. CASE Broken
  BY <1>5, EvBroken
<1>6. CASE BaselineDone
  BY <1>6, EvBaselineDone
<1>7. CASE Unfit
  BY <1>7, EvUnfit
<1>8. CASE Propose
  BY <1>8, EvPropose
<1>9. CASE Train
  BY <1>9, EvTrain
<1>10. CASE TrainDone
  BY <1>10, EvTrainDone
<1>11. CASE Select
  BY <1>11, EvSelect
<1>12. CASE Apply
  BY <1>12, EvApply
<1>13. CASE HoldoutDone
  BY <1>13, EvHoldoutDone
<1>14. CASE Unmeasured
  BY <1>14, EvUnmeasured
<1>15. CASE Stumble
  BY <1>15, EvStumble
<1>16. CASE Finish \/ EvolverCrash
  BY <1>16, EvFinish
<1>17. CASE Activate \/ Rollback \/ LetGo
  BY <1>17, EvHolds
<1>18. CASE Switch
  BY <1>18, EvSwitch
<1>19. CASE Resolve \/ Launch
  BY <1>19, EvLaunch
<1>20. CASE Spoil
  BY <1>20, EvSpoil
<1>21. CASE UNCHANGED evolverVars
  <2>1. UNCHANGED <<disk, ev, tree, patch, valid, ptr, op, look, ran, launched>>
    BY <1>21 DEF evolverVars
  <2>2. Pointed' /\ Given'
    <3>1. \A r \in Earlier : valid'[r] \in {valid[r], "spoiled"}
      BY <2>1
    <3> QED BY <2>1, <3>1, EvPointedKept, EvGivenKept DEF EvoInv
  <2> QED BY <2>1, <2>2, EvApart
<1> QED BY <1>1, <1>2, <1>3, <1>4, <1>5, <1>6, <1>7, <1>8, <1>9, <1>10, <1>11, <1>12, <1>13,
           <1>14, <1>15, <1>16, <1>17, <1>18, <1>19, <1>20, <1>21 DEF ENext

\* The inductive invariant of maintenance: EvoInv.
THEOREM MaintenanceInvariant == ESpec => []EvoInv
<1>1. EInit => EvoInv
  BY EvInit, ContractHolds
<1>2. EvoInv /\ [ENext]_evolverVars => EvoInv'
  BY EvStep, ContractHolds
<1> QED BY <1>1, <1>2, PTL DEF ESpec

\* evolve.go, "a failure does not select the next candidate": for every contract and
\* any number of failed writes, crashes and spoiled files, candidate_ready on disk is
\* backed by what the verifiers really answered, on that content, the baseline beaten
\* and no case lost; all of them are counted; the held-out cases come last.
THEOREM EvidenceStands == ESpec => []EvidenceHolds
<1>1. ASSUME EvoInv PROVE EvidenceHolds
  <2>1. disk.status = "candidate_ready" =>
          Tested(disk.selected, disk.cands[disk.selected].digest)
    <3>1. ASSUME disk.status = "candidate_ready"
          PROVE  Tested(disk.selected, disk.cands[disk.selected].digest)
      <4>1. disk = ev.rec
        BY <1>1, <3>1 DEF EvoInv, Proven
      <4>2. Tested(ev.rec.selected, ev.rec.cands[ev.rec.selected].digest)
        BY <1>1, <3>1, <4>1 DEF EvoInv, Proven
      <4> QED BY <4>1, <4>2
    <3> QED BY <3>1
  <2>2. Len(ran) <= disk.runs /\ disk.runs <= MaxVerifierRuns
    BY <1>1 DEF EvoInv, Metered
  <2>3. \A i, j \in DOMAIN ran : ran[i].stage = "holdout" =>
          disk.selected # 0 /\ (j > i => ran[j].stage = "holdout" /\ ran[j].case > ran[i].case)
    BY <1>1 DEF EvoInv, InOrder, Chosen
  <2> QED BY <2>1, <2>2, <2>3 DEF EvidenceHolds
<1>2. ESpec => []EvoInv
  BY MaintenanceInvariant
<1> QED BY <1>1, <1>2, PTL

\* activation.go, "validates evidence and immutable candidate contents on each launch":
\* a launcher, who takes no lock, is given the checkout or files that passed, however
\* operators switch the pointer and whoever spoils a file in between.
THEOREM OnlyTestedLaunched == ESpec => []LaunchedTested
<1>1. ASSUME EvoInv PROVE LaunchedTested
  <2>1. CASE launched \in Earlier \cup {"none", "base"}
    BY <2>1 DEF LaunchedTested
  <2>2. CASE disk.status = "candidate_ready" /\ launched = disk.cands[disk.selected].digest
    <3>1. disk = ev.rec
      BY <1>1, <2>2 DEF EvoInv, Proven
    <3>2. Tested(ev.rec.selected, ev.rec.cands[ev.rec.selected].digest)
      BY <1>1, <2>2, <3>1 DEF EvoInv, Proven
    <3>3. Tested(disk.selected, launched)
      BY <2>2, <3>1, <3>2
    <3> QED BY <3>3 DEF LaunchedTested
  <2> QED BY <1>1, <2>1, <2>2 DEF EvoInv, Given
<1>2. ESpec => []EvoInv
  BY MaintenanceInvariant
<1> QED BY <1>1, <1>2, PTL

==============================================================================
