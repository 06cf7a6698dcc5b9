----------------------- MODULE GovernedRequestsProofs -----------------------
(***************************************************************************)
(* Proofs about GovernedRequests, for any number of operations and edits   *)
(* that overlap in any way and any of which may die, any set of policies   *)
(* and any limits.  That the ledger is exact and the spending limited      *)
(* needs SerialUse: calls that do not overlap and do not die.              *)
(***************************************************************************)
EXTENDS GovernedRequests, FiniteSetTheorems, TLAPS

----------------------------------------------------------------------------
(* Sums over finite sets.  MapThenSumSet is a recursive function on the     *)
(* subsets of its set, which takes out one element after another.           *)

\* The element that MapThenSumSet takes out of a set.
AnyOf(s) == CHOOSE x \in s : TRUE

\* Its recursive equation, for costs F.
Summed(g, F, s) == IF s = {} THEN 0 ELSE F[AnyOf(s)] + g[s \ {AnyOf(s)}]
IsSum(g, F, S) == g = [s \in SUBSET S |-> Summed(g, F, s)]

LEMMA AnyOfIn == ASSUME NEW s, s # {} PROVE AnyOf(s) \in s
  BY DEF AnyOf

\* Induction over the subsets of a finite set, as the choice of a smallest
\* counterexample.
LEMMA MinimalSubset ==
    ASSUME NEW S, IsFiniteSet(S), NEW B \in SUBSET (SUBSET S), B # {}
    PROVE  \E T \in B : \A U \in B : U \subseteq T => U = T
<1>1. SUBSET S = FiniteSubsetsOf(S)
  BY FS_Subset DEF FiniteSubsetsOf
<1>2. IsWellFoundedOn(StrictSubsetOrdering(S), FiniteSubsetsOf(S))
  BY FS_StrictSubsetOrderingWellFounded, Zenon
<1>3. B \subseteq FiniteSubsetsOf(S)
  BY <1>1
<1>4. PICK T \in B : \A U \in B : <<U, T>> \notin StrictSubsetOrdering(S)
  BY <1>2, <1>3, WFMin, Zenon
<1> QED
  BY <1>4 DEF StrictSubsetOrdering

LEMMA SumEquation ==
    ASSUME NEW S, NEW F, NEW g, IsSum(g, F, S), NEW s \in SUBSET S
    PROVE  g[s] = Summed(g, F, s)
  BY DEF IsSum

\* The equation has one solution, also where the domains differ ...
LEMMA SumAgree ==
    ASSUME NEW F, NEW T, NEW g, IsSum(g, F, T), NEW U, NEW h, IsSum(h, F, U),
           NEW S, IsFiniteSet(S), S \subseteq T, S \subseteq U
    PROVE  g[S] = h[S]
<1> DEFINE B == {s \in SUBSET S : g[s] # h[s]}
<1> SUFFICES ASSUME B # {} PROVE FALSE
  OBVIOUS
<1>1. PICK s \in B : \A u \in B : u \subseteq s => u = s
  <2> HIDE DEF B
  <2>1. B \in SUBSET (SUBSET S) BY DEF B
  <2> QED BY <2>1, MinimalSubset
<1>2. s \in SUBSET T /\ s \in SUBSET U
  OBVIOUS
<1>3. g[s] = Summed(g, F, s) /\ h[s] = Summed(h, F, s)
  BY <1>2, SumEquation
<1>4. CASE s = {}
  BY <1>3, <1>4 DEF Summed
<1>5. CASE s # {}
  <2>1. s \ {AnyOf(s)} \notin B
    BY <1>1, <1>5, AnyOfIn
  <2> QED BY <2>1, <1>3, <1>5 DEF Summed
<1> QED BY <1>4, <1>5

\* ... and it has a solution: the recursion of the fold ends.
LEMMA SumExists ==
    ASSUME NEW S, IsFiniteSet(S), NEW F
    PROVE  \E g : IsSum(g, F, S)
<1> DEFINE B == {s \in SUBSET S : ~ \E g : IsSum(g, F, s)}
<1> SUFFICES ASSUME B # {} PROVE FALSE
  OBVIOUS
<1>1. PICK T \in B : \A u \in B : u \subseteq T => u = T
  <2> HIDE DEF B
  <2>1. B \in SUBSET (SUBSET S) BY DEF B
  <2> QED BY <2>1, MinimalSubset
<1> DEFINE G(u) == CHOOSE g : IsSum(g, F, u)
           V(s) == IF s = {} THEN 0 ELSE F[AnyOf(s)] + G(s \ {AnyOf(s)})[s \ {AnyOf(s)}]
           h == [s \in SUBSET T |-> V(s)]
<1>2. ASSUME NEW u \in SUBSET T, u # T PROVE IsSum(G(u), F, u)
  <2>1. \E g : IsSum(g, F, u)
    BY <1>1, <1>2
  <2> QED BY <2>1, Zenon
<1>3. ASSUME NEW u \in SUBSET T, u # T PROVE h[u] = G(u)[u]
  <2> HIDE DEF G
  <2>1. G(u)[u] = Summed(G(u), F, u)
    BY <1>2, <1>3, SumEquation
  <2>2. CASE u = {}
    BY <2>1, <2>2 DEF Summed
  <2>3. CASE u # {}
    <3> DEFINE v == u \ {AnyOf(u)}
    <3>1. v \in SUBSET T /\ v # T /\ v \subseteq u
      BY <1>3, <2>3, AnyOfIn
    <3>2. IsFiniteSet(v)
      <4>1. v \subseteq S BY <3>1
      <4> QED BY <4>1, FS_Subset
    <3>3. IsSum(G(u), F, u) /\ IsSum(G(v), F, v)
      BY <1>2, <1>3, <3>1
    <3>4. G(u)[v] = G(v)[v]
      <4> HIDE DEF v
      <4> QED BY <3>1, <3>2, <3>3, SumAgree
    <3> QED BY <2>1, <2>3, <3>4 DEF Summed
  <2> QED BY <2>2, <2>3
<1>4. ASSUME NEW s \in SUBSET T PROVE V(s) = Summed(h, F, s)
  <2>1. CASE s = {} BY <2>1 DEF Summed
  <2>2. CASE s # {}
    <3> DEFINE u == s \ {AnyOf(s)}
    <3>1. u \in SUBSET T /\ u # T
      BY <2>2, AnyOfIn
    <3>2. h[u] = G(u)[u]
      <4> HIDE DEF h, G, u
      <4> QED BY <3>1, <1>3
    <3> HIDE DEF h, G
    <3> QED BY <2>2, <3>2 DEF Summed
  <2> QED BY <2>1, <2>2
<1>5. h = [s \in SUBSET T |-> Summed(h, F, s)]
  <2>1. h = [s \in SUBSET T |-> V(s)]
     OBVIOUS
  <2> HIDE DEF V, h
  <2> QED BY <2>1, <1>4
<1>6. IsSum(h, F, T)
  <2> HIDE DEF h
  <2> QED BY <1>5 DEF IsSum
<1> QED BY <1>1, <1>6

\* g sums natural numbers F over the subsets of a finite set S; F is at most
\* G on s.
SumOf(g, F, S) == IsFiniteSet(S) /\ F \in [S -> Nat] /\ IsSum(g, F, S)
Below(F, G, s) == \A x \in s : F[x] <= G[x]
Splits(g, F, s, x) == g[s] = F[x] + g[s \ {x}]

\* A sum of natural numbers is one.
LEMMA SumNat ==
    ASSUME NEW S, NEW F, NEW g, SumOf(g, F, S)
    PROVE  \A s \in SUBSET S : g[s] \in Nat
<1>0. IsFiniteSet(S) /\ F \in [S -> Nat] /\ IsSum(g, F, S)
  BY DEF SumOf
<1> DEFINE B == {s \in SUBSET S : g[s] \notin Nat}
<1> SUFFICES ASSUME B # {} PROVE FALSE
  OBVIOUS
<1>1. PICK s \in B : \A u \in B : u \subseteq s => u = s
  <2> HIDE DEF B
  <2>1. B \in SUBSET (SUBSET S) BY DEF B
  <2> QED BY <2>1, <1>0, MinimalSubset
<1>2. g[s] = Summed(g, F, s)
  BY <1>0, SumEquation
<1>3. CASE s = {} BY <1>2, <1>3 DEF Summed
<1>4. CASE s # {}
  <2>1. AnyOf(s) \in s /\ s \ {AnyOf(s)} \notin B
    BY <1>1, <1>4, AnyOfIn
  <2>2. F[AnyOf(s)] \in Nat /\ g[s \ {AnyOf(s)}] \in Nat
    BY <2>1, <1>0
  <2> QED BY <2>2, <1>2, <1>4 DEF Summed
<1> QED BY <1>3, <1>4

\* Any element can be taken out first, not only the one the fold takes.
LEMMA SumRemove ==
    ASSUME NEW S, NEW F, NEW g, SumOf(g, F, S), NEW s \in SUBSET S, NEW x \in s
    PROVE  Splits(g, F, s, x)
<1>0. IsFiniteSet(S) /\ F \in [S -> Nat] /\ IsSum(g, F, S)
  BY DEF SumOf
<1> DEFINE B == {u \in SUBSET S : \E z \in u : g[u] # F[z] + g[u \ {z}]}
<1> SUFFICES ASSUME B # {} PROVE FALSE
  BY DEF Splits
<1>1. PICK t \in B : \A u \in B : u \subseteq t => u = t
  <2> HIDE DEF B
  <2>1. B \in SUBSET (SUBSET S) BY DEF B
  <2> QED BY <2>1, <1>0, MinimalSubset
<1>2. PICK z \in t : g[t] # F[z] + g[t \ {z}]
  OBVIOUS
<1> DEFINE y == AnyOf(t)
<1>3. y \in t
  BY <1>2, AnyOfIn
<1>4. g[t] = F[y] + g[t \ {y}]
  <2>1. g[t] = Summed(g, F, t) /\ t # {}
    BY <1>0, <1>2, SumEquation
  <2> QED BY <2>1 DEF Summed
<1>5. z # y
  BY <1>2, <1>4
<1> HIDE DEF y
<1>6. t \ {y} \notin B /\ t \ {z} \notin B
  BY <1>1, <1>3
<1>7. g[t \ {y}] = F[z] + g[(t \ {y}) \ {z}]
  BY <1>6, <1>5
<1>8. g[t \ {z}] = F[y] + g[(t \ {z}) \ {y}]
  BY <1>3, <1>6, <1>5
<1>9. (t \ {y}) \ {z} = (t \ {z}) \ {y}
  OBVIOUS
<1>10. F[z] \in Nat /\ F[y] \in Nat /\ g[(t \ {z}) \ {y}] \in Nat
  BY <1>0, <1>3, SumNat
<1> HIDE DEF B
<1>11. F[y] + (F[z] + g[(t \ {z}) \ {y}]) = F[z] + (F[y] + g[(t \ {z}) \ {y}])
  BY <1>10
<1> QED BY <1>2, <1>4, <1>7, <1>8, <1>9, <1>11

\* More and larger costs add up to more.
LEMMA SumMonotone ==
    ASSUME NEW S, NEW F, NEW g, SumOf(g, F, S), NEW T, NEW G, NEW h, SumOf(h, G, T),
           NEW s \in SUBSET S, NEW t \in SUBSET T, s \subseteq t, Below(F, G, s)
    PROVE  g[s] <= h[t]
<1>0. /\ IsFiniteSet(S) /\ F \in [S -> Nat] /\ IsSum(g, F, S)
      /\ IsFiniteSet(T) /\ G \in [T -> Nat] /\ IsSum(h, G, T)
      /\ \A x \in s : F[x] <= G[x]
  BY DEF SumOf, Below
<1>a. \A w \in SUBSET T : h[w] \in Nat
  BY SumNat
<1>b. ASSUME NEW w \in SUBSET T, NEW z \in w PROVE h[w] = G[z] + h[w \ {z}]
  BY SumRemove DEF Splits
<1>c. \A w \in SUBSET S : g[w] \in Nat
  BY SumNat
<1>d. ASSUME NEW w \in SUBSET S, NEW z \in w PROVE g[w] = F[z] + g[w \ {z}]
  BY SumRemove DEF Splits
<1> DEFINE B == {u \in SUBSET T : \E v \in SUBSET s : v \subseteq u /\ ~ (g[v] <= h[u])}
<1> SUFFICES ASSUME B # {} PROVE FALSE
  OBVIOUS
<1>1. PICK u \in B : \A w \in B : w \subseteq u => w = u
  <2> HIDE DEF B
  <2>1. B \in SUBSET (SUBSET T) BY DEF B
  <2> QED BY <2>1, <1>0, MinimalSubset
<1>2. PICK v \in SUBSET s : v \subseteq u /\ ~ (g[v] <= h[u])
  OBVIOUS
<1>3. CASE u = {}
  <2>1. v = {} BY <1>2, <1>3
  <2>2. g[v] = 0 /\ h[u] = 0
    <3>1. {} \in SUBSET S /\ {} \in SUBSET T
      OBVIOUS
    <3>2. g[{}] = Summed(g, F, {}) /\ h[{}] = Summed(h, G, {})
      BY <1>0, <3>1, SumEquation
    <3> QED BY <2>1, <1>3, <3>2 DEF Summed
  <2> QED BY <2>2, <1>2
<1>4. CASE u # {}
  <2>1. PICK x : x \in u BY <1>4
  <2>2. u \ {x} \in SUBSET T /\ u \ {x} \notin B
    BY <1>1, <2>1
  <2>3. g[v \ {x}] <= h[u \ {x}]
    BY <2>2, <1>2
  <2>4. h[u] = G[x] + h[u \ {x}] /\ G[x] \in Nat /\ h[u \ {x}] \in Nat
    <3>1. u \in SUBSET T /\ x \in T
      BY <2>1
    <3> QED BY <1>0, <2>1, <3>1, <1>a, <1>b
  <2>5. CASE x \in v
    <3>1. g[v] = F[x] + g[v \ {x}] /\ F[x] \in Nat /\ g[v \ {x}] \in Nat
      BY <1>0, <2>5, <1>c, <1>d
    <3> QED BY <1>0, <3>1, <2>3, <2>4, <2>5, <1>2
  <2>6. CASE x \notin v
    <3>1. v \ {x} = v /\ g[v] \in Nat
      BY <2>6, <1>c
    <3>2. g[v] <= h[u \ {x}]
      BY <3>1, <2>3
    <3> QED BY <3>1, <3>2, <2>4, <1>2
  <2> QED BY <2>5, <2>6
<1> QED BY <1>3, <1>4

\* Elements that cost nothing do not count.
LEMMA SumZeros ==
    ASSUME NEW S, NEW F, NEW g, SumOf(g, F, S), NEW s \in SUBSET S, NEW t \in SUBSET s,
           \A x \in s \ t : F[x] = 0
    PROVE  g[s] = g[t]
<1>0. IsFiniteSet(S) /\ F \in [S -> Nat]
  BY DEF SumOf
<1>a. \A w \in SUBSET S : g[w] \in Nat
  BY SumNat
<1> DEFINE B == {u \in SUBSET S : u \subseteq s /\ t \subseteq u /\ g[u] # g[t]}
<1> SUFFICES ASSUME B # {} PROVE FALSE
  OBVIOUS
<1>1. PICK u \in B : \A w \in B : w \subseteq u => w = u
  <2> HIDE DEF B
  <2>1. B \in SUBSET (SUBSET S) BY DEF B
  <2> QED BY <2>1, <1>0, MinimalSubset
<1>2. PICK x \in u : x \notin t
  OBVIOUS
<1>3. u \ {x} \in SUBSET S /\ u \ {x} \notin B
  BY <1>1, <1>2
<1>4. g[u \ {x}] = g[t]
  BY <1>2, <1>3
<1>5. Splits(g, F, u, x)
  BY <1>2, SumRemove
<1>6. F[x] = 0
  BY <1>2
<1> QED
  BY <1>a, <1>3, <1>4, <1>5, <1>6 DEF Splits

\* The two sums of the specification, as solutions of that equation.
CostsRecorded == [a \in Actors |-> record[a].cost]
CostsSent == [o \in Ops |-> Cost(o, sent[o])]

LEMMA ProjectSpendIsSum ==
    IsFiniteSet(Actors) => \E g : IsSum(g, CostsRecorded, Actors) /\ projectSpend = g[Actors]
<1> SUFFICES ASSUME IsFiniteSet(Actors)
             PROVE  \E g : IsSum(g, CostsRecorded, Actors) /\ projectSpend = g[Actors]
  OBVIOUS
<1> DEFINE Term(g, s) == IF s = {} THEN 0
                         ELSE record[CHOOSE x \in s : TRUE].cost + g[s \ {CHOOSE x \in s : TRUE}]
           Fold(g) == [s \in SUBSET Actors |-> Term(g, s)]
           Sum(g) == [s \in SUBSET Actors |-> Summed(g, CostsRecorded, s)]
<1>1. ASSUME NEW g PROVE Sum(g) = Fold(g)
  <2>1. ASSUME NEW s \in SUBSET Actors PROVE Summed(g, CostsRecorded, s) = Term(g, s)
    <3>1. s # {} => CostsRecorded[AnyOf(s)] = record[AnyOf(s)].cost
      BY AnyOfIn DEF CostsRecorded
    <3> QED BY <3>1 DEF AnyOf, Summed
  <2> QED BY <2>1, Zenon
<1>2. \E g : g = Fold(g)
  <2>1. PICK g : IsSum(g, CostsRecorded, Actors)
    BY SumExists
  <2>2. g = Sum(g)
    BY <2>1, Zenon DEF IsSum
  <2> HIDE DEF Sum
  <2>3. g = Fold(g)
    BY <2>2, <1>1
  <2> QED BY <2>3
<1> DEFINE k == CHOOSE g : g = Fold(g)
<1>3. k = Fold(k)
  BY <1>2, Zenon
<1>4. projectSpend = k[Actors]
  BY Zenon DEF projectSpend, MapThenSumSet, MapThenFoldSet
<1>5. IsSum(k, CostsRecorded, Actors)
  <2> HIDE DEF k
  <2> QED BY <1>1, <1>3, Zenon DEF IsSum
<1> QED BY <1>4, <1>5

LEMMA SpentIsSum ==
    IsFiniteSet(Ops) => \E g : IsSum(g, CostsSent, Ops) /\ spent = g[Ops]
<1> SUFFICES ASSUME IsFiniteSet(Ops)
             PROVE  \E g : IsSum(g, CostsSent, Ops) /\ spent = g[Ops]
  OBVIOUS
<1> DEFINE Term(g, s) == IF s = {} THEN 0
                         ELSE Cost(CHOOSE x \in s : TRUE, sent[CHOOSE x \in s : TRUE])
                              + g[s \ {CHOOSE x \in s : TRUE}]
           Fold(g) == [s \in SUBSET Ops |-> Term(g, s)]
           Sum(g) == [s \in SUBSET Ops |-> Summed(g, CostsSent, s)]
<1>1. ASSUME NEW g PROVE Sum(g) = Fold(g)
  <2>1. ASSUME NEW s \in SUBSET Ops PROVE Summed(g, CostsSent, s) = Term(g, s)
    <3>1. s # {} => CostsSent[AnyOf(s)] = Cost(AnyOf(s), sent[AnyOf(s)])
      BY AnyOfIn DEF CostsSent
    <3> QED BY <3>1 DEF AnyOf, Summed
  <2> QED BY <2>1, Zenon
<1>2. \E g : g = Fold(g)
  <2>1. PICK g : IsSum(g, CostsSent, Ops)
    BY SumExists
  <2>2. g = Sum(g)
    BY <2>1, Zenon DEF IsSum
  <2> HIDE DEF Sum
  <2>3. g = Fold(g)
    BY <2>2, <1>1
  <2> QED BY <2>3
<1> DEFINE k == CHOOSE g : g = Fold(g)
<1>3. k = Fold(k)
  BY <1>2, Zenon
<1>4. spent = k[Ops]
  BY Zenon DEF spent, MapThenSumSet, MapThenFoldSet
<1>5. IsSum(k, CostsSent, Ops)
  <2> HIDE DEF k
  <2> QED BY <1>1, <1>3, Zenon DEF IsSum
<1> QED BY <1>4, <1>5

SpendSummed == \E g : IsSum(g, CostsRecorded, Actors) /\ projectSpend = g[Actors]

LEMMA SpendSummedNow == IsFiniteSet(Actors) => SpendSummed
  BY ProjectSpendIsSum DEF SpendSummed

LEMMA SpendSummedNext == ASSUME IsFiniteSet(Actors) PROVE SpendSummed'
<1>1. SpendSummed
  BY SpendSummedNow
<1> QED
  BY <1>1, PTL

\* The recorded spend is a number and depends on the recorded costs only.
LEMMA SpendNatural ==
    ASSUME IsFiniteSet(Actors), CostsRecorded \in [Actors -> Nat]
    PROVE  projectSpend \in Nat
<1>1. PICK g : IsSum(g, CostsRecorded, Actors) /\ projectSpend = g[Actors]
  BY SpendSummedNow DEF SpendSummed
<1>2. SumOf(g, CostsRecorded, Actors)
  BY <1>1 DEF SumOf
<1> QED
  BY <1>1, <1>2, SumNat

LEMMA SpendKept ==
    ASSUME IsFiniteSet(Actors), CostsRecorded' = CostsRecorded
    PROVE  projectSpend' = projectSpend
<1>1. PICK g : IsSum(g, CostsRecorded, Actors) /\ projectSpend = g[Actors]
  BY SpendSummedNow DEF SpendSummed
<1>2. PICK h : IsSum(h, CostsRecorded, Actors) /\ projectSpend' = h[Actors]
  BY SpendSummedNext DEF SpendSummed
<1> QED
  BY <1>1, <1>2, SumAgree

\* Where no more is recorded than sent, the ledger does not exceed the spend.
LEMMA SpendCovered ==
    ASSUME IsFiniteSet(Actors), CostsRecorded \in [Actors -> Nat], CostsSent \in [Ops -> Nat],
           Below(CostsRecorded, CostsSent, Ops), \A e \in Actors \ Ops : CostsRecorded[e] = 0
    PROVE  projectSpend <= spent
<1>1. PICK h : SumOf(h, CostsRecorded, Actors) /\ projectSpend = h[Actors]
  BY SpendSummedNow DEF SpendSummed, SumOf
<1>2. Ops \subseteq Actors /\ IsFiniteSet(Ops)
  BY FS_Subset DEF Actors
<1>3. PICK g : SumOf(g, CostsSent, Ops) /\ spent = g[Ops]
  BY <1>2, SpentIsSum DEF SumOf
<1>4. Ops \in SUBSET Ops /\ Ops \in SUBSET Actors /\ Actors \in SUBSET Actors
  BY <1>2
<1>5. h[Actors] = h[Ops]
  BY <1>1, <1>4, SumZeros
<1>6. h[Ops] <= g[Ops]
  BY <1>1, <1>3, <1>4, SumMonotone
<1> QED
  BY <1>1, <1>3, <1>5, <1>6

LEMMA SpentNatural ==
    ASSUME IsFiniteSet(Actors), CostsSent \in [Ops -> Nat]
    PROVE  spent \in Nat
<1>1. IsFiniteSet(Ops)
  BY FS_Subset DEF Actors
<1>2. PICK g : SumOf(g, CostsSent, Ops) /\ spent = g[Ops]
  BY <1>1, SpentIsSum DEF SumOf
<1> QED
  BY <1>2, SumNat

SpentSummed == \E g : IsSum(g, CostsSent, Ops) /\ spent = g[Ops]

LEMMA SpentSummedNow == IsFiniteSet(Ops) => SpentSummed
  BY SpentIsSum DEF SpentSummed

LEMMA SpentSummedNext == ASSUME IsFiniteSet(Ops) PROVE SpentSummed'
<1>1. SpentSummed
  BY SpentSummedNow
<1> QED
  BY <1>1, PTL

\* What was spent depends on what was sent only.
LEMMA SpentKept ==
    ASSUME IsFiniteSet(Ops), CostsSent' = CostsSent
    PROVE  spent' = spent
<1>1. PICK g : IsSum(g, CostsSent, Ops) /\ spent = g[Ops]
  BY SpentSummedNow DEF SpentSummed
<1>2. PICK h : IsSum(h, CostsSent, Ops) /\ spent' = h[Ops]
  BY SpentSummedNext DEF SpentSummed
<1> QED
  BY <1>1, <1>2, SumAgree

\* Where one operation is ahead of its record and the others' costs are in the
\* ledger, the spend exceeds it by no more than that cost.
LEMMA SpentAhead ==
    ASSUME IsFiniteSet(Actors), CostsRecorded \in [Actors -> Nat], CostsSent \in [Ops -> Nat],
           NEW o \in Ops, Below(CostsSent, CostsRecorded, Ops \ {o})
    PROVE  spent <= projectSpend + CostsSent[o]
<1>1. PICK h : SumOf(h, CostsRecorded, Actors) /\ projectSpend = h[Actors]
  BY SpendSummedNow DEF SpendSummed, SumOf
<1>2. Ops \subseteq Actors /\ IsFiniteSet(Ops)
  BY FS_Subset DEF Actors
<1>3. PICK g : SumOf(g, CostsSent, Ops) /\ spent = g[Ops]
  BY <1>2, SpentIsSum DEF SumOf
<1>4. /\ Ops \in SUBSET Ops /\ Ops \ {o} \in SUBSET Ops
      /\ Actors \in SUBSET Actors /\ Ops \ {o} \subseteq Actors
  BY <1>2
<1>5. g[Ops \ {o}] <= h[Actors]
  BY <1>1, <1>3, <1>4, SumMonotone, Zenon
<1>6. g[Ops \ {o}] \in Nat /\ g[Ops] \in Nat /\ h[Actors] \in Nat /\ CostsSent[o] \in Nat
  BY <1>1, <1>3, <1>4, SumNat
<1>7. Splits(g, CostsSent, Ops, o)
  BY <1>3, <1>4, SumRemove
<1> QED
  BY <1>1, <1>3, <1>5, <1>6, <1>7 DEF Splits

----------------------------------------------------------------------------
(* The invariant of overlapping calls *)

USE RequestConstants DEF Actors, OpCommits, EditCommits, OpSteps, EditSteps, At, Goto, project

\* The status of a record moves within the statuses.
LEMMA TransitionsAreStatuses ==
    \A status \in Statuses : Transitions(status) \subseteq Statuses
BY DEF Transitions, Statuses, Finished

\* What updating one field of a record of an operation gives.
LEMMA RecordUpdates ==
    ASSUME NEW r \in Records
    PROVE  /\ \A status \in Transitions(r.status) : [r EXCEPT !.status = status] \in Records
           /\ [r EXCEPT !.request = TRUE] \in Records
           /\ \A n \in Nat : [r EXCEPT !.response = TRUE, !.cost = @ + n] \in Records
<1>1. r.status \in Statuses /\ r.cost \in Nat
    BY DEF Records
<1>2. ASSUME NEW status \in Transitions(r.status) PROVE [r EXCEPT !.status = status] \in Records
    <2>1. status \in Statuses
        BY <1>1, TransitionsAreStatuses
    <2> QED
        BY <2>1 DEF Records
<1>3. [r EXCEPT !.request = TRUE] \in Records
    BY DEF Records
<1>4. ASSUME NEW n \in Nat PROVE [r EXCEPT !.response = TRUE, !.cost = @ + n] \in Records
    <2>1. r.cost + n \in Nat
        BY <1>1
    <2> QED
        BY <2>1 DEF Records
<1> QED
    BY <1>2, <1>3, <1>4

\* What updating the variables of a call gives.
LEMMA LocalUpdates ==
    ASSUME NEW l \in Locals
    PROVE  /\ l.result \in Finished /\ l.attempt \in 0..MaxAttempts
           /\ \A status \in Finished : [l EXCEPT !.result = status] \in Locals
           /\ \A answer \in BOOLEAN : [l EXCEPT !.approved = answer] \in Locals
           /\ [l EXCEPT !.asked = TRUE] \in Locals
           /\ [l EXCEPT !.attempt = 0] \in Locals
           /\ l.attempt < MaxAttempts => [l EXCEPT !.attempt = @ + 1] \in Locals
           /\ \A p \in Policies : l.calls < MaxCalls =>
                  [l EXCEPT !.calls = @ + 1, !.asked = FALSE, !.held = p] \in Locals
           /\ \A p, q \in Policies : [l EXCEPT !.held = p, !.wanted = q] \in Locals
<1> USE DEF Locals
<1>1. l.result \in Finished /\ l.attempt \in 0..MaxAttempts /\ l.calls \in 0..MaxCalls
    OBVIOUS
<1>2. ASSUME NEW status \in Finished PROVE [l EXCEPT !.result = status] \in Locals
    OBVIOUS
<1>3. ASSUME NEW answer \in BOOLEAN PROVE [l EXCEPT !.approved = answer] \in Locals
    OBVIOUS
<1>4. [l EXCEPT !.asked = TRUE] \in Locals
    OBVIOUS
<1>5. [l EXCEPT !.attempt = 0] \in Locals
    OBVIOUS
<1>6. ASSUME l.attempt < MaxAttempts PROVE [l EXCEPT !.attempt = @ + 1] \in Locals
    <2>1. l.attempt + 1 \in 0..MaxAttempts
        BY <1>1, <1>6
    <2> QED
        BY <2>1
<1>7. ASSUME NEW p \in Policies, l.calls < MaxCalls
      PROVE  [l EXCEPT !.calls = @ + 1, !.asked = FALSE, !.held = p] \in Locals
    <2>1. l.calls + 1 \in 0..MaxCalls
        BY <1>1, <1>7
    <2> QED
        BY <2>1
<1>8. ASSUME NEW p \in Policies, NEW q \in Policies
      PROVE  [l EXCEPT !.held = p, !.wanted = q] \in Locals
    OBVIOUS
<1> HIDE DEF Locals
<1> QED
    BY <1>1, <1>2, <1>3, <1>4, <1>5, <1>6, <1>7, <1>8

\* A call begins with well-typed variables.
LEMMA NoLocalsTyped == NoLocals \in Locals
BY DEF Locals, NoLocals, Finished

\* The invariant holds of a project nobody works on.
LEMMA RequestInit == Init => RequestInv
<1> SUFFICES ASSUME Init PROVE RequestInv
    OBVIOUS
<1>1. NoRecord \in Records /\ ~NoRecord.request
    BY DEF NoRecord, Records, Statuses, Finished
<1>3. TypeOK
    BY <1>1, NoLocalsTyped DEF Init, TypeOK
<1>4. StepsApart /\ EvaluationStands /\ ChainStands
    BY DEF Init, StepsApart, EvaluationStands, ChainStands
<1>5. AttemptsCounted
    BY <1>1 DEF Init, AttemptsCounted, NoLocals
<1> QED
    BY <1>3, <1>4, <1>5 DEF RequestInv

\* Every step of every actor keeps the invariant.
LEMMA RequestStep == RequestInv /\ [Next]_vars => RequestInv'
<1> SUFFICES ASSUME RequestInv, [Next]_vars PROVE RequestInv'
    OBVIOUS
<1> USE DEF RequestInv, TypeOK, StepsApart
<1>1. ASSUME NEW o \in Ops, Begin(o) PROVE RequestInv'
    <2>1. TypeOK' /\ StepsApart'
        BY <1>1 DEF Begin, Idle
    <2>2. EvaluationStands'
        BY <1>1 DEF Begin, Idle, EvaluationStands, Decision, Covered, Locals, Records
    <2>3. ChainStands'
        BY <1>1 DEF Begin, Idle, ChainStands, Locals
    <2>4. AttemptsCounted'
        BY <1>1 DEF Begin, Idle, AttemptsCounted, Locals, Records
    <2> QED
        BY <2>1, <2>2, <2>3, <2>4 DEF RequestInv
<1>2. ASSUME NEW o \in Ops, Open(o) PROVE RequestInv'
    <2>1. TypeOK' /\ StepsApart'
        BY <1>2 DEF Open
    <2>2. EvaluationStands'
        BY <1>2 DEF Open, EvaluationStands, Decision, Covered, Locals, Records
    <2>3. ChainStands'
        BY <1>2 DEF Open, ChainStands, Locals
    <2>4. AttemptsCounted'
        BY <1>2 DEF Open, AttemptsCounted, Locals, Records
    <2> QED
        BY <2>1, <2>2, <2>3, <2>4 DEF RequestInv
<1>3. ASSUME NEW o \in Ops, Create(o) PROVE RequestInv'
    <2>1. TypeOK' /\ StepsApart'
        <3>1. record' \in [Actors -> Records]
            BY <1>3, RecordUpdates DEF Create, Commit, AdvanceRevision, SetStatus
        <3> QED
            BY <1>3, <3>1 DEF Create, Commit, AdvanceRevision, SetStatus
    <2>2. EvaluationStands'
        BY <1>3 DEF Create, Commit, AdvanceRevision, SetStatus, EvaluationStands,
            Decision, Covered, Locals, Records
    <2>3. ChainStands'
        BY <1>3 DEF Create, Commit, AdvanceRevision, SetStatus, ChainStands, Locals
    <2>4. AttemptsCounted'
        BY <1>3 DEF Create, Commit, AdvanceRevision, SetStatus, AttemptsCounted, Locals,
            Records
    <2> QED
        BY <2>1, <2>2, <2>3, <2>4 DEF RequestInv
<1>4. ASSUME NEW o \in Ops, Start(o) PROVE RequestInv'
    <2>1. TypeOK' /\ StepsApart'
        <3>1. record' \in [Actors -> Records]
            BY <1>4, RecordUpdates DEF Start, Commit, AdvanceRevision, SetStatus
        <3> QED
            BY <1>4, <3>1 DEF Start, Commit, AdvanceRevision, SetStatus
    <2>2. EvaluationStands'
        BY <1>4 DEF Start, Commit, AdvanceRevision, SetStatus, EvaluationStands, Decision,
            Covered, Locals, Records
    <2>3. ChainStands'
        BY <1>4 DEF Start, Commit, AdvanceRevision, SetStatus, ChainStands, Locals
    <2>4. AttemptsCounted'
        BY <1>4 DEF Start, Commit, AdvanceRevision, SetStatus, AttemptsCounted, Locals,
            Records
    <2> QED
        BY <2>1, <2>2, <2>3, <2>4 DEF RequestInv
<1>5. ASSUME NEW o \in Ops, EffectReturns(o) PROVE RequestInv'
    <2>1. TypeOK' /\ StepsApart'
        <3>1. local' \in [Actors -> Locals]
            <4>1. PICK status \in Finished : local' = [local EXCEPT ![o].result = status]
                BY <1>5, LocalUpdates DEF EffectReturns, Finished
            <4> QED
                BY <4>1, LocalUpdates
        <3> QED
            BY <1>5, <3>1 DEF EffectReturns
    <2>2. EvaluationStands'
        BY <1>5 DEF EffectReturns, EvaluationStands, Decision, Covered, Locals, NoLocals,
            Records
    <2>3. ChainStands'
        BY <1>5 DEF EffectReturns, ChainStands, Locals, NoLocals
    <2>4. AttemptsCounted'
        BY <1>5 DEF EffectReturns, AttemptsCounted, Locals, NoLocals, Records
    <2> QED
        BY <2>1, <2>2, <2>3, <2>4 DEF RequestInv
<1>6. ASSUME NEW o \in Ops, Finish(o) PROVE RequestInv'
    <2>1. TypeOK' /\ StepsApart'
        <3>1. local' \in [Actors -> Locals]
            BY <1>6, NoLocalsTyped DEF Finish, Commit, AdvanceRevision, SetStatus, Return
        <3>2. record' \in [Actors -> Records]
            BY <1>6, RecordUpdates DEF Finish, Commit, AdvanceRevision, SetStatus, Return
        <3> QED
            BY <1>6, <3>1, <3>2 DEF Finish, Commit, AdvanceRevision, SetStatus, Return
    <2>2. EvaluationStands'
        BY <1>6 DEF Finish, Commit, AdvanceRevision, SetStatus, Return, EvaluationStands,
            Decision, Covered, Locals, NoLocals, Records
    <2>3. ChainStands'
        BY <1>6 DEF Finish, Commit, AdvanceRevision, SetStatus, Return, ChainStands,
            Locals, NoLocals
    <2>4. AttemptsCounted'
        BY <1>6 DEF Finish, Commit, AdvanceRevision, SetStatus, Return, AttemptsCounted,
            Locals, NoLocals, Records
    <2> QED
        BY <2>1, <2>2, <2>3, <2>4 DEF RequestInv
<1>7. ASSUME NEW o \in Ops, LifecycleConflict(o) PROVE RequestInv'
    <2>1. TypeOK' /\ StepsApart'
        <3>1. local' \in [Actors -> Locals]
            BY <1>7, NoLocalsTyped DEF LifecycleConflict, Return
        <3> QED
            BY <1>7, <3>1 DEF LifecycleConflict, Return
    <2>2. EvaluationStands'
        BY <1>7 DEF LifecycleConflict, Return, EvaluationStands, Decision, Covered,
            Locals, NoLocals, Records
    <2>3. ChainStands'
        BY <1>7 DEF LifecycleConflict, Return, ChainStands, Locals, NoLocals
    <2>4. AttemptsCounted'
        BY <1>7 DEF LifecycleConflict, Return, AttemptsCounted, Locals, NoLocals, Records
    <2> QED
        BY <2>1, <2>2, <2>3, <2>4 DEF RequestInv
<1>8. ASSUME NEW o \in Ops, GovernedRequest(o) PROVE RequestInv'
    <2>1. TypeOK' /\ StepsApart'
        <3>1. local' \in [Actors -> Locals]
            BY <1>8, LocalUpdates DEF GovernedRequest
        <3> QED
            BY <1>8, <3>1 DEF GovernedRequest
    <2>2. EvaluationStands'
        BY <1>8 DEF GovernedRequest, EvaluationStands, Decision, Covered, Locals, Records
    <2>3. ChainStands'
        BY <1>8 DEF GovernedRequest, ChainStands, Locals
    <2>4. AttemptsCounted'
        BY <1>8 DEF GovernedRequest, AttemptsCounted, Locals, Records
    <2> QED
        BY <2>1, <2>2, <2>3, <2>4 DEF RequestInv
<1>9. ASSUME NEW o \in Ops, BrokerRefuses(o) PROVE RequestInv'
    <2>1. TypeOK' /\ StepsApart'
        <3>1. local' \in [Actors -> Locals]
            BY <1>9, LocalUpdates DEF BrokerRefuses, Fail, Finished
        <3> QED
            BY <1>9, <3>1 DEF BrokerRefuses, Fail
    <2>2. EvaluationStands'
        BY <1>9 DEF BrokerRefuses, Fail, EvaluationStands, Decision, Covered, Locals,
            Records
    <2>3. ChainStands'
        BY <1>9 DEF BrokerRefuses, Fail, ChainStands, Locals
    <2>4. AttemptsCounted'
        BY <1>9 DEF BrokerRefuses, Fail, AttemptsCounted, Locals, Records
    <2> QED
        BY <2>1, <2>2, <2>3, <2>4 DEF RequestInv
<1>10. ASSUME NEW o \in Ops, BrokerBlocks(o) PROVE RequestInv'
    <2>1. TypeOK' /\ StepsApart'
        <3>1. local' \in [Actors -> Locals]
            BY <1>10, LocalUpdates DEF BrokerBlocks, BrokerAccepts, Fail, Finished
        <3> QED
            BY <1>10, <3>1 DEF BrokerBlocks, BrokerAccepts, Fail
    <2>2. EvaluationStands'
        BY <1>10 DEF BrokerBlocks, BrokerAccepts, Fail, EvaluationStands, Decision,
            Covered, Locals, Records
    <2>3. ChainStands'
        BY <1>10 DEF BrokerBlocks, BrokerAccepts, Fail, ChainStands, Locals
    <2>4. AttemptsCounted'
        BY <1>10 DEF BrokerBlocks, BrokerAccepts, Fail, AttemptsCounted, Locals, Records
    <2> QED
        BY <2>1, <2>2, <2>3, <2>4 DEF RequestInv
<1>11. ASSUME NEW o \in Ops, BrokerAsks(o) PROVE RequestInv'
    <2>1. TypeOK' /\ StepsApart'
        <3>1. local' \in [Actors -> Locals]
            BY <1>11, LocalUpdates DEF BrokerAsks, BrokerAccepts
        <3> QED
            BY <1>11, <3>1 DEF BrokerAsks, BrokerAccepts
    <2>2. EvaluationStands'
        BY <1>11 DEF BrokerAsks, BrokerAccepts, EvaluationStands, Decision, Covered,
            Locals, Records
    <2>3. ChainStands'
        BY <1>11 DEF BrokerAsks, BrokerAccepts, ChainStands, Locals
    <2>4. AttemptsCounted'
        BY <1>11 DEF BrokerAsks, BrokerAccepts, AttemptsCounted, Locals, Records
    <2> QED
        BY <2>1, <2>2, <2>3, <2>4 DEF RequestInv
<1>12. ASSUME NEW o \in Ops, BrokerAllows(o) PROVE RequestInv'
    <2>1. TypeOK' /\ StepsApart'
        BY <1>12 DEF BrokerAllows, BrokerAccepts
    <2>2. EvaluationStands'
        BY <1>12 DEF BrokerAllows, BrokerAccepts, EvaluationStands, Decision, Covered,
            Locals, Records
    <2>3. ChainStands'
        BY <1>12 DEF BrokerAllows, BrokerAccepts, ChainStands, Locals
    <2>4. AttemptsCounted'
        BY <1>12 DEF BrokerAllows, BrokerAccepts, AttemptsCounted, Locals, Records
    <2> QED
        BY <2>1, <2>2, <2>3, <2>4 DEF RequestInv
<1>13. ASSUME NEW o \in Ops, UserAnswers(o) PROVE RequestInv'
    <2>1. TypeOK' /\ StepsApart'
        <3>1. local' \in [Actors -> Locals]
            <4>1. PICK answer \in BOOLEAN : local' = [local EXCEPT ![o].approved = answer]
                BY <1>13 DEF UserAnswers
            <4> QED
                BY <4>1, LocalUpdates
        <3> QED
            BY <1>13, <3>1 DEF UserAnswers
    <2>2. EvaluationStands'
        BY <1>13 DEF UserAnswers, EvaluationStands, Decision, Covered, Locals, Records
    <2>3. ChainStands'
        BY <1>13 DEF UserAnswers, ChainStands, Locals
    <2>4. AttemptsCounted'
        BY <1>13 DEF UserAnswers, AttemptsCounted, Locals, Records
    <2> QED
        BY <2>1, <2>2, <2>3, <2>4 DEF RequestInv
<1>14. ASSUME NEW o \in Ops, CannotAsk(o) PROVE RequestInv'
    <2>1. TypeOK' /\ StepsApart'
        <3>1. local' \in [Actors -> Locals]
            BY <1>14, LocalUpdates DEF CannotAsk, Fail, Finished
        <3> QED
            BY <1>14, <3>1 DEF CannotAsk, Fail
    <2>2. EvaluationStands'
        BY <1>14 DEF CannotAsk, Fail, EvaluationStands, Decision, Covered, Locals, Records
    <2>3. ChainStands'
        BY <1>14 DEF CannotAsk, Fail, ChainStands, Locals
    <2>4. AttemptsCounted'
        BY <1>14 DEF CannotAsk, Fail, AttemptsCounted, Locals, Records
    <2> QED
        BY <2>1, <2>2, <2>3, <2>4 DEF RequestInv
<1>15. ASSUME NEW o \in Ops, RecordApproval(o) PROVE RequestInv'
    <2>1. TypeOK' /\ StepsApart'
        BY <1>15 DEF RecordApproval, Commit, AdvanceRevision
    <2>2. EvaluationStands'
        BY <1>15 DEF RecordApproval, Commit, AdvanceRevision, EvaluationStands, Decision,
            Covered, Locals, Records
    <2>3. ChainStands'
        BY <1>15 DEF RecordApproval, Commit, AdvanceRevision, ChainStands, Locals
    <2>4. AttemptsCounted'
        BY <1>15 DEF RecordApproval, Commit, AdvanceRevision, AttemptsCounted, Locals,
            Records
    <2> QED
        BY <2>1, <2>2, <2>3, <2>4 DEF RequestInv
<1>16. ASSUME NEW o \in Ops, LinkApproval(o) PROVE RequestInv'
    <2>1. TypeOK' /\ StepsApart'
        <3>1. local' \in [Actors -> Locals]
            <4>1. CASE local[o].approved
                BY <1>16, <4>1 DEF LinkApproval
            <4>2. CASE ~local[o].approved
                <5>1. local' = [local EXCEPT ![o].result = "blocked"] /\ "blocked" \in Finished
                    BY <1>16, <4>2 DEF LinkApproval, Fail, Finished
                <5> QED
                    BY <5>1, LocalUpdates
            <4> QED
                BY <4>1, <4>2
        <3> QED
            BY <1>16, <3>1 DEF LinkApproval, Commit, AdvanceRevision, Fail
    <2>2. EvaluationStands'
        BY <1>16 DEF LinkApproval, Commit, AdvanceRevision, Fail, EvaluationStands,
            Decision, Covered, Locals, Records
    <2>3. ChainStands'
        BY <1>16 DEF LinkApproval, Commit, AdvanceRevision, Fail, ChainStands, Locals
    <2>4. AttemptsCounted'
        BY <1>16 DEF LinkApproval, Commit, AdvanceRevision, Fail, AttemptsCounted, Locals,
            Records
    <2> QED
        BY <2>1, <2>2, <2>3, <2>4 DEF RequestInv
<1>17. ASSUME NEW o \in Ops, RequestConflict(o) PROVE RequestInv'
    <2>1. TypeOK' /\ StepsApart'
        <3>1. local' \in [Actors -> Locals]
            BY <1>17, LocalUpdates DEF RequestConflict, Fail, Finished
        <3> QED
            BY <1>17, <3>1 DEF RequestConflict, Fail
    <2>2. EvaluationStands'
        BY <1>17 DEF RequestConflict, Fail, EvaluationStands, Decision, Covered, Locals,
            Records
    <2>3. ChainStands'
        BY <1>17 DEF RequestConflict, Fail, ChainStands, Locals
    <2>4. AttemptsCounted'
        BY <1>17 DEF RequestConflict, Fail, AttemptsCounted, Locals, Records
    <2> QED
        BY <2>1, <2>2, <2>3, <2>4 DEF RequestInv
<1>18. ASSUME NEW o \in Ops, CommitReceipt(o) PROVE RequestInv'
    <2>1. TypeOK' /\ StepsApart'
        <3>1. local' \in [Actors -> Locals]
            BY <1>18, LocalUpdates DEF CommitReceipt, Commit, AdvanceRevision
        <3>2. record' \in [Actors -> Records]
            BY <1>18, RecordUpdates DEF CommitReceipt, Commit, AdvanceRevision
        <3> QED
            BY <1>18, <3>1, <3>2 DEF CommitReceipt, Commit, AdvanceRevision
    <2>2. EvaluationStands'
        BY <1>18 DEF CommitReceipt, Commit, AdvanceRevision, EvaluationStands, Decision,
            Covered, Locals, Records
    <2>3. ChainStands'
        BY <1>18 DEF CommitReceipt, Commit, AdvanceRevision, ChainStands, Locals
    <2>4. AttemptsCounted'
        BY <1>18 DEF CommitReceipt, Commit, AdvanceRevision, AttemptsCounted, Locals,
            Records
    <2> QED
        BY <2>1, <2>2, <2>3, <2>4 DEF RequestInv
<1>19. ASSUME NEW o \in Ops, Send(o) PROVE RequestInv'
    <2>1. TypeOK' /\ StepsApart'
        <3>1. local' \in [Actors -> Locals]
            <4>1. CASE local' = local
                BY <4>1
            <4>2. CASE local[o].attempt < MaxAttempts /\ local' = [local EXCEPT ![o].attempt = @ + 1]
                BY <4>2, LocalUpdates
            <4> QED
                BY <1>19, <4>1, <4>2 DEF Send
        <3> QED
            BY <1>19, <3>1 DEF Send
    <2>2. EvaluationStands'
        BY <1>19 DEF Send, EvaluationStands, Decision, Covered, Locals, Records
    <2>3. ChainStands'
        BY <1>19 DEF Send, ChainStands, Locals
    <2>4. AttemptsCounted'
        BY <1>19 DEF Send, AttemptsCounted, Locals, Records
    <2> QED
        BY <2>1, <2>2, <2>3, <2>4 DEF RequestInv
<1>20. ASSUME NEW o \in Ops, Answered(o) PROVE RequestInv'
    <2>1. TypeOK' /\ StepsApart'
        <3>1. local' \in [Actors -> Locals]
            <4>1. PICK status \in Finished : local' = [local EXCEPT ![o].result = status]
                BY <1>20 DEF Answered, Finished
            <4> QED
                BY <4>1, LocalUpdates
        <3> QED
            BY <1>20, <3>1 DEF Answered
    <2>2. EvaluationStands'
        BY <1>20 DEF Answered, EvaluationStands, Decision, Covered, Locals, Records
    <2>3. ChainStands'
        BY <1>20 DEF Answered, ChainStands, Locals
    <2>4. AttemptsCounted'
        BY <1>20 DEF Answered, AttemptsCounted, Locals, Records
    <2> QED
        BY <2>1, <2>2, <2>3, <2>4 DEF RequestInv
<1>21. ASSUME NEW o \in Ops, Retryable(o) PROVE RequestInv'
    <2>1. TypeOK' /\ StepsApart'
        <3>1. local' \in [Actors -> Locals]
            BY <1>21, LocalUpdates DEF Retryable, Finished
        <3> QED
            BY <1>21, <3>1 DEF Retryable
    <2>2. EvaluationStands'
        BY <1>21 DEF Retryable, EvaluationStands, Decision, Covered, Locals, Records
    <2>3. ChainStands'
        BY <1>21 DEF Retryable, ChainStands, Locals
    <2>4. AttemptsCounted'
        BY <1>21 DEF Retryable, AttemptsCounted, Locals, Records
    <2> QED
        BY <2>1, <2>2, <2>3, <2>4 DEF RequestInv
<1>22. ASSUME NEW o \in Ops, Aborted(o) PROVE RequestInv'
    <2>1. TypeOK' /\ StepsApart'
        <3>1. local' \in [Actors -> Locals]
            BY <1>22, LocalUpdates DEF Aborted, Finished
        <3> QED
            BY <1>22, <3>1 DEF Aborted
    <2>2. EvaluationStands'
        BY <1>22 DEF Aborted, EvaluationStands, Decision, Covered, Locals, Records
    <2>3. ChainStands'
        BY <1>22 DEF Aborted, ChainStands, Locals
    <2>4. AttemptsCounted'
        BY <1>22 DEF Aborted, AttemptsCounted, Locals, Records
    <2> QED
        BY <2>1, <2>2, <2>3, <2>4 DEF RequestInv
<1>23. ASSUME NEW o \in Ops, CommitResponse(o) PROVE RequestInv'
    <2>1. TypeOK' /\ StepsApart'
        <3>1. record' \in [Actors -> Records]
            <4>1. local[o].attempt \in 0..MaxAttempts
                BY LocalUpdates
            <4>2. Cost(o, local[o].attempt) \in Nat
                BY <4>1 DEF Cost
            <4> QED
                BY <1>23, <4>2, RecordUpdates DEF CommitResponse
        <3> QED
            BY <1>23, <3>1 DEF CommitResponse, Commit, AdvanceRevision
    <2>2. EvaluationStands'
        BY <1>23 DEF CommitResponse, Commit, AdvanceRevision, EvaluationStands, Decision,
            Covered, Locals, Records
    <2>3. ChainStands'
        BY <1>23 DEF CommitResponse, Commit, AdvanceRevision, ChainStands, Locals
    <2>4. AttemptsCounted'
        BY <1>23 DEF CommitResponse, Commit, AdvanceRevision, AttemptsCounted, Locals,
            Records
    <2> QED
        BY <2>1, <2>2, <2>3, <2>4 DEF RequestInv
<1>24. ASSUME NEW e \in Edits, EditOpen(e) PROVE RequestInv'
    <2>1. TypeOK' /\ StepsApart'
        <3>1. local' \in [Actors -> Locals]
            <4>1. PICK p \in Policies : local' = [local EXCEPT ![e].held = policy, ![e].wanted = p]
                BY <1>24 DEF EditOpen, Idle
            <4> QED
                BY <4>1, LocalUpdates
        <3> QED
            BY <1>24, <3>1 DEF EditOpen, Idle
    <2>2. EvaluationStands'
        BY <1>24 DEF EditOpen, Idle, EvaluationStands, Decision, Covered, Locals, Records
    <2>3. ChainStands'
        BY <1>24 DEF EditOpen, Idle, ChainStands, Locals
    <2>4. AttemptsCounted'
        BY <1>24 DEF EditOpen, Idle, AttemptsCounted, Locals, Records
    <2> QED
        BY <2>1, <2>2, <2>3, <2>4 DEF RequestInv
<1>25. ASSUME NEW e \in Edits, EditCreate(e) PROVE RequestInv'
    <2>1. TypeOK' /\ StepsApart'
        <3>1. record' \in [Actors -> Records]
            BY <1>25, RecordUpdates DEF EditCreate, EditCommit, AdvanceRevision, SetStatus
        <3> QED
            BY <1>25, <3>1 DEF EditCreate, EditCommit, AdvanceRevision, SetStatus
    <2>2. EvaluationStands'
        BY <1>25 DEF EditCreate, EditCommit, AdvanceRevision, SetStatus, EvaluationStands,
            Decision, Covered, Locals, Records
    <2>3. ChainStands'
        BY <1>25 DEF EditCreate, EditCommit, AdvanceRevision, SetStatus, ChainStands, Locals
    <2>4. AttemptsCounted'
        BY <1>25 DEF EditCreate, EditCommit, AdvanceRevision, SetStatus, AttemptsCounted,
            Locals, Records
    <2> QED
        BY <2>1, <2>2, <2>3, <2>4 DEF RequestInv
<1>26. ASSUME NEW e \in Edits, EditAwait(e) PROVE RequestInv'
    <2>1. TypeOK' /\ StepsApart'
        <3>1. record' \in [Actors -> Records]
            BY <1>26, RecordUpdates DEF EditAwait, EditCommit, AdvanceRevision, SetStatus
        <3> QED
            BY <1>26, <3>1 DEF EditAwait, EditCommit, AdvanceRevision, SetStatus
    <2>2. EvaluationStands'
        BY <1>26 DEF EditAwait, EditCommit, AdvanceRevision, SetStatus, EvaluationStands,
            Decision, Covered, Locals, Records
    <2>3. ChainStands'
        BY <1>26 DEF EditAwait, EditCommit, AdvanceRevision, SetStatus, ChainStands, Locals
    <2>4. AttemptsCounted'
        BY <1>26 DEF EditAwait, EditCommit, AdvanceRevision, SetStatus, AttemptsCounted,
            Locals, Records
    <2> QED
        BY <2>1, <2>2, <2>3, <2>4 DEF RequestInv
<1>27. ASSUME NEW e \in Edits, EditConfirm(e) PROVE RequestInv'
    <2>1. TypeOK' /\ StepsApart'
        <3>1. local' \in [Actors -> Locals]
            <4>1. PICK answer \in BOOLEAN : local' = [local EXCEPT ![e].approved = answer]
                BY <1>27 DEF EditConfirm
            <4> QED
                BY <4>1, LocalUpdates
        <3> QED
            BY <1>27, <3>1 DEF EditConfirm
    <2>2. EvaluationStands'
        BY <1>27 DEF EditConfirm, EvaluationStands, Decision, Covered, Locals, Records
    <2>3. ChainStands'
        BY <1>27 DEF EditConfirm, ChainStands, Locals
    <2>4. AttemptsCounted'
        BY <1>27 DEF EditConfirm, AttemptsCounted, Locals, Records
    <2> QED
        BY <2>1, <2>2, <2>3, <2>4 DEF RequestInv
<1>28. ASSUME NEW e \in Edits, EditApproval(e) PROVE RequestInv'
    <2>1. TypeOK' /\ StepsApart'
        BY <1>28 DEF EditApproval, EditCommit, AdvanceRevision
    <2>2. EvaluationStands'
        BY <1>28 DEF EditApproval, EditCommit, AdvanceRevision, EvaluationStands,
            Decision, Covered, Locals, Records
    <2>3. ChainStands'
        BY <1>28 DEF EditApproval, EditCommit, AdvanceRevision, ChainStands, Locals
    <2>4. AttemptsCounted'
        BY <1>28 DEF EditApproval, EditCommit, AdvanceRevision, AttemptsCounted, Locals,
            Records
    <2> QED
        BY <2>1, <2>2, <2>3, <2>4 DEF RequestInv
<1>29. ASSUME NEW e \in Edits, EditBlock(e) PROVE RequestInv'
    <2>1. TypeOK' /\ StepsApart'
        <3>1. local' \in [Actors -> Locals]
            BY <1>29, NoLocalsTyped DEF EditBlock, Commit, AdvanceRevision, SetStatus,
                Return
        <3>2. record' \in [Actors -> Records]
            BY <1>29, RecordUpdates DEF EditBlock, Commit, AdvanceRevision, SetStatus,
                Return
        <3> QED
            BY <1>29, <3>1, <3>2 DEF EditBlock, Commit, AdvanceRevision, SetStatus, Return
    <2>2. EvaluationStands'
        BY <1>29 DEF EditBlock, Commit, AdvanceRevision, SetStatus, Return,
            EvaluationStands, Decision, Covered, Locals, NoLocals, Records
    <2>3. ChainStands'
        BY <1>29 DEF EditBlock, Commit, AdvanceRevision, SetStatus, Return, ChainStands,
            Locals, NoLocals
    <2>4. AttemptsCounted'
        BY <1>29 DEF EditBlock, Commit, AdvanceRevision, SetStatus, Return,
            AttemptsCounted, Locals, NoLocals, Records
    <2> QED
        BY <2>1, <2>2, <2>3, <2>4 DEF RequestInv
<1>30. ASSUME NEW e \in Edits, EditRun(e) PROVE RequestInv'
    <2>1. TypeOK' /\ StepsApart'
        <3>1. record' \in [Actors -> Records]
            BY <1>30, RecordUpdates DEF EditRun, EditCommit, AdvanceRevision, SetStatus
        <3> QED
            BY <1>30, <3>1 DEF EditRun, EditCommit, AdvanceRevision, SetStatus
    <2>2. EvaluationStands'
        BY <1>30 DEF EditRun, EditCommit, AdvanceRevision, SetStatus, EvaluationStands,
            Decision, Covered, Locals, Records
    <2>3. ChainStands'
        BY <1>30 DEF EditRun, EditCommit, AdvanceRevision, SetStatus, ChainStands, Locals
    <2>4. AttemptsCounted'
        BY <1>30 DEF EditRun, EditCommit, AdvanceRevision, SetStatus, AttemptsCounted,
            Locals, Records
    <2> QED
        BY <2>1, <2>2, <2>3, <2>4 DEF RequestInv
<1>31. ASSUME NEW e \in Edits, EditPolicy(e) PROVE RequestInv'
    <2>1. TypeOK' /\ StepsApart'
        BY <1>31 DEF EditPolicy, EditCommit, AdvanceRevision, ChainStands
    <2>2. EvaluationStands'
        BY <1>31 DEF EditPolicy, EditCommit, AdvanceRevision, EvaluationStands, Decision,
            Covered, Locals, Records
    <2>3. ChainStands'
        BY <1>31 DEF EditPolicy, EditCommit, AdvanceRevision, ChainStands, Locals
    <2>4. AttemptsCounted'
        BY <1>31 DEF EditPolicy, EditCommit, AdvanceRevision, AttemptsCounted, Locals,
            Records
    <2> QED
        BY <2>1, <2>2, <2>3, <2>4 DEF RequestInv
<1>32. ASSUME NEW e \in Edits, EditFinish(e) PROVE RequestInv'
    <2>1. TypeOK' /\ StepsApart'
        <3>1. local' \in [Actors -> Locals]
            BY <1>32, NoLocalsTyped DEF EditFinish, Commit, AdvanceRevision, SetStatus,
                Return
        <3>2. record' \in [Actors -> Records]
            BY <1>32, RecordUpdates DEF EditFinish, Commit, AdvanceRevision, SetStatus,
                Return
        <3> QED
            BY <1>32, <3>1, <3>2 DEF EditFinish, Commit, AdvanceRevision, SetStatus, Return
    <2>2. EvaluationStands'
        BY <1>32 DEF EditFinish, Commit, AdvanceRevision, SetStatus, Return,
            EvaluationStands, Decision, Covered, Locals, NoLocals, Records
    <2>3. ChainStands'
        BY <1>32 DEF EditFinish, Commit, AdvanceRevision, SetStatus, Return, ChainStands,
            Locals, NoLocals
    <2>4. AttemptsCounted'
        BY <1>32 DEF EditFinish, Commit, AdvanceRevision, SetStatus, Return,
            AttemptsCounted, Locals, NoLocals, Records
    <2> QED
        BY <2>1, <2>2, <2>3, <2>4 DEF RequestInv
<1>33. ASSUME NEW e \in Edits, EditConflict(e) PROVE RequestInv'
    <2>1. TypeOK' /\ StepsApart'
        <3>1. local' \in [Actors -> Locals]
            BY <1>33, NoLocalsTyped DEF EditConflict, Return
        <3> QED
            BY <1>33, <3>1 DEF EditConflict, Return
    <2>2. EvaluationStands'
        BY <1>33 DEF EditConflict, Return, EvaluationStands, Decision, Covered, Locals,
            NoLocals, Records
    <2>3. ChainStands'
        BY <1>33 DEF EditConflict, Return, ChainStands, Locals, NoLocals
    <2>4. AttemptsCounted'
        BY <1>33 DEF EditConflict, Return, AttemptsCounted, Locals, NoLocals, Records
    <2> QED
        BY <2>1, <2>2, <2>3, <2>4 DEF RequestInv
<1>34. ASSUME NEW a \in Actors, Crash(a) PROVE RequestInv'
    <2>1. TypeOK' /\ StepsApart'
        <3>1. local' \in [Actors -> Locals]
            BY <1>34, NoLocalsTyped DEF Crash, Return
        <3> QED
            BY <1>34, <3>1 DEF Crash, Return
    <2>2. EvaluationStands'
        BY <1>34 DEF Crash, Return, EvaluationStands, Decision, Covered, Locals, NoLocals,
            Records
    <2>3. ChainStands'
        BY <1>34 DEF Crash, Return, ChainStands, Locals, NoLocals
    <2>4. AttemptsCounted'
        BY <1>34 DEF Crash, Return, AttemptsCounted, Locals, NoLocals, Records
    <2> QED
        BY <2>1, <2>2, <2>3, <2>4 DEF RequestInv
<1>35. CASE UNCHANGED vars
    BY <1>35 DEF vars, RequestInv, TypeOK, StepsApart, EvaluationStands, Decision,
        Covered, ChainStands, AttemptsCounted
<1> QED
    BY <1>1, <1>2, <1>3, <1>4, <1>5, <1>6, <1>7, <1>8, <1>9, <1>10, <1>11, <1>12, <1>13,
        <1>14, <1>15, <1>16, <1>17, <1>18, <1>19, <1>20, <1>21, <1>22, <1>23, <1>24,
        <1>25, <1>26, <1>27, <1>28, <1>29, <1>30, <1>31, <1>32, <1>33, <1>34, <1>35
    DEF Next, OpStep, ServiceStep, EditStep

\* The invariant holds of every reachable state.
THEOREM RequestInvariant == Spec => []RequestInv
<1> QED
    BY RequestInit, RequestStep, PTL DEF Spec

\* The project, the records and the variables of every call are well typed.
THEOREM RequestsTypeCorrect == Spec => []TypeOK
<1>1. RequestInv => TypeOK
    BY DEF RequestInv
<1> QED
    BY <1>1, RequestInvariant, PTL

\* Nothing is sent without a receipt, and never more often than one intent
\* permits, however often the effect calls the broker.
THEOREM RequestIsRecorded == Spec => []OneRecordedRequest
<1>1. RequestInv => OneRecordedRequest
    BY DEF RequestInv, AttemptsCounted, OneRecordedRequest, TypeOK
<1> QED
    BY <1>1, RequestInvariant, PTL

\* Only CommitReceipt records a request.
LEMMA RequestRecordedByReceipt ==
    ASSUME RequestInv, [Next]_vars, NEW o \in Ops, ~record[o].request, record'[o].request
    PROVE  CommitReceipt(o)
<1> USE DEF RequestInv, TypeOK, Records
<1>1. ASSUME NEW q \in Ops,
             Begin(q) \/ Open(q) \/ Create(q) \/ Start(q) \/ EffectReturns(q) \/ Finish(q)
      PROVE  record'[o].request = record[o].request
    BY <1>1 DEF Begin, Idle, Open, Create, Commit, AdvanceRevision, SetStatus, Start,
        EffectReturns, Finish, Return
<1>2. ASSUME NEW q \in Ops,
             LifecycleConflict(q) \/ GovernedRequest(q) \/ BrokerRefuses(q) \/ BrokerBlocks(q) \/ BrokerAsks(q) \/ BrokerAllows(q)
      PROVE  record'[o].request = record[o].request
    BY <1>2 DEF LifecycleConflict, Return, GovernedRequest, BrokerRefuses, Fail,
        BrokerBlocks, BrokerAccepts, BrokerAsks, BrokerAllows
<1>3. ASSUME NEW q \in Ops,
             UserAnswers(q) \/ CannotAsk(q) \/ RecordApproval(q) \/ LinkApproval(q) \/ RequestConflict(q) \/ Send(q)
      PROVE  record'[o].request = record[o].request
    BY <1>3 DEF UserAnswers, CannotAsk, Fail, RecordApproval, Commit, AdvanceRevision,
        LinkApproval, RequestConflict, Send
<1>4. ASSUME NEW q \in Ops,
             Answered(q) \/ Retryable(q) \/ Aborted(q) \/ CommitResponse(q)
      PROVE  record'[o].request = record[o].request
    BY <1>4 DEF Answered, Retryable, Aborted, CommitResponse, Commit, AdvanceRevision
<1>5. ASSUME NEW e \in Edits,
             EditOpen(e) \/ EditCreate(e) \/ EditAwait(e) \/ EditConfirm(e) \/ EditApproval(e) \/ EditBlock(e)
      PROVE  record'[o].request = record[o].request
    BY <1>5 DEF EditOpen, Idle, EditCreate, EditCommit, AdvanceRevision, SetStatus,
        EditAwait, EditConfirm, EditApproval, EditBlock, Commit, Return
<1>6. ASSUME NEW e \in Edits,
             EditRun(e) \/ EditPolicy(e) \/ EditFinish(e) \/ EditConflict(e)
      PROVE  record'[o].request = record[o].request
    BY <1>6 DEF EditRun, EditCommit, AdvanceRevision, SetStatus, EditPolicy, EditFinish,
        Commit, Return, EditConflict
<1>7. ASSUME (\E a \in Actors : Crash(a)) \/ UNCHANGED vars PROVE record'[o].request = record[o].request
    BY <1>7 DEF Crash, vars
<1>8. ASSUME NEW q \in Ops, CommitReceipt(q) PROVE q = o
    BY <1>8 DEF CommitReceipt
<1> QED
    BY <1>1, <1>2, <1>3, <1>4, <1>5, <1>6, <1>7, <1>8 DEF Next, OpStep, ServiceStep,
        EditStep

\* A receipt is committed only under the decision "allow": the commit needs a
\* current revision, and as long as the revision is current the evaluation
\* made with it stands.
THEOREM EgressIsAuthorised == Spec => EgressAuthorised
<1>1. RequestInv /\ [Next]_vars =>
        \A o \in Ops : ~record[o].request /\ record'[o].request => Decision(o) = "allow"
    <2> SUFFICES ASSUME RequestInv, [Next]_vars, NEW o \in Ops,
                        ~record[o].request, record'[o].request
                 PROVE  Decision(o) = "allow"
        OBVIOUS
    <2>1. CommitReceipt(o)
        BY RequestRecordedByReceipt
    <2> QED
        BY <2>1 DEF CommitReceipt, Commit, RequestInv, EvaluationStands
<1> QED
    BY <1>1, RequestInvariant, PTL DEF Spec, EgressAuthorised

\* Only the commit of an approved edit whose chain is unbroken replaces the
\* policy, and then the user was shown the policy it replaces.
THEOREM PolicyIsReplacedAsShown == Spec => PolicyReplacedAsShown
<1>1. RequestInv /\ [Next]_vars =>
        (policy' # policy => \E e \in Edits : At(e, "edit-policy") /\ local[e].approved
                                              /\ local[e].held = policy /\ policy' = local[e].wanted)
    <2> SUFFICES ASSUME RequestInv, [Next]_vars, policy' # policy
                 PROVE  \E e \in Edits : At(e, "edit-policy") /\ local[e].approved
                                         /\ local[e].held = policy /\ policy' = local[e].wanted
        OBVIOUS
    <2>1. PICK e \in Edits : EditPolicy(e)
        <3>1. ASSUME NEW q \in Ops,
                     Begin(q) \/ Open(q) \/ Create(q) \/ Start(q) \/ EffectReturns(q) \/ Finish(q)
              PROVE  policy' = policy
            BY <3>1 DEF Begin, Idle, Open, Create, Commit, AdvanceRevision,
                SetStatus, Start, EffectReturns, Finish, Return
        <3>2. ASSUME NEW q \in Ops,
                     LifecycleConflict(q) \/ GovernedRequest(q) \/ BrokerRefuses(q) \/ BrokerBlocks(q) \/ BrokerAsks(q) \/ BrokerAllows(q)
              PROVE  policy' = policy
            BY <3>2 DEF LifecycleConflict, Return, GovernedRequest,
                BrokerRefuses, Fail, BrokerBlocks, BrokerAccepts, BrokerAsks,
                BrokerAllows
        <3>3. ASSUME NEW q \in Ops,
                     UserAnswers(q) \/ CannotAsk(q) \/ RecordApproval(q) \/ LinkApproval(q) \/ RequestConflict(q) \/ CommitReceipt(q)
              PROVE  policy' = policy
            BY <3>3 DEF UserAnswers, CannotAsk, Fail, RecordApproval, Commit,
                AdvanceRevision, LinkApproval, RequestConflict, CommitReceipt
        <3>4. ASSUME NEW q \in Ops,
                     Send(q) \/ Answered(q) \/ Retryable(q) \/ Aborted(q) \/ CommitResponse(q)
              PROVE  policy' = policy
            BY <3>4 DEF Send, Answered, Retryable, Aborted, CommitResponse,
                Commit, AdvanceRevision
        <3>5. ASSUME NEW e \in Edits,
                     EditOpen(e) \/ EditCreate(e) \/ EditAwait(e) \/ EditConfirm(e) \/ EditApproval(e) \/ EditBlock(e)
              PROVE  policy' = policy
            BY <3>5 DEF EditOpen, Idle, EditCreate, EditCommit, AdvanceRevision,
                SetStatus, EditAwait, EditConfirm, EditApproval, EditBlock,
                Commit, Return
        <3>6. ASSUME NEW e \in Edits,
                     EditRun(e) \/ EditFinish(e) \/ EditConflict(e)
              PROVE  policy' = policy
            BY <3>6 DEF EditRun, EditCommit, AdvanceRevision, SetStatus,
                EditFinish, Commit, Return, EditConflict
        <3>7. ASSUME (\E a \in Actors : Crash(a)) \/ UNCHANGED vars PROVE policy' = policy
            BY <3>7 DEF Crash, vars
        <3> QED
            BY <3>1, <3>2, <3>3, <3>4, <3>5, <3>6, <3>7 DEF Next, OpStep, ServiceStep,
                EditStep
    <2> QED
        BY <2>1 DEF EditPolicy, EditCommit, RequestInv, ChainStands
<1> QED
    BY <1>1, RequestInvariant, PTL DEF Spec, PolicyReplacedAsShown

----------------------------------------------------------------------------
(* The ledger, when calls do not overlap and no process dies *)

LEMMA LedgerInit == Init => LedgerInv
<1> SUFFICES ASSUME Init PROVE LedgerInv
    OBVIOUS
<1>1. /\ \A a \in Actors : record[a].cost = 0 /\ pc[a] = "idle" /\ hand[a] = "none"
      /\ \A o \in Ops : sent[o] = 0
    BY DEF Init, NoRecord
<1>2. OneRunning /\ NeverStale /\ LedgerFollows /\ ReturnedFinished
    BY <1>1 DEF OneRunning, NeverStale, Running, LedgerFollows, Recorded, InFlight, Cost,
        ReturnedFinished
<1>3. BudgetHeld
    BY <1>1 DEF BudgetHeld, InFlight
<1> QED
    BY <1>2, <1>3 DEF LedgerInv

\* The step belongs to one actor, who runs or starts when nobody does; what the
\* others have is left alone.
Turn(a) ==
    /\ Running(a) \/ \A b \in Actors : ~Running(b)
    /\ \A b \in Actors \ {a} :
          /\ pc'[b] = pc[b] /\ record'[b] = record[b] /\ local'[b] = local[b]
          /\ hand[b] = "none" => hand'[b] = "none"
          /\ b \in Ops => sent'[b] = sent[b]

\* The actor holds no stale revision and none when it has returned, and it
\* returns only with a finished operation.
HandsAndStatus(a) ==
    /\ hand'[a] # "stale"
    /\ hand'[a] = "current" => Running(a)'
    /\ pc'[a] = "done" => record'[a].status \in Finished

LEMMA OthersWait ==
    ASSUME TypeOK, LedgerInv, NEW a \in Actors, Turn(a)
    PROVE  \A b \in Actors \ {a} : ~Running(b) /\ ~Running(b)' /\ hand[b] = "none"
<1>1. \A b \in Actors \ {a} : ~Running(b) /\ hand[b] # "stale" /\ hand[b] # "current"
    BY DEF LedgerInv, OneRunning, NeverStale, Turn
<1>2. \A b \in Actors \ {a} : pc'[b] = pc[b]
    BY DEF Turn
<1>3. \A b \in Actors \ {a} : hand[b] \in {"none", "current", "stale"}
    BY DEF TypeOK
<1> QED
    BY <1>1, <1>2, <1>3 DEF Running

LEMMA LedgerTurn ==
    ASSUME TypeOK, LedgerInv, NEW a \in Actors, Turn(a), HandsAndStatus(a),
           IF a \in Ops THEN Recorded(a)' ELSE record'[a].cost = 0
    PROVE  OneRunning' /\ NeverStale' /\ LedgerFollows' /\ ReturnedFinished'
<1>1. OneRunning'
    BY OthersWait DEF OneRunning
<1>2. NeverStale'
    BY OthersWait DEF NeverStale, Turn, HandsAndStatus
<1>3. \A o \in Ops \ {a} : Recorded(o)'
    BY DEF LedgerInv, LedgerFollows, Turn, Recorded, InFlight
<1>4. \A e \in Edits \ {a} : record'[e].cost = 0
    BY DEF LedgerInv, LedgerFollows, Turn
<1>5. LedgerFollows'
    BY <1>3, <1>4 DEF LedgerFollows
<1>6. ReturnedFinished'
    BY DEF LedgerInv, ReturnedFinished, Turn, HandsAndStatus
<1> QED
    BY <1>1, <1>2, <1>5, <1>6

\* The costs are numbers the sum can be taken of.
LEMMA CostsTyped ==
    ASSUME TypeOK PROVE CostsRecorded \in [Actors -> Nat] /\ CostsSent \in [Ops -> Nat]
    BY DEF TypeOK, Records, CostsRecorded, CostsSent, Cost

\* A step that records no cost keeps the budget, when the broker has checked
\* it before the step that needs it.
LEMMA BudgetTurn ==
    ASSUME IsFiniteSet(Actors), LedgerInv, TypeOK, NEW a \in Actors, Turn(a),
           record'[a].cost = record[a].cost, a \in Ops => policy' = policy,
           a \in Ops /\ pc'[a] \in {"receipt", "send", "await", "response"} => WithinBudget(a)
    PROVE  BudgetHeld'
<1>1. \A b \in Actors : record'[b].cost = record[b].cost
    BY DEF Turn
<1>2. CostsRecorded' = CostsRecorded
    BY <1>1 DEF CostsRecorded
<1>3. projectSpend' = projectSpend
    <2> HIDE DEF Actors
    <2> QED
        BY <1>2, SpendKept
<1>4. a \in Ops => (WithinBudget(a)' <=> WithinBudget(a))
    BY <1>3 DEF WithinBudget, Permitted, estimatedCost, Cost, Paid
<1>5. ASSUME NEW o \in Ops, pc'[o] \in {"receipt", "send", "await", "response"}
      PROVE  o = a
    BY <1>5, OthersWait DEF Running
<1> QED
    BY <1>3, <1>4, <1>5 DEF LedgerInv, BudgetHeld, InFlight

\* An operation does not touch the policy, and so not the limit.
LEMMA OpKeepsPolicy ==
    ASSUME NEW o \in Ops,
           \/ Begin(o) \/ GovernedRequest(o) \/ UserAnswers(o) \/ Aborted(o)
           \/ OpStep(o) \/ ServiceStep(o)
    PROVE  policy' = policy
    BY DEF Begin, GovernedRequest, UserAnswers, Aborted, OpStep, ServiceStep, Open, Create, Start,
        EffectReturns, Finish, LifecycleConflict, BrokerRefuses, BrokerBlocks, BrokerAsks,
        BrokerAllows, CannotAsk, RecordApproval, LinkApproval, RequestConflict, CommitReceipt, Send,
        CommitResponse, Answered, Retryable

\* Every step of an operation keeps the ledger in order.
LEMMA LedgerOpStep ==
    ASSUME IsFiniteSet(Actors), SerialUse, RequestInv, LedgerInv, NEW o \in Ops,
           \/ Begin(o) \/ GovernedRequest(o) \/ UserAnswers(o) \/ Aborted(o)
           \/ OpStep(o) \/ ServiceStep(o)
    PROVE  LedgerInv'
<1> USE DEF RequestInv, TypeOK, StepsApart
<1>p. policy' = policy
    BY OpKeepsPolicy
<1>1. CASE Begin(o)
    <2>1. Turn(o)
        BY <1>1 DEF Begin, Idle, Turn, Running, SerialUse
    <2>2. HandsAndStatus(o) /\ record'[o].cost = record[o].cost
        BY <1>1 DEF Begin, Idle, HandsAndStatus, Running, Records, Locals, Finished,
            LedgerInv, NeverStale
    <2>3. Recorded(o)'
        BY <1>1 DEF Begin, Idle, Recorded, InFlight, LedgerInv, LedgerFollows, Records,
            Locals, AttemptsCounted, Cost
    <2>4. pc'[o] \in {"receipt", "send", "await", "response"} => WithinBudget(o)
        BY <1>1 DEF Begin, Idle, LedgerInv, BudgetHeld, InFlight
    <2>5. BudgetHeld'
        BY <1>p, <2>1, <2>2, <2>4, BudgetTurn
    <2> QED
        BY <2>1, <2>2, <2>3, <2>5, LedgerTurn DEF LedgerInv
<1>2. CASE Open(o)
    <2>1. Turn(o)
        BY <1>2 DEF Open, Turn, Running, SerialUse
    <2>2. HandsAndStatus(o) /\ record'[o].cost = record[o].cost
        BY <1>2 DEF Open, HandsAndStatus, Running, Records, Locals, Finished, LedgerInv,
            NeverStale
    <2>3. Recorded(o)'
        BY <1>2 DEF Open, Recorded, InFlight, LedgerInv, LedgerFollows, Records, Locals,
            AttemptsCounted, Cost
    <2>4. pc'[o] \in {"receipt", "send", "await", "response"} => WithinBudget(o)
        BY <1>2 DEF Open, LedgerInv, BudgetHeld, InFlight
    <2>5. BudgetHeld'
        BY <1>p, <2>1, <2>2, <2>4, BudgetTurn
    <2> QED
        BY <2>1, <2>2, <2>3, <2>5, LedgerTurn DEF LedgerInv
<1>3. CASE Create(o)
    <2>1. Turn(o)
        BY <1>3 DEF Create, Commit, AdvanceRevision, SetStatus, Turn, Running, SerialUse
    <2>2. HandsAndStatus(o) /\ record'[o].cost = record[o].cost
        BY <1>3 DEF Create, Commit, AdvanceRevision, SetStatus, HandsAndStatus, Running,
            Records, Locals, Finished, LedgerInv, NeverStale
    <2>3. Recorded(o)'
        BY <1>3 DEF Create, Commit, AdvanceRevision, SetStatus, Recorded, InFlight,
            LedgerInv, LedgerFollows, Records, Locals, AttemptsCounted, Cost
    <2>4. pc'[o] \in {"receipt", "send", "await", "response"} => WithinBudget(o)
        BY <1>3 DEF Create, Commit, AdvanceRevision, SetStatus, LedgerInv, BudgetHeld, InFlight
    <2>5. BudgetHeld'
        BY <1>p, <2>1, <2>2, <2>4, BudgetTurn
    <2> QED
        BY <2>1, <2>2, <2>3, <2>5, LedgerTurn DEF LedgerInv
<1>4. CASE Start(o)
    <2>1. Turn(o)
        BY <1>4 DEF Start, Commit, AdvanceRevision, SetStatus, Turn, Running, SerialUse
    <2>2. HandsAndStatus(o) /\ record'[o].cost = record[o].cost
        BY <1>4 DEF Start, Commit, AdvanceRevision, SetStatus, HandsAndStatus, Running,
            Records, Locals, Finished, LedgerInv, NeverStale
    <2>3. Recorded(o)'
        BY <1>4 DEF Start, Commit, AdvanceRevision, SetStatus, Recorded, InFlight,
            LedgerInv, LedgerFollows, Records, Locals, AttemptsCounted, Cost
    <2>4. pc'[o] \in {"receipt", "send", "await", "response"} => WithinBudget(o)
        BY <1>4 DEF Start, Commit, AdvanceRevision, SetStatus, LedgerInv, BudgetHeld, InFlight
    <2>5. BudgetHeld'
        BY <1>p, <2>1, <2>2, <2>4, BudgetTurn
    <2> QED
        BY <2>1, <2>2, <2>3, <2>5, LedgerTurn DEF LedgerInv
<1>5. CASE EffectReturns(o)
    <2>1. Turn(o)
        BY <1>5 DEF EffectReturns, Turn, Running, SerialUse
    <2>2. HandsAndStatus(o) /\ record'[o].cost = record[o].cost
        BY <1>5 DEF EffectReturns, HandsAndStatus, Running, Records, Locals, Finished,
            LedgerInv, NeverStale
    <2>3. Recorded(o)'
        BY <1>5 DEF EffectReturns, Recorded, InFlight, LedgerInv, LedgerFollows, Records,
            Locals, AttemptsCounted, Cost
    <2>4. pc'[o] \in {"receipt", "send", "await", "response"} => WithinBudget(o)
        BY <1>5 DEF EffectReturns, LedgerInv, BudgetHeld, InFlight
    <2>5. BudgetHeld'
        BY <1>p, <2>1, <2>2, <2>4, BudgetTurn
    <2> QED
        BY <2>1, <2>2, <2>3, <2>5, LedgerTurn DEF LedgerInv
<1>6. CASE Finish(o)
    <2>1. Turn(o)
        BY <1>6 DEF Finish, Commit, AdvanceRevision, SetStatus, Return, NoLocals, Turn,
            Running, SerialUse
    <2>2. HandsAndStatus(o) /\ record'[o].cost = record[o].cost
        BY <1>6 DEF Finish, Commit, AdvanceRevision, SetStatus, Return, NoLocals,
            HandsAndStatus, Running, Records, Locals, Finished, LedgerInv, NeverStale
    <2>3. Recorded(o)'
        <3>1. pc[o] = "finish" /\ pc'[o] = "done" /\ sent' = sent
            BY <1>6 DEF Finish, Commit, Return
        <3>2. Recorded(o)
            BY DEF LedgerInv, LedgerFollows
        <3> QED
            BY <2>2, <3>1, <3>2 DEF Recorded, InFlight, Cost, Paid
    <2>4. pc'[o] \in {"receipt", "send", "await", "response"} => WithinBudget(o)
        BY <1>6 DEF Finish, Commit, AdvanceRevision, SetStatus, Return, NoLocals, LedgerInv,
            BudgetHeld, InFlight
    <2>5. BudgetHeld'
        BY <1>p, <2>1, <2>2, <2>4, BudgetTurn
    <2> QED
        BY <2>1, <2>2, <2>3, <2>5, LedgerTurn DEF LedgerInv
<1>7. CASE GovernedRequest(o)
    <2>1. Turn(o)
        BY <1>7 DEF GovernedRequest, Turn, Running, SerialUse
    <2>2. HandsAndStatus(o) /\ record'[o].cost = record[o].cost
        BY <1>7 DEF GovernedRequest, HandsAndStatus, Running, Records, Locals, Finished,
            LedgerInv, NeverStale
    <2>3. Recorded(o)'
        BY <1>7 DEF GovernedRequest, Recorded, InFlight, LedgerInv, LedgerFollows, Records,
            Locals, AttemptsCounted, Cost
    <2>4. pc'[o] \in {"receipt", "send", "await", "response"} => WithinBudget(o)
        BY <1>7 DEF GovernedRequest, LedgerInv, BudgetHeld, InFlight
    <2>5. BudgetHeld'
        BY <1>p, <2>1, <2>2, <2>4, BudgetTurn
    <2> QED
        BY <2>1, <2>2, <2>3, <2>5, LedgerTurn DEF LedgerInv
<1>8. CASE BrokerRefuses(o)
    <2>1. Turn(o)
        BY <1>8 DEF BrokerRefuses, Fail, Turn, Running, SerialUse
    <2>2. HandsAndStatus(o) /\ record'[o].cost = record[o].cost
        BY <1>8 DEF BrokerRefuses, Fail, HandsAndStatus, Running, Records, Locals, Finished,
            LedgerInv, NeverStale
    <2>3. Recorded(o)'
        BY <1>8 DEF BrokerRefuses, Fail, Recorded, InFlight, LedgerInv, LedgerFollows,
            Records, Locals, AttemptsCounted, Cost
    <2>4. pc'[o] \in {"receipt", "send", "await", "response"} => WithinBudget(o)
        BY <1>8 DEF BrokerRefuses, Fail, LedgerInv, BudgetHeld, InFlight
    <2>5. BudgetHeld'
        BY <1>p, <2>1, <2>2, <2>4, BudgetTurn
    <2> QED
        BY <2>1, <2>2, <2>3, <2>5, LedgerTurn DEF LedgerInv
<1>9. CASE BrokerBlocks(o)
    <2>1. Turn(o)
        BY <1>9 DEF BrokerBlocks, BrokerAccepts, Fail, Turn, Running, SerialUse
    <2>2. HandsAndStatus(o) /\ record'[o].cost = record[o].cost
        BY <1>9 DEF BrokerBlocks, BrokerAccepts, Fail, HandsAndStatus, Running, Records,
            Locals, Finished, LedgerInv, NeverStale
    <2>3. Recorded(o)'
        BY <1>9 DEF BrokerBlocks, BrokerAccepts, Fail, Recorded, InFlight, LedgerInv,
            LedgerFollows, Records, Locals, AttemptsCounted, Cost
    <2>4. pc'[o] \in {"receipt", "send", "await", "response"} => WithinBudget(o)
        BY <1>9 DEF BrokerBlocks, BrokerAccepts, Fail, LedgerInv, BudgetHeld, InFlight
    <2>5. BudgetHeld'
        BY <1>p, <2>1, <2>2, <2>4, BudgetTurn
    <2> QED
        BY <2>1, <2>2, <2>3, <2>5, LedgerTurn DEF LedgerInv
<1>10. CASE BrokerAsks(o)
    <2>1. Turn(o)
        BY <1>10 DEF BrokerAsks, BrokerAccepts, Turn, Running, SerialUse
    <2>2. HandsAndStatus(o) /\ record'[o].cost = record[o].cost
        BY <1>10 DEF BrokerAsks, BrokerAccepts, HandsAndStatus, Running, Records, Locals,
            Finished, LedgerInv, NeverStale
    <2>3. Recorded(o)'
        BY <1>10 DEF BrokerAsks, BrokerAccepts, Recorded, InFlight, LedgerInv,
            LedgerFollows, Records, Locals, AttemptsCounted, Cost
    <2>4. pc'[o] \in {"receipt", "send", "await", "response"} => WithinBudget(o)
        BY <1>10 DEF BrokerAsks, BrokerAccepts, LedgerInv, BudgetHeld, InFlight
    <2>5. BudgetHeld'
        BY <1>p, <2>1, <2>2, <2>4, BudgetTurn
    <2> QED
        BY <2>1, <2>2, <2>3, <2>5, LedgerTurn DEF LedgerInv
<1>11. CASE BrokerAllows(o)
    <2>1. Turn(o)
        BY <1>11 DEF BrokerAllows, BrokerAccepts, Turn, Running, SerialUse
    <2>2. HandsAndStatus(o) /\ record'[o].cost = record[o].cost
        BY <1>11 DEF BrokerAllows, BrokerAccepts, HandsAndStatus, Running, Records, Locals,
            Finished, LedgerInv, NeverStale
    <2>3. Recorded(o)'
        BY <1>11 DEF BrokerAllows, BrokerAccepts, Recorded, InFlight, LedgerInv,
            LedgerFollows, Records, Locals, AttemptsCounted, Cost
    <2>4. pc'[o] \in {"receipt", "send", "await", "response"} => WithinBudget(o)
        BY <1>11 DEF BrokerAllows, BrokerAccepts, LedgerInv, BudgetHeld, InFlight
    <2>5. BudgetHeld'
        BY <1>p, <2>1, <2>2, <2>4, BudgetTurn
    <2> QED
        BY <2>1, <2>2, <2>3, <2>5, LedgerTurn DEF LedgerInv
<1>12. CASE UserAnswers(o)
    <2>1. Turn(o)
        BY <1>12 DEF UserAnswers, Turn, Running, SerialUse
    <2>2. HandsAndStatus(o) /\ record'[o].cost = record[o].cost
        BY <1>12 DEF UserAnswers, HandsAndStatus, Running, Records, Locals, Finished,
            LedgerInv, NeverStale
    <2>3. Recorded(o)'
        BY <1>12 DEF UserAnswers, Recorded, InFlight, LedgerInv, LedgerFollows, Records,
            Locals, AttemptsCounted, Cost
    <2>4. pc'[o] \in {"receipt", "send", "await", "response"} => WithinBudget(o)
        BY <1>12 DEF UserAnswers, LedgerInv, BudgetHeld, InFlight
    <2>5. BudgetHeld'
        BY <1>p, <2>1, <2>2, <2>4, BudgetTurn
    <2> QED
        BY <2>1, <2>2, <2>3, <2>5, LedgerTurn DEF LedgerInv
<1>13. CASE CannotAsk(o)
    <2>1. Turn(o)
        BY <1>13 DEF CannotAsk, Fail, Turn, Running, SerialUse
    <2>2. HandsAndStatus(o) /\ record'[o].cost = record[o].cost
        BY <1>13 DEF CannotAsk, Fail, HandsAndStatus, Running, Records, Locals, Finished,
            LedgerInv, NeverStale
    <2>3. Recorded(o)'
        BY <1>13 DEF CannotAsk, Fail, Recorded, InFlight, LedgerInv, LedgerFollows, Records,
            Locals, AttemptsCounted, Cost
    <2>4. pc'[o] \in {"receipt", "send", "await", "response"} => WithinBudget(o)
        BY <1>13 DEF CannotAsk, Fail, LedgerInv, BudgetHeld, InFlight
    <2>5. BudgetHeld'
        BY <1>p, <2>1, <2>2, <2>4, BudgetTurn
    <2> QED
        BY <2>1, <2>2, <2>3, <2>5, LedgerTurn DEF LedgerInv
<1>14. CASE RecordApproval(o)
    <2>1. Turn(o)
        BY <1>14 DEF RecordApproval, Commit, AdvanceRevision, Turn, Running, SerialUse
    <2>2. HandsAndStatus(o) /\ record'[o].cost = record[o].cost
        BY <1>14 DEF RecordApproval, Commit, AdvanceRevision, HandsAndStatus, Running,
            Records, Locals, Finished, LedgerInv, NeverStale
    <2>3. Recorded(o)'
        BY <1>14 DEF RecordApproval, Commit, AdvanceRevision, Recorded, InFlight, LedgerInv,
            LedgerFollows, Records, Locals, AttemptsCounted, Cost
    <2>4. pc'[o] \in {"receipt", "send", "await", "response"} => WithinBudget(o)
        BY <1>14 DEF RecordApproval, Commit, AdvanceRevision, LedgerInv, BudgetHeld, InFlight
    <2>5. BudgetHeld'
        BY <1>p, <2>1, <2>2, <2>4, BudgetTurn
    <2> QED
        BY <2>1, <2>2, <2>3, <2>5, LedgerTurn DEF LedgerInv
<1>15. CASE LinkApproval(o)
    <2>1. Turn(o)
        BY <1>15 DEF LinkApproval, Commit, AdvanceRevision, Fail, Turn, Running, SerialUse
    <2>2. HandsAndStatus(o) /\ record'[o].cost = record[o].cost
        BY <1>15 DEF LinkApproval, Commit, AdvanceRevision, Fail, HandsAndStatus, Running,
            Records, Locals, Finished, LedgerInv, NeverStale
    <2>3. Recorded(o)'
        <3>1. ~InFlight(o) /\ pc'[o] \in {"broker", "effect"}
            BY <1>15 DEF LinkApproval, Commit, At, Fail, Goto, InFlight
        <3>2. sent'[o] = sent[o] /\ record'[o].cost = record[o].cost
            BY <1>15, <2>2 DEF LinkApproval
        <3>3. Recorded(o)
            BY DEF LedgerInv, LedgerFollows
        <3> QED
            BY <3>1, <3>2, <3>3 DEF Recorded, InFlight, Cost
    <2>4. pc'[o] \in {"receipt", "send", "await", "response"} => WithinBudget(o)
        BY <1>15 DEF LinkApproval, Commit, AdvanceRevision, Fail, LedgerInv, BudgetHeld, InFlight
    <2>5. BudgetHeld'
        BY <1>p, <2>1, <2>2, <2>4, BudgetTurn
    <2> QED
        BY <2>1, <2>2, <2>3, <2>5, LedgerTurn DEF LedgerInv
<1>16. CASE CommitReceipt(o)
    <2>1. Turn(o)
        BY <1>16 DEF CommitReceipt, Commit, AdvanceRevision, Turn, Running, SerialUse
    <2>2. HandsAndStatus(o) /\ record'[o].cost = record[o].cost
        BY <1>16 DEF CommitReceipt, Commit, AdvanceRevision, HandsAndStatus, Running,
            Records, Locals, Finished, LedgerInv, NeverStale
    <2>3. Recorded(o)'
        BY <1>16 DEF CommitReceipt, Commit, AdvanceRevision, Recorded, InFlight, LedgerInv,
            LedgerFollows, Records, Locals, AttemptsCounted, Cost
    <2>4. pc'[o] \in {"receipt", "send", "await", "response"} => WithinBudget(o)
        BY <1>16 DEF CommitReceipt, Commit, AdvanceRevision, LedgerInv, BudgetHeld, InFlight
    <2>5. BudgetHeld'
        BY <1>p, <2>1, <2>2, <2>4, BudgetTurn
    <2> QED
        BY <2>1, <2>2, <2>3, <2>5, LedgerTurn DEF LedgerInv
<1>17. CASE Send(o)
    <2>1. Turn(o)
        BY <1>17 DEF Send, Turn, Running, SerialUse
    <2>2. HandsAndStatus(o) /\ record'[o].cost = record[o].cost
        BY <1>17 DEF Send, HandsAndStatus, Running, Records, Locals, Finished, LedgerInv,
            NeverStale
    <2>3. Recorded(o)'
        BY <1>17 DEF Send, Recorded, InFlight, LedgerInv, LedgerFollows, Records, Locals,
            AttemptsCounted, Cost
    <2>4. pc'[o] \in {"receipt", "send", "await", "response"} => WithinBudget(o)
        BY <1>17 DEF Send, LedgerInv, BudgetHeld, InFlight
    <2>5. BudgetHeld'
        BY <1>p, <2>1, <2>2, <2>4, BudgetTurn
    <2> QED
        BY <2>1, <2>2, <2>3, <2>5, LedgerTurn DEF LedgerInv
<1>18. CASE Answered(o)
    <2>1. Turn(o)
        BY <1>18 DEF Answered, Turn, Running, SerialUse
    <2>2. HandsAndStatus(o) /\ record'[o].cost = record[o].cost
        BY <1>18 DEF Answered, HandsAndStatus, Running, Records, Locals, Finished,
            LedgerInv, NeverStale
    <2>3. Recorded(o)'
        BY <1>18 DEF Answered, Recorded, InFlight, LedgerInv, LedgerFollows, Records,
            Locals, AttemptsCounted, Cost
    <2>4. pc'[o] \in {"receipt", "send", "await", "response"} => WithinBudget(o)
        BY <1>18 DEF Answered, LedgerInv, BudgetHeld, InFlight
    <2>5. BudgetHeld'
        BY <1>p, <2>1, <2>2, <2>4, BudgetTurn
    <2> QED
        BY <2>1, <2>2, <2>3, <2>5, LedgerTurn DEF LedgerInv
<1>19. CASE Retryable(o)
    <2>1. Turn(o)
        BY <1>19 DEF Retryable, Turn, Running, SerialUse
    <2>2. HandsAndStatus(o) /\ record'[o].cost = record[o].cost
        BY <1>19 DEF Retryable, HandsAndStatus, Running, Records, Locals, Finished,
            LedgerInv, NeverStale
    <2>3. Recorded(o)'
        BY <1>19 DEF Retryable, Recorded, InFlight, LedgerInv, LedgerFollows, Records,
            Locals, AttemptsCounted, Cost
    <2>4. pc'[o] \in {"receipt", "send", "await", "response"} => WithinBudget(o)
        BY <1>19 DEF Retryable, LedgerInv, BudgetHeld, InFlight
    <2>5. BudgetHeld'
        BY <1>p, <2>1, <2>2, <2>4, BudgetTurn
    <2> QED
        BY <2>1, <2>2, <2>3, <2>5, LedgerTurn DEF LedgerInv
<1>20. CASE Aborted(o)
    <2>1. Turn(o)
        BY <1>20 DEF Aborted, Turn, Running, SerialUse
    <2>2. HandsAndStatus(o) /\ record'[o].cost = record[o].cost
        BY <1>20 DEF Aborted, HandsAndStatus, Running, Records, Locals, Finished, LedgerInv,
            NeverStale
    <2>3. Recorded(o)'
        BY <1>20 DEF Aborted, Recorded, InFlight, LedgerInv, LedgerFollows, Records, Locals,
            AttemptsCounted, Cost
    <2>4. pc'[o] \in {"receipt", "send", "await", "response"} => WithinBudget(o)
        BY <1>20 DEF Aborted, LedgerInv, BudgetHeld, InFlight
    <2>5. BudgetHeld'
        BY <1>p, <2>1, <2>2, <2>4, BudgetTurn
    <2> QED
        BY <2>1, <2>2, <2>3, <2>5, LedgerTurn DEF LedgerInv
<1>21. CASE CommitResponse(o)
    <2> DEFINE paid == Cost(o, local[o].attempt)
    <2>1. /\ pc[o] = "response" /\ pc' = [pc EXCEPT ![o] = "effect"] /\ sent' = sent
          /\ record'[o].cost = record[o].cost + paid
        BY <1>21 DEF CommitResponse, Commit, Records
    <2>2. Turn(o)
        BY <1>21 DEF CommitResponse, Commit, AdvanceRevision, Turn, Running
    <2>3. HandsAndStatus(o)
        BY <1>21 DEF CommitResponse, Commit, AdvanceRevision, HandsAndStatus
    <2>4. /\ record[o].cost = 0 /\ sent[o] = local[o].attempt /\ WithinBudget(o)
          /\ paid \in Nat /\ paid <= estimatedCost(o)
        BY <2>1 DEF LedgerInv, LedgerFollows, Recorded, InFlight, BudgetHeld, Locals, Cost,
            estimatedCost
    <2>5. Recorded(o)'
        BY <2>1, <2>4 DEF Recorded, InFlight, Cost, Paid
    <2>6. \A q \in Ops : ~(At(q, "receipt") \/ InFlight(q))'
        BY <2>1, <2>2, OthersWait DEF InFlight, Running
    <2> QED
        BY <2>2, <2>3, <2>5, <2>6, LedgerTurn DEF LedgerInv, BudgetHeld
<1>22. CASE LifecycleConflict(o) \/ RequestConflict(o)
    BY <1>22 DEF LifecycleConflict, RequestConflict, LedgerInv, NeverStale
<1> QED
    BY <1>1, <1>2, <1>3, <1>4, <1>5, <1>6, <1>7, <1>8, <1>9, <1>10, <1>11, <1>12, <1>13,
        <1>14, <1>15, <1>16, <1>17, <1>18, <1>19, <1>20, <1>21, <1>22
    DEF OpStep, ServiceStep

\* So does every step of an edit, which costs nothing.
LEMMA LedgerEditStep ==
    ASSUME IsFiniteSet(Actors), SerialUse, RequestInv, LedgerInv, NEW e \in Edits, EditStep(e)
    PROVE  LedgerInv'
<1> USE DEF RequestInv, TypeOK, StepsApart
<1>1. CASE EditOpen(e)
    <2>1. Turn(e)
        BY <1>1 DEF EditOpen, Idle, Turn, Running, SerialUse
    <2>2. HandsAndStatus(e) /\ record'[e].cost = record[e].cost
        BY <1>1 DEF EditOpen, Idle, HandsAndStatus, Running, Records, Locals, Finished,
            LedgerInv, NeverStale
    <2>3. record'[e].cost = 0 /\ e \notin Ops
        BY <2>2 DEF LedgerInv, LedgerFollows
    <2>4. BudgetHeld'
        BY <2>1, <2>2, <2>3, BudgetTurn
    <2> QED
        BY <2>1, <2>2, <2>3, <2>4, LedgerTurn DEF LedgerInv
<1>2. CASE EditCreate(e)
    <2>1. Turn(e)
        BY <1>2 DEF EditCreate, EditCommit, AdvanceRevision, SetStatus, Turn, Running, SerialUse
    <2>2. HandsAndStatus(e) /\ record'[e].cost = record[e].cost
        BY <1>2 DEF EditCreate, EditCommit, AdvanceRevision, SetStatus, HandsAndStatus,
            Running, Records, Locals, Finished, LedgerInv, NeverStale
    <2>3. record'[e].cost = 0 /\ e \notin Ops
        BY <2>2 DEF LedgerInv, LedgerFollows
    <2>4. BudgetHeld'
        BY <2>1, <2>2, <2>3, BudgetTurn
    <2> QED
        BY <2>1, <2>2, <2>3, <2>4, LedgerTurn DEF LedgerInv
<1>3. CASE EditAwait(e)
    <2>1. Turn(e)
        BY <1>3 DEF EditAwait, EditCommit, AdvanceRevision, SetStatus, Turn, Running, SerialUse
    <2>2. HandsAndStatus(e) /\ record'[e].cost = record[e].cost
        BY <1>3 DEF EditAwait, EditCommit, AdvanceRevision, SetStatus, HandsAndStatus,
            Running, Records, Locals, Finished, LedgerInv, NeverStale
    <2>3. record'[e].cost = 0 /\ e \notin Ops
        BY <2>2 DEF LedgerInv, LedgerFollows
    <2>4. BudgetHeld'
        BY <2>1, <2>2, <2>3, BudgetTurn
    <2> QED
        BY <2>1, <2>2, <2>3, <2>4, LedgerTurn DEF LedgerInv
<1>4. CASE EditConfirm(e)
    <2>1. Turn(e)
        BY <1>4 DEF EditConfirm, Turn, Running, SerialUse
    <2>2. HandsAndStatus(e) /\ record'[e].cost = record[e].cost
        BY <1>4 DEF EditConfirm, HandsAndStatus, Running, Records, Locals, Finished,
            LedgerInv, NeverStale
    <2>3. record'[e].cost = 0 /\ e \notin Ops
        BY <2>2 DEF LedgerInv, LedgerFollows
    <2>4. BudgetHeld'
        BY <2>1, <2>2, <2>3, BudgetTurn
    <2> QED
        BY <2>1, <2>2, <2>3, <2>4, LedgerTurn DEF LedgerInv
<1>5. CASE EditApproval(e)
    <2>1. Turn(e)
        BY <1>5 DEF EditApproval, EditCommit, AdvanceRevision, Turn, Running, SerialUse
    <2>2. HandsAndStatus(e) /\ record'[e].cost = record[e].cost
        BY <1>5 DEF EditApproval, EditCommit, AdvanceRevision, HandsAndStatus, Running,
            Records, Locals, Finished, LedgerInv, NeverStale
    <2>3. record'[e].cost = 0 /\ e \notin Ops
        BY <2>2 DEF LedgerInv, LedgerFollows
    <2>4. BudgetHeld'
        BY <2>1, <2>2, <2>3, BudgetTurn
    <2> QED
        BY <2>1, <2>2, <2>3, <2>4, LedgerTurn DEF LedgerInv
<1>6. CASE EditBlock(e)
    <2>1. Turn(e)
        BY <1>6 DEF EditBlock, Commit, AdvanceRevision, SetStatus, Return, NoLocals, Turn,
            Running, SerialUse
    <2>2. HandsAndStatus(e) /\ record'[e].cost = record[e].cost
        BY <1>6 DEF EditBlock, Commit, AdvanceRevision, SetStatus, Return, NoLocals,
            HandsAndStatus, Running, Records, Locals, Finished, LedgerInv, NeverStale
    <2>3. record'[e].cost = 0 /\ e \notin Ops
        BY <2>2 DEF LedgerInv, LedgerFollows
    <2>4. BudgetHeld'
        BY <2>1, <2>2, <2>3, BudgetTurn
    <2> QED
        BY <2>1, <2>2, <2>3, <2>4, LedgerTurn DEF LedgerInv
<1>7. CASE EditRun(e)
    <2>1. Turn(e)
        BY <1>7 DEF EditRun, EditCommit, AdvanceRevision, SetStatus, Turn, Running, SerialUse
    <2>2. HandsAndStatus(e) /\ record'[e].cost = record[e].cost
        BY <1>7 DEF EditRun, EditCommit, AdvanceRevision, SetStatus, HandsAndStatus,
            Running, Records, Locals, Finished, LedgerInv, NeverStale
    <2>3. record'[e].cost = 0 /\ e \notin Ops
        BY <2>2 DEF LedgerInv, LedgerFollows
    <2>4. BudgetHeld'
        BY <2>1, <2>2, <2>3, BudgetTurn
    <2> QED
        BY <2>1, <2>2, <2>3, <2>4, LedgerTurn DEF LedgerInv
<1>8. CASE EditPolicy(e)
    <2>1. Turn(e)
        BY <1>8 DEF EditPolicy, EditCommit, AdvanceRevision, Turn, Running, SerialUse
    <2>2. HandsAndStatus(e) /\ record'[e].cost = record[e].cost
        BY <1>8 DEF EditPolicy, EditCommit, AdvanceRevision, HandsAndStatus, Running,
            Records, Locals, Finished, LedgerInv, NeverStale
    <2>3. record'[e].cost = 0 /\ e \notin Ops
        BY <2>2 DEF LedgerInv, LedgerFollows
    <2>4. BudgetHeld'
        BY <2>1, <2>2, <2>3, BudgetTurn
    <2> QED
        BY <2>1, <2>2, <2>3, <2>4, LedgerTurn DEF LedgerInv
<1>9. CASE EditFinish(e)
    <2>1. Turn(e)
        BY <1>9 DEF EditFinish, Commit, AdvanceRevision, SetStatus, Return, NoLocals, Turn,
            Running, SerialUse
    <2>2. HandsAndStatus(e) /\ record'[e].cost = record[e].cost
        BY <1>9 DEF EditFinish, Commit, AdvanceRevision, SetStatus, Return, NoLocals,
            HandsAndStatus, Running, Records, Locals, Finished, LedgerInv, NeverStale
    <2>3. record'[e].cost = 0 /\ e \notin Ops
        BY <2>2 DEF LedgerInv, LedgerFollows
    <2>4. BudgetHeld'
        BY <2>1, <2>2, <2>3, BudgetTurn
    <2> QED
        BY <2>1, <2>2, <2>3, <2>4, LedgerTurn DEF LedgerInv
<1>10. CASE EditConflict(e)
    BY <1>10 DEF EditConflict, LedgerInv, NeverStale
<1> QED
    BY <1>1, <1>2, <1>3, <1>4, <1>5, <1>6, <1>7, <1>8, <1>9, <1>10
    DEF EditStep

LEMMA LedgerStep ==
    ASSUME IsFiniteSet(Actors), SerialUse
    PROVE  RequestInv /\ LedgerInv /\ [Next]_vars => LedgerInv'
<1> SUFFICES ASSUME RequestInv, LedgerInv, [Next]_vars PROVE LedgerInv'
    OBVIOUS
<1>1. CASE Next
    BY <1>1, LedgerOpStep, LedgerEditStep DEF Next, Crash, SerialUse
<1>2. CASE UNCHANGED vars
    <2>1. OneRunning' /\ NeverStale' /\ LedgerFollows' /\ ReturnedFinished'
        BY <1>2 DEF vars, LedgerInv, OneRunning, NeverStale, Running, LedgerFollows, Recorded,
            InFlight, Cost, Paid, ReturnedFinished
    <2>2. CostsRecorded' = CostsRecorded
        BY <1>2 DEF vars, CostsRecorded
    <2>3. projectSpend' = projectSpend
        <3> HIDE DEF Actors
        <3> QED
            BY <2>2, SpendKept
    <2>4. BudgetHeld'
        BY <1>2, <2>3 DEF vars, LedgerInv, BudgetHeld, InFlight, WithinBudget, Permitted,
            estimatedCost, Cost, Paid
    <2> QED
        BY <2>1, <2>4 DEF LedgerInv
<1> QED
    BY <1>1, <1>2

\* Without overlapping calls and crashes the ledger is exact: only while a
\* request is in flight does the project know less than was spent, and what is
\* left of the budget then covers every permitted attempt.
THEOREM LedgerInvariant ==
    ASSUME IsFiniteSet(Actors), SerialUse
    PROVE  Spec => [](RequestInv /\ LedgerInv)
<1>1. Init => RequestInv /\ LedgerInv
    BY RequestInit, LedgerInit
<1>2. RequestInv /\ LedgerInv /\ [Next]_vars => (RequestInv /\ LedgerInv)'
    BY RequestStep, LedgerStep
<1> QED
    BY <1>1, <1>2, PTL DEF Spec

\* A tool call or command that has returned left a finished operation, and the
\* ledger holds what its requests cost.
THEOREM CallsAreAccounted ==
    ASSUME IsFiniteSet(Actors), SerialUse
    PROVE  Spec => []Accounted
<1>1. LedgerInv => Accounted
    BY DEF LedgerInv, LedgerFollows, Recorded, InFlight, ReturnedFinished, Accounted
<1> QED
    BY <1>1, LedgerInvariant, PTL

\* The budget check of requestGovernedHttp suffices: the estimate covers every
\* attempt of the one request in flight, all others are in the ledger.
SpendInFlight == \A o \in Ops : Paid(o) /\ InFlight(o) => Permitted(spent)

LEMMA LedgerBoundsSpend ==
    ASSUME IsFiniteSet(Actors), RequestInv, LedgerInv, NEW o \in Ops, Paid(o), InFlight(o)
    PROVE  Permitted(spent)
<1>1. CostsRecorded \in [Actors -> Nat] /\ CostsSent \in [Ops -> Nat]
    BY CostsTyped DEF RequestInv
<1>2. projectSpend \in Nat
    BY <1>1, SpendNatural
<1>3. \A q \in Ops \ {o} : ~InFlight(q)
    BY DEF LedgerInv, OneRunning, Running, InFlight
<1>4. \A q \in Ops \ {o} : CostsSent[q] = CostsRecorded[q]
    BY <1>3 DEF LedgerInv, LedgerFollows, Recorded, CostsSent, CostsRecorded
<1>5. Below(CostsSent, CostsRecorded, Ops \ {o})
    BY <1>1, <1>4 DEF Below
<1>6. spent \in Nat /\ spent <= projectSpend + CostsSent[o]
    BY <1>1, <1>5, SpentAhead, SpentNatural
<1>7. Permitted(projectSpend + CostsSent[o])
    <2>1. WithinBudget(o) /\ sent[o] \in Nat /\ sent[o] <= MaxAttempts
        BY DEF LedgerInv, BudgetHeld, RequestInv, TypeOK, AttemptsCounted
    <2>2. CostsSent[o] = Cost(o, sent[o])
        BY DEF CostsSent
    <2>3. policy.budgetHardLimit \in Nat \cup {NoLimit}
        BY DEF RequestInv, TypeOK
    <2> QED
        BY <1>2, <2>1, <2>2, <2>3 DEF WithinBudget, Permitted, estimatedCost, Cost
<1> QED
    BY <1>1, <1>2, <1>6, <1>7 DEF Permitted, RequestInv, TypeOK

\* Only the attempt loop of a paid request spends.
LEMMA SentInFlight ==
    ASSUME [Next]_vars, RequestInv
    PROVE  CostsSent' = CostsSent \/ \E o \in Ops : Paid(o) /\ InFlight(o)' /\ policy' = policy
<1> USE DEF CostsSent, Cost, Paid
<1>1. ASSUME NEW o \in Ops, Send(o)
      PROVE  CostsSent' = CostsSent \/ (Paid(o) /\ InFlight(o)' /\ policy' = policy)
    BY <1>1 DEF Send, InFlight, RequestInv, TypeOK
<1>2. ASSUME NEW o \in Ops,
             \/ Begin(o) \/ GovernedRequest(o) \/ UserAnswers(o) \/ Aborted(o)
             \/ (OpStep(o) /\ ~Send(o)) \/ ServiceStep(o)
      PROVE  sent' = sent
    BY <1>2 DEF Begin, GovernedRequest, UserAnswers, Aborted, OpStep, ServiceStep, Open, Create,
        Start, EffectReturns, Finish, LifecycleConflict, BrokerRefuses, BrokerBlocks, BrokerAsks,
        BrokerAllows, CannotAsk, RecordApproval, LinkApproval, RequestConflict, CommitReceipt,
        CommitResponse, Answered, Retryable
<1>3. ASSUME NEW e \in Edits, EditStep(e) PROVE sent' = sent
    BY <1>3 DEF EditStep, EditOpen, EditCreate, EditAwait, EditConfirm, EditApproval, EditBlock,
        EditRun, EditPolicy, EditFinish, EditConflict
<1>4. ASSUME NEW a \in Actors, Crash(a) PROVE sent' = sent
    BY <1>4 DEF Crash
<1> QED
    BY <1>1, <1>2, <1>3, <1>4 DEF Next, vars

\* Whenever a paid request is sent, what all requests really cost is within the
\* hard limit in force, for any number of operations, attempts and denied,
\* aborted or repeated requests, and whatever edits make of the limit.
THEOREM SpendIsLimited ==
    ASSUME IsFiniteSet(Actors), SerialUse
    PROVE  Spec => SpendWithinLimit
<1>1. RequestInv /\ LedgerInv => SpendInFlight
    BY LedgerBoundsSpend DEF SpendInFlight
<1>2. RequestInv /\ SpendInFlight' /\ [Next]_vars => [spent' > spent => Permitted(spent')]_vars
    <2> SUFFICES ASSUME RequestInv, SpendInFlight', [Next]_vars, spent' > spent
                 PROVE  Permitted(spent')
        OBVIOUS
    <2>1. CASE CostsSent' = CostsSent
        <3>1. IsFiniteSet(Ops)
            BY FS_Subset DEF Actors
        <3>2. spent' = spent /\ spent \in Nat
            BY <2>1, <3>1, SpentKept, SpentNatural, CostsTyped DEF RequestInv
        <3> QED
            BY <3>2
    <2>2. CASE \E o \in Ops : Paid(o) /\ InFlight(o)' /\ policy' = policy
        BY <2>2 DEF SpendInFlight, Permitted, Paid
    <2> QED
        BY <2>1, <2>2, SentInFlight
<1> QED
    BY <1>1, <1>2, LedgerInvariant, PTL DEF Spec, SpendWithinLimit

----------------------------------------------------------------------------
(* The request loop and the ledger when calls overlap and processes die *)

\* What an operation's record says of its request, in the loop and after it.
Backed(o) ==
    /\ ~record[o].request => record[o].cost = 0
    /\ IF InFlight(o)
         THEN record[o].cost = 0 /\ record[o].request /\ sent[o] = local[o].attempt
         ELSE record[o].cost \in {0, Cost(o, sent[o])}
    /\ At(o, "send") => local[o].attempt < MaxAttempts

BackedInv == (\A o \in Ops : Backed(o)) /\ (\A e \in Edits : record[e].cost = 0)

\* Steps that a request in flight is away from its end.
LoopRank(o) == CASE pc[o] = "send" -> 2 * (MaxAttempts - local[o].attempt) + 1
                 [] pc[o] = "await" -> 2 * (MaxAttempts - local[o].attempt) + 2
                 [] pc[o] = "response" -> 1
                 [] OTHER -> 0

\* A step of one actor leaves the others alone.
Frame(a) ==
    \A b \in Actors \ {a} :
        /\ pc'[b] = pc[b] /\ record'[b] = record[b] /\ local'[b] = local[b]
        /\ b \in Ops => sent'[b] = sent[b]

\* A step of an operation that is not a step of its request loop.
Quiet(o) ==
    /\ Frame(o)
    /\ record'[o].cost = record[o].cost /\ record'[o].request = record[o].request
    /\ sent'[o] = sent[o]
    /\ \/ ~InFlight(o) /\ ~InFlight(o)'
       \/ pc'[o] = pc[o] /\ local'[o] = local[o]

LEMMA QuietSteps ==
    ASSUME RequestInv, NEW o \in Ops,
           \/ Begin(o) \/ Open(o) \/ Create(o) \/ Start(o) \/ EffectReturns(o) \/ Finish(o)
           \/ LifecycleConflict(o) \/ GovernedRequest(o) \/ BrokerRefuses(o)
           \/ BrokerBlocks(o) \/ BrokerAsks(o) \/ BrokerAllows(o) \/ UserAnswers(o)
           \/ CannotAsk(o) \/ RecordApproval(o) \/ LinkApproval(o)
    PROVE  Quiet(o)
<1> USE DEF RequestInv, TypeOK, Records, Quiet, Frame, InFlight
<1>1. CASE Begin(o) \/ Open(o) \/ Create(o) \/ Start(o)
    BY <1>1 DEF Begin, Idle, Open, Create, Start, Commit, SetStatus
<1>2. CASE EffectReturns(o) \/ Finish(o) \/ LifecycleConflict(o) \/ GovernedRequest(o)
    BY <1>2 DEF EffectReturns, Finish, Commit, SetStatus, Return, LifecycleConflict,
        GovernedRequest
<1>3. CASE BrokerRefuses(o) \/ BrokerBlocks(o) \/ BrokerAsks(o) \/ BrokerAllows(o)
    BY <1>3 DEF BrokerRefuses, BrokerBlocks, BrokerAsks, BrokerAllows, BrokerAccepts, Fail
<1>4. CASE UserAnswers(o) \/ CannotAsk(o) \/ RecordApproval(o) \/ LinkApproval(o)
    BY <1>4 DEF UserAnswers, CannotAsk, Fail, RecordApproval, LinkApproval, Commit
<1> QED
    BY <1>1, <1>2, <1>3, <1>4

LEMMA EditFrame ==
    ASSUME RequestInv, NEW e \in Edits, EditStep(e)
    PROVE  Frame(e) /\ record'[e].cost = record[e].cost
<1> USE DEF RequestInv, TypeOK, Records, Frame
<1>1. CASE EditOpen(e) \/ EditCreate(e) \/ EditAwait(e) \/ EditConfirm(e) \/ EditApproval(e)
    BY <1>1 DEF EditOpen, EditCreate, EditAwait, EditConfirm, EditApproval, SetStatus
<1>2. CASE EditBlock(e) \/ EditRun(e) \/ EditPolicy(e) \/ EditFinish(e) \/ EditConflict(e)
    BY <1>2 DEF EditBlock, EditRun, EditPolicy, EditFinish, EditConflict, SetStatus, Return
<1> QED
    BY <1>1, <1>2 DEF EditStep

LEMMA CrashFrame ==
    ASSUME RequestInv, NEW a \in Actors, Crash(a)
    PROVE  Frame(a) /\ record' = record /\ sent' = sent /\ pc'[a] = "done"
    BY DEF Crash, Return, RequestInv, TypeOK, Frame

LEMMA BackedElsewhere ==
    ASSUME BackedInv, NEW a \in Actors, Frame(a),
           IF a \in Ops THEN Backed(a)' ELSE record'[a].cost = 0
    PROVE  BackedInv'
<1>1. \A o \in Ops \ {a} : Backed(o)'
    BY DEF BackedInv, Backed, Frame, InFlight
<1>2. \A e \in Edits \ {a} : record'[e].cost = 0
    BY DEF BackedInv, Frame
<1> QED
    BY <1>1, <1>2 DEF BackedInv

\* The steps of the request loop, each with what it does to the rank.
LEMMA LoopSteps ==
    ASSUME RequestInv, BackedInv, NEW o \in Ops,
           \/ CommitReceipt(o) \/ Send(o) \/ Answered(o) \/ Retryable(o) \/ Aborted(o)
           \/ CommitResponse(o) \/ RequestConflict(o)
    PROVE  /\ Frame(o) /\ Backed(o)'
           /\ InFlight(o) => LoopRank(o)' < LoopRank(o)
           /\ ~InFlight(o) /\ InFlight(o)' => ~record[o].request /\ record'[o].request
<1> USE DEF RequestInv, TypeOK, StepsApart, Frame
<1>a. Backed(o) /\ local[o].attempt \in 0..MaxAttempts /\ record[o] \in Records
    BY LocalUpdates DEF BackedInv
<1>1. CASE CommitReceipt(o)
    <2>1. /\ pc[o] = "receipt" /\ pc'[o] = "send" /\ sent' = sent
          /\ ~record[o].request /\ record'[o].request /\ record'[o].cost = record[o].cost
          /\ local'[o].attempt = 0
        BY <1>1 DEF CommitReceipt, Commit, Records, Locals
    <2>2. Frame(o)
        BY <1>1 DEF CommitReceipt, Commit
    <2> QED
        BY <1>a, <2>1, <2>2 DEF Backed, InFlight, Cost, AttemptsCounted
<1>2. CASE Send(o)
    <2>1. /\ pc[o] = "send" /\ record' = record
          /\ \/ /\ pc'[o] = "await" /\ local[o].attempt < MaxAttempts
                /\ sent'[o] = sent[o] + 1 /\ local'[o].attempt = local[o].attempt + 1
             \/ pc'[o] = "response" /\ sent' = sent /\ local' = local
        BY <1>2 DEF Send, Locals
    <2>2. Frame(o)
        BY <1>2 DEF Send
    <2> QED
        BY <1>a, <2>1, <2>2 DEF Backed, InFlight, LoopRank
<1>3. CASE Answered(o) \/ Aborted(o)
    <2>1. /\ pc[o] \in {"send", "await"} /\ pc'[o] = "response"
          /\ record' = record /\ sent' = sent /\ local'[o].attempt = local[o].attempt
        BY <1>3 DEF Answered, Aborted, Locals
    <2>2. Frame(o)
        BY <1>3 DEF Answered, Aborted
    <2> QED
        BY <1>a, <2>1, <2>2 DEF Backed, InFlight, LoopRank
<1>4. CASE Retryable(o)
    <2>1. /\ pc[o] = "await" /\ record' = record /\ sent' = sent
          /\ local'[o].attempt = local[o].attempt
          /\ pc'[o] = IF local[o].attempt = MaxAttempts THEN "response" ELSE "send"
        BY <1>4 DEF Retryable, Locals
    <2>2. Frame(o)
        BY <1>4 DEF Retryable
    <2> QED
        BY <1>a, <2>1, <2>2 DEF Backed, InFlight, LoopRank
<1>5. CASE CommitResponse(o)
    <2>1. /\ pc[o] = "response" /\ pc'[o] = "effect" /\ sent' = sent
          /\ record'[o].request /\ record'[o].cost = record[o].cost + Cost(o, local[o].attempt)
        BY <1>5 DEF CommitResponse, Commit, Records
    <2>2. Frame(o)
        BY <1>5 DEF CommitResponse, Commit
    <2> QED
        BY <1>a, <2>1, <2>2 DEF Backed, InFlight, LoopRank, Cost, Paid
<1>6. CASE RequestConflict(o)
    <2>1. /\ pc[o] \in {"approval", "link", "receipt", "response"} /\ pc'[o] = "effect"
          /\ record' = record /\ sent' = sent
        BY <1>6 DEF RequestConflict, Fail
    <2>2. Frame(o)
        BY <1>6 DEF RequestConflict, Fail
    <2> QED
        BY <1>a, <2>1, <2>2 DEF Backed, InFlight, LoopRank, Cost, Paid
<1> QED
    BY <1>1, <1>2, <1>3, <1>4, <1>5, <1>6

LEMMA QuietKeeps ==
    ASSUME BackedInv, NEW o \in Ops, Quiet(o)
    PROVE  Backed(o)' /\ (InFlight(o)' <=> InFlight(o)) /\ (InFlight(o) => LoopRank(o)' = LoopRank(o))
<1>1. Backed(o)
    BY DEF BackedInv
<1> QED
    BY <1>1 DEF Quiet, Backed, InFlight, LoopRank, Cost, Paid

LEMMA BackedInit == Init => BackedInv
    BY DEF Init, BackedInv, Backed, InFlight, NoRecord

LEMMA BackedStep == RequestInv /\ BackedInv /\ [Next]_vars => BackedInv'
<1> SUFFICES ASSUME RequestInv, BackedInv, [Next]_vars PROVE BackedInv'
    OBVIOUS
<1>1. ASSUME NEW o \in Ops, Quiet(o) PROVE BackedInv'
    BY <1>1, QuietKeeps, BackedElsewhere DEF Quiet
<1>2. ASSUME NEW o \in Ops, Frame(o), Backed(o)' PROVE BackedInv'
    BY <1>2, BackedElsewhere
<1>3. ASSUME NEW e \in Edits, EditStep(e) PROVE BackedInv'
    BY <1>3, EditFrame, BackedElsewhere DEF BackedInv
<1>4. ASSUME NEW a \in Actors, Crash(a) PROVE BackedInv'
    <2>1. a \in Ops => Backed(a)'
        BY <1>4, CrashFrame DEF BackedInv, Backed, InFlight, Cost, Paid
    <2>2. a \in Edits => record'[a].cost = 0
        BY <1>4, CrashFrame DEF BackedInv
    <2> QED
        BY <1>4, <2>1, <2>2, CrashFrame, BackedElsewhere
<1>5. CASE UNCHANGED vars
    BY <1>5 DEF vars, BackedInv, Backed, InFlight, Cost, Paid
<1> QED
    BY <1>1, <1>2, <1>3, <1>4, <1>5, QuietSteps, LoopSteps DEF Next, OpStep, ServiceStep

\* The request loop is entered once, with the receipt, and only moves towards
\* its end, however often it retries: the progress behind ResponseRecorded, also
\* when calls overlap, conflict or die.
RequestAdvances ==
    [][\A o \in Ops :
          /\ ~InFlight(o) /\ InFlight(o)' => ~record[o].request /\ record'[o].request
          /\ InFlight(o) => /\ LoopRank(o)' <= LoopRank(o)
                            /\ pc'[o] # pc[o] => LoopRank(o)' < LoopRank(o)]_vars

LEMMA RankNat ==
    ASSUME TypeOK, NEW o \in Ops PROVE LoopRank(o) \in Nat
<1>1. local[o].attempt \in 0..MaxAttempts
    BY LocalUpdates DEF TypeOK
<1> QED
    BY <1>1 DEF LoopRank

LEMMA LoopAdvances ==
    ASSUME RequestInv, BackedInv, [Next]_vars, NEW o \in Ops
    PROVE  /\ ~InFlight(o) /\ InFlight(o)' => ~record[o].request /\ record'[o].request
           /\ InFlight(o) => /\ LoopRank(o)' <= LoopRank(o)
                             /\ pc'[o] # pc[o] => LoopRank(o)' < LoopRank(o)
<1>a. RequestInv' /\ LoopRank(o) \in Nat /\ LoopRank(o)' \in Nat
    <2>1. RequestInv'
        BY RequestStep
    <2>2. LoopRank(o) \in Nat
        BY RankNat DEF RequestInv
    <2>3. LoopRank(o)' \in Nat
        <3>1. local'[o].attempt \in 0..MaxAttempts
            BY <2>1, LocalUpdates DEF RequestInv, TypeOK
        <3> QED
            BY <3>1 DEF LoopRank
    <2> QED
        BY <2>1, <2>2, <2>3
<1>b. ASSUME pc'[o] = pc[o], local'[o] = local[o]
      PROVE  (InFlight(o)' <=> InFlight(o)) /\ LoopRank(o)' = LoopRank(o)
    BY <1>b DEF InFlight, LoopRank
<1>c. ASSUME NEW a \in Actors, Frame(a), a # o
      PROVE  pc'[o] = pc[o] /\ local'[o] = local[o]
    BY <1>c DEF Frame
<1>d. CASE pc'[o] = pc[o] /\ local'[o] = local[o]
    BY <1>a, <1>b, <1>d
<1>1. ASSUME Quiet(o)
      PROVE  (InFlight(o)' <=> InFlight(o)) /\ (InFlight(o) => pc'[o] = pc[o] /\ local'[o] = local[o])
    BY <1>1 DEF Quiet, InFlight
<1>2. CASE Quiet(o)
    BY <1>1, <1>2, <1>d
<1>3. CASE \/ CommitReceipt(o) \/ Send(o) \/ Answered(o) \/ Retryable(o) \/ Aborted(o)
           \/ CommitResponse(o) \/ RequestConflict(o)
    BY <1>3, <1>a, LoopSteps
<1>4. ASSUME NEW q \in Ops, q # o,
             \/ Begin(q) \/ GovernedRequest(q) \/ UserAnswers(q) \/ Aborted(q)
             \/ OpStep(q) \/ ServiceStep(q)
      PROVE  pc'[o] = pc[o] /\ local'[o] = local[o]
    <2>1. Frame(q)
        BY <1>4, QuietSteps, LoopSteps DEF Quiet, OpStep, ServiceStep
    <2> QED
        BY <1>c, <1>4, <2>1
<1>5. ASSUME NEW e \in Edits, EditStep(e) PROVE pc'[o] = pc[o] /\ local'[o] = local[o]
    BY <1>5, <1>c, EditFrame
<1>6. ASSUME NEW a \in Actors, Crash(a), a # o PROVE pc'[o] = pc[o] /\ local'[o] = local[o]
    BY <1>6, <1>c, CrashFrame
<1>7. CASE Crash(o)
    <2>1. pc'[o] = "done"
        BY <1>7, CrashFrame
    <2>2. InFlight(o) => LoopRank(o) > 0
        <3>1. local[o].attempt \in 0..MaxAttempts
            BY LocalUpdates DEF RequestInv, TypeOK
        <3> QED
            BY <3>1 DEF InFlight, LoopRank
    <2> QED
        BY <1>a, <2>1, <2>2 DEF InFlight, LoopRank
<1>8. CASE UNCHANGED vars
    BY <1>8, <1>d DEF vars
<1> QED
    BY <1>2, <1>3, <1>4, <1>5, <1>6, <1>7, <1>8, <1>d, QuietSteps DEF Next, OpStep, ServiceStep

\* Every step of a recorded request brings it nearer to its response, and a
\* request that has left its loop never enters it again.
THEOREM RequestsWindDown == Spec => RequestAdvances
<1>1. Init => RequestInv /\ BackedInv
    BY RequestInit, BackedInit
<1>2. RequestInv /\ BackedInv /\ [Next]_vars => (RequestInv /\ BackedInv)'
    BY RequestStep, BackedStep
<1>3. ASSUME RequestInv, BackedInv, [Next]_vars
      PROVE  [\A o \in Ops :
                /\ ~InFlight(o) /\ InFlight(o)' => ~record[o].request /\ record'[o].request
                /\ InFlight(o) => /\ LoopRank(o)' <= LoopRank(o)
                                  /\ pc'[o] # pc[o] => LoopRank(o)' < LoopRank(o)]_vars
    BY <1>3, LoopAdvances
<1> QED
    BY <1>1, <1>2, <1>3, PTL DEF Spec, RequestAdvances

\* The recorded spend never exceeds what requests really cost, however calls
\* overlap, conflict and die: the broker refuses no request for money that was
\* not spent.
LedgerNeverOverstates == projectSpend <= spent

\* A response is committed with the cost of the attempts made, at most once, and a
\* crash or a refused commit leaves the cost at zero.
THEOREM LedgerIsBacked ==
    ASSUME IsFiniteSet(Actors)
    PROVE  Spec => []LedgerNeverOverstates
<1>1. Init => RequestInv /\ BackedInv
    BY RequestInit, BackedInit
<1>2. RequestInv /\ BackedInv /\ [Next]_vars => (RequestInv /\ BackedInv)'
    BY RequestStep, BackedStep
<1>3. RequestInv /\ BackedInv => LedgerNeverOverstates
    <2> SUFFICES ASSUME RequestInv, BackedInv PROVE projectSpend <= spent
        BY DEF LedgerNeverOverstates
    <2>1. CostsRecorded \in [Actors -> Nat] /\ CostsSent \in [Ops -> Nat]
        BY CostsTyped DEF RequestInv
    <2>2. ASSUME NEW o \in Ops PROVE CostsRecorded[o] <= CostsSent[o]
        <3>1. CostsRecorded[o] \in {0, CostsSent[o]}
            BY DEF BackedInv, Backed, CostsRecorded, CostsSent
        <3> QED
            BY <2>1, <3>1
    <2>3. \A e \in Actors \ Ops : CostsRecorded[e] = 0
        BY DEF BackedInv, CostsRecorded
    <2>4. Below(CostsRecorded, CostsSent, Ops)
        BY <2>2 DEF Below
    <2> HIDE DEF Actors
    <2> QED
        BY <2>1, <2>3, <2>4, SpendCovered
<1> QED
    BY <1>1, <1>2, <1>3, PTL DEF Spec

----------------------------------------------------------------------------
(* Calls find their records as they left them                              *)

\* The status a call has given its record at each step.
FoundStatus(step) ==
    CASE step \in {"idle", "create", "edit-create"} -> "none"
      [] step \in {"start", "edit-await"} -> "planned"
      [] step \in {"edit-confirm", "edit-approval", "edit-run", "edit-block"} -> "awaiting_approval"
      [] OTHER -> "running"

\* What a call that has not returned finds in its record.
Found(a) ==
    /\ pc[a] # "done" => record[a].status = FoundStatus(pc[a])
    /\ record[a].response => record[a].request
    /\ At(a, "receipt") => ~record[a].request
    /\ pc[a] \in {"send", "await", "response"} => record[a].request /\ ~record[a].response

FoundInv == \A a \in Actors : Found(a)

\* The status that the commit of a step gives to the record.
StatusSteps ==
    ({"finish"} \X Finished) \cup
    {<<"create", "planned">>, <<"start", "running">>, <<"edit-create", "planned">>,
     <<"edit-await", "awaiting_approval">>, <<"edit-run", "running">>,
     <<"edit-block", "blocked">>, <<"edit-finish", "succeeded">>}

\* What the code would throw on never happens: the status a step gives the record is one that
\* operationTransitionPatch accepts, an approval is linked, and a receipt and a response are
\* committed (once each), for a running operation, and the retry loop is entered only with an
\* attempt left.
CommitsPermitted ==
    /\ \A a \in Actors, s \in Finished \cup Statuses :
           <<pc[a], s>> \in StatusSteps => s \in Transitions(record[a].status)
    /\ \A o \in Ops :
           /\ pc[o] \in {"link", "receipt", "response"} => record[o].status = "running"
           /\ At(o, "receipt") => ~record[o].request
           /\ At(o, "response") => record[o].request /\ ~record[o].response
           /\ At(o, "send") => local[o].attempt < MaxAttempts

\* A step that changes neither record nor status group of its call.
LEMMA FoundKept ==
    ASSUME NEW a \in Actors, Found(a), record'[a] = record[a],
           \/ pc'[a] = "done"
           \/ /\ pc[a] # "done" /\ FoundStatus(pc'[a]) = FoundStatus(pc[a])
              /\ pc'[a] \notin {"receipt", "send", "await", "response"}
    PROVE  Found(a)'
BY DEF Found, FoundStatus

\* A commit of a status.
LEMMA FoundMoved ==
    ASSUME TypeOK, NEW a \in Actors, NEW s, Found(a), SetStatus(a, s),
           pc'[a] = "done" \/ s = FoundStatus(pc'[a]),
           pc'[a] \notin {"receipt", "send", "await", "response"}
    PROVE  Found(a)'
<1>1. /\ record'[a].status = s
      /\ record'[a].request = record[a].request /\ record'[a].response = record[a].response
    BY DEF SetStatus, TypeOK, Records
<1> QED
    BY <1>1 DEF Found

LEMMA FoundLifecycle ==
    ASSUME RequestInv, NEW o \in Ops, Found(o),
           \/ Begin(o) \/ Open(o) \/ Create(o) \/ Start(o) \/ EffectReturns(o) \/ Finish(o)
           \/ LifecycleConflict(o) \/ GovernedRequest(o)
    PROVE  Found(o)'
<1> USE DEF RequestInv, TypeOK
<1>1. CASE Begin(o)
    <2>1. pc[o] = "idle" /\ pc'[o] = "create" /\ record'[o] = record[o]
        BY <1>1 DEF Begin, Idle
    <2> QED
        BY <2>1, FoundKept DEF FoundStatus
<1>2. CASE Open(o)
    BY <1>2 DEF Open, Found, FoundStatus
<1>3. CASE Create(o)
    <2>1. SetStatus(o, "planned") /\ pc'[o] = "start"
        BY <1>3 DEF Create
    <2> QED
        BY <2>1, FoundMoved DEF FoundStatus
<1>4. CASE Start(o)
    <2>1. SetStatus(o, "running") /\ pc'[o] = "effect"
        BY <1>4 DEF Start
    <2> QED
        BY <2>1, FoundMoved DEF FoundStatus
<1>5. CASE Finish(o)
    <2>1. SetStatus(o, local[o].result) /\ pc'[o] = "done"
        BY <1>5 DEF Finish, Return
    <2> QED
        BY <2>1, FoundMoved
<1>6. CASE LifecycleConflict(o)
    <2>1. pc'[o] = "done" /\ record'[o] = record[o]
        BY <1>6 DEF LifecycleConflict, Return
    <2> QED
        BY <2>1, FoundKept
<1>7. CASE EffectReturns(o) \/ GovernedRequest(o)
    <2>1. pc[o] = "effect" /\ pc'[o] \in {"finish", "broker"} /\ record'[o] = record[o]
        BY <1>7 DEF EffectReturns, GovernedRequest
    <2> QED
        BY <2>1, FoundKept DEF FoundStatus
<1> QED
    BY <1>1, <1>2, <1>3, <1>4, <1>5, <1>6, <1>7

LEMMA FoundBroker ==
    ASSUME RequestInv, NEW o \in Ops, Found(o),
           \/ BrokerRefuses(o) \/ BrokerBlocks(o) \/ BrokerAsks(o) \/ BrokerAllows(o)
           \/ UserAnswers(o) \/ CannotAsk(o) \/ RecordApproval(o) \/ LinkApproval(o)
    PROVE  Found(o)'
<1> USE DEF RequestInv, TypeOK
<1>1. CASE BrokerAllows(o)
    <2>1. pc[o] = "broker" /\ pc'[o] = "receipt" /\ record'[o] = record[o] /\ ~record[o].request
        BY <1>1 DEF BrokerAllows, BrokerAccepts
    <2> QED
        BY <2>1 DEF Found, FoundStatus
<1>2. CASE BrokerRefuses(o) \/ BrokerBlocks(o) \/ BrokerAsks(o)
    <2>1. pc[o] = "broker" /\ pc'[o] \in {"effect", "confirm"} /\ record'[o] = record[o]
        BY <1>2 DEF BrokerRefuses, BrokerBlocks, BrokerAsks, BrokerAccepts, Fail
    <2> QED
        BY <2>1, FoundKept DEF FoundStatus
<1>3. CASE UserAnswers(o) \/ CannotAsk(o) \/ RecordApproval(o) \/ LinkApproval(o)
    <2>1. /\ pc[o] \in {"confirm", "approval", "link"} /\ record'[o] = record[o]
          /\ pc'[o] \in {"approval", "link", "effect", "broker"}
        BY <1>3 DEF UserAnswers, CannotAsk, RecordApproval, LinkApproval, Commit, Fail
    <2> QED
        BY <2>1, FoundKept DEF FoundStatus
<1> QED
    BY <1>1, <1>2, <1>3

LEMMA FoundLoop ==
    ASSUME RequestInv, NEW o \in Ops, Found(o),
           \/ CommitReceipt(o) \/ Send(o) \/ Answered(o) \/ Retryable(o) \/ Aborted(o)
           \/ CommitResponse(o) \/ RequestConflict(o)
    PROVE  Found(o)'
<1> USE DEF RequestInv, TypeOK
<1>1. CASE CommitReceipt(o)
    <2>1. /\ pc[o] = "receipt" /\ pc'[o] = "send" /\ record'[o].status = record[o].status
          /\ ~record[o].request /\ record'[o].request
          /\ record'[o].response = record[o].response
        BY <1>1 DEF CommitReceipt, Commit, Records
    <2> QED
        BY <2>1 DEF Found, FoundStatus
<1>2. CASE Send(o) \/ Answered(o) \/ Retryable(o) \/ Aborted(o)
    <2>1. /\ pc[o] \in {"send", "await"} /\ pc'[o] \in {"send", "await", "response"}
          /\ record'[o] = record[o]
        BY <1>2 DEF Send, Answered, Retryable, Aborted
    <2> QED
        BY <2>1 DEF Found, FoundStatus
<1>3. CASE CommitResponse(o)
    <2>1. /\ pc[o] = "response" /\ pc'[o] = "effect" /\ record'[o].status = record[o].status
          /\ record[o].request /\ record'[o].request
        BY <1>3 DEF CommitResponse, Commit, Records
    <2> QED
        BY <2>1 DEF Found, FoundStatus
<1>4. CASE RequestConflict(o)
    <2>1. /\ pc[o] \in {"approval", "link", "receipt", "response"} /\ pc'[o] = "effect"
          /\ record'[o] = record[o]
        BY <1>4 DEF RequestConflict, Fail
    <2> QED
        BY <2>1, FoundKept DEF FoundStatus
<1> QED
    BY <1>1, <1>2, <1>3, <1>4

LEMMA FoundEdit ==
    ASSUME RequestInv, NEW e \in Edits, Found(e), EditStep(e)
    PROVE  Found(e)'
<1> USE DEF RequestInv, TypeOK
<1>1. CASE EditOpen(e)
    <2>1. pc[e] = "idle" /\ pc'[e] = "edit-create" /\ record'[e] = record[e]
        BY <1>1 DEF EditOpen, Idle
    <2> QED
        BY <2>1, FoundKept DEF FoundStatus
<1>2. CASE EditCreate(e)
    <2>1. SetStatus(e, "planned") /\ pc'[e] = "edit-await"
        BY <1>2 DEF EditCreate
    <2> QED
        BY <2>1, FoundMoved DEF FoundStatus
<1>3. CASE EditAwait(e)
    <2>1. SetStatus(e, "awaiting_approval") /\ pc'[e] = "edit-confirm"
        BY <1>3 DEF EditAwait
    <2> QED
        BY <2>1, FoundMoved DEF FoundStatus
<1>4. CASE EditConfirm(e) \/ EditApproval(e)
    <2>1. /\ pc[e] \in {"edit-confirm", "edit-approval"} /\ record'[e] = record[e]
          /\ pc'[e] \in {"edit-approval", "edit-run", "edit-block"}
        BY <1>4 DEF EditConfirm, EditApproval, EditCommit
    <2> QED
        BY <2>1, FoundKept DEF FoundStatus
<1>5. CASE EditRun(e)
    <2>1. SetStatus(e, "running") /\ pc'[e] = "edit-policy"
        BY <1>5 DEF EditRun
    <2> QED
        BY <2>1, FoundMoved DEF FoundStatus
<1>6. CASE EditPolicy(e)
    <2>1. pc[e] = "edit-policy" /\ pc'[e] = "edit-finish" /\ record'[e] = record[e]
        BY <1>6 DEF EditPolicy, EditCommit
    <2> QED
        BY <2>1, FoundKept DEF FoundStatus
<1>7. CASE EditBlock(e) \/ EditFinish(e)
    <2>1. PICK s : SetStatus(e, s)
        BY <1>7 DEF EditBlock, EditFinish
    <2>2. pc'[e] = "done"
        BY <1>7 DEF EditBlock, EditFinish, Return
    <2> QED
        BY <2>1, <2>2, FoundMoved
<1>8. CASE EditConflict(e)
    <2>1. pc'[e] = "done" /\ record'[e] = record[e]
        BY <1>8 DEF EditConflict, Return
    <2> QED
        BY <2>1, FoundKept
<1> QED
    BY <1>1, <1>2, <1>3, <1>4, <1>5, <1>6, <1>7, <1>8 DEF EditStep

LEMMA FoundInit == Init => FoundInv
BY DEF Init, FoundInv, Found, FoundStatus, NoRecord

LEMMA FoundStep == RequestInv /\ BackedInv /\ FoundInv /\ [Next]_vars => FoundInv'
<1> SUFFICES ASSUME RequestInv, BackedInv, FoundInv, [Next]_vars PROVE FoundInv'
    OBVIOUS
<1>1. ASSUME NEW a \in Actors, Frame(a), Found(a)' PROVE FoundInv'
    <2>1. \A b \in Actors \ {a} : Found(b)'
        BY <1>1 DEF FoundInv, Found, Frame
    <2> QED
        BY <1>1, <2>1 DEF FoundInv
<1>2. ASSUME NEW o \in Ops, Frame(o), Found(o)' PROVE FoundInv'
    BY <1>1, <1>2
<1>3. ASSUME NEW o \in Ops PROVE Found(o)
    BY DEF FoundInv
<1>4. ASSUME NEW o \in Ops, Quiet(o) PROVE Frame(o)
    BY <1>4 DEF Quiet
<1>5. ASSUME NEW e \in Edits, EditStep(e) PROVE FoundInv'
    <2>1. Found(e) /\ e \in Actors
        BY DEF FoundInv
    <2>2. Found(e)' /\ Frame(e)
        BY <1>5, <2>1, FoundEdit, EditFrame
    <2> QED
        BY <1>1, <2>1, <2>2
<1>6. ASSUME NEW a \in Actors, Crash(a) PROVE FoundInv'
    <2>1. Frame(a) /\ record'[a] = record[a] /\ pc'[a] = "done" /\ Found(a)
        BY <1>6, CrashFrame DEF FoundInv
    <2> QED
        BY <1>1, <2>1, FoundKept
<1>7. CASE UNCHANGED vars
    BY <1>7 DEF vars, FoundInv, Found
<1> QED
    BY <1>2, <1>3, <1>4, <1>5, <1>6, <1>7, QuietSteps, LoopSteps, FoundLifecycle, FoundBroker,
        FoundLoop DEF Next, OpStep, ServiceStep

\* However calls, edits and crashes interleave, no commit of a call is refused for what its
\* record holds: between a call's own steps nobody else changes the record, so a stale
\* revision is the only refusal a call meets (operationTransitionPatch, commitOperationRunFile).
THEOREM CommitsAlwaysPermitted == Spec => []CommitsPermitted
<1>1. Init => RequestInv /\ BackedInv /\ FoundInv
    BY RequestInit, BackedInit, FoundInit
<1>2. RequestInv /\ BackedInv /\ FoundInv /\ [Next]_vars => (RequestInv /\ BackedInv /\ FoundInv)'
    BY RequestStep, BackedStep, FoundStep
<1>3. RequestInv /\ BackedInv /\ FoundInv => CommitsPermitted
    <2> SUFFICES ASSUME RequestInv, BackedInv, FoundInv PROVE CommitsPermitted
        OBVIOUS
    <2>1. ASSUME NEW a \in Actors, NEW s \in Finished \cup Statuses, <<pc[a], s>> \in StatusSteps
          PROVE  s \in Transitions(record[a].status)
        <3>1. record[a].status = FoundStatus(pc[a])
            BY <2>1 DEF FoundInv, Found, StatusSteps
        <3>2. CASE pc[a] \in {"finish", "edit-finish"}
            BY <2>1, <3>1, <3>2 DEF StatusSteps, FoundStatus, Transitions, Finished
        <3>3. CASE pc[a] \in {"create", "edit-create", "start", "edit-await"}
            BY <2>1, <3>1, <3>3 DEF StatusSteps, FoundStatus, Transitions, Finished
        <3>4. CASE pc[a] \in {"edit-run", "edit-block"}
            BY <2>1, <3>1, <3>4 DEF StatusSteps, FoundStatus, Transitions, Finished
        <3>5. pc[a] \in {"finish", "edit-finish", "create", "edit-create", "start", "edit-await",
                         "edit-run", "edit-block"}
            BY <2>1 DEF StatusSteps
        <3> QED
            BY <3>2, <3>3, <3>4, <3>5
    <2>2. ASSUME NEW o \in Ops
          PROVE  /\ pc[o] \in {"link", "receipt", "response"} => record[o].status = "running"
                 /\ At(o, "receipt") => ~record[o].request
                 /\ At(o, "response") => record[o].request /\ ~record[o].response
        BY DEF FoundInv, Found, FoundStatus
    <2>3. ASSUME NEW o \in Ops PROVE At(o, "send") => local[o].attempt < MaxAttempts
        BY DEF BackedInv, Backed
    <2> QED
        BY <2>1, <2>2, <2>3 DEF CommitsPermitted
<1> QED
    BY <1>1, <1>2, <1>3, PTL DEF Spec

=============================================================================
