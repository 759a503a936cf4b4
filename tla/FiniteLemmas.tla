---------------------------- MODULE FiniteLemmas ----------------------------
(***************************************************************************)
(* Facts about finite sets that the library does not state: the maximum,   *)
(* what the sum of the community modules computes, and induction and       *)
(* recursion along a rank.  They go by well-founded orders, and have sets  *)
(* and functions where the library's induction theorems have an operator.  *)
(***************************************************************************)
EXTENDS FiniteSetsExt, FiniteSetTheorems, WellFoundedInduction, TLAPS

\* In a family of subsets of a finite set some member has no other below it.
LEMMA LeastSubset ==
    \A S, F : IsFiniteSet(S) /\ F \in SUBSET (SUBSET S) /\ F # {} =>
        \E T \in F : \A U \in F : ~(U \subseteq T /\ U # T)
<1> SUFFICES ASSUME NEW S, IsFiniteSet(S), NEW F \in SUBSET (SUBSET S), F # {}
             PROVE  \E T \in F : \A U \in F : ~(U \subseteq T /\ U # T)
  OBVIOUS
<1>1. IsWellFoundedOn(StrictSubsetOrdering(S), FiniteSubsetsOf(S))
  BY FS_StrictSubsetOrderingWellFounded
<1>2. F \subseteq FiniteSubsetsOf(S)
  BY FS_FiniteSubsetsOfFinite
<1>3. PICK T \in F : \A U \in F : ~(<<U, T>> \in StrictSubsetOrdering(S))
  <2> HIDE DEF StrictSubsetOrdering
  <2> QED BY <1>1, <1>2, WFMin
<1>4. ASSUME NEW U \in F, U \subseteq T, U # T PROVE FALSE
  <2>1. <<U, T>> \in (SUBSET S) \X (SUBSET S)
    OBVIOUS
  <2>2. <<U, T>> \in StrictSubsetOrdering(S)
    BY <2>1, <1>4 DEF StrictSubsetOrdering
  <2> QED BY <2>2, <1>3
<1> QED BY <1>3, <1>4

\* A finite set of integers has a greatest element, which Max picks.
LEMMA GreatestExists ==
    ASSUME NEW S, IsFiniteSet(S)
    PROVE  \A T \in SUBSET S : T \subseteq Int /\ T # {} => \E x \in T : \A y \in T : x >= y
<1> DEFINE Bad == {T \in SUBSET S : T \subseteq Int /\ T # {} /\ ~(\E x \in T : \A y \in T : x >= y)}
<1> SUFFICES ASSUME Bad # {} PROVE FALSE
  OBVIOUS
<1>1. PICK T \in Bad : \A U \in Bad : ~(U \subseteq T /\ U # T)
  <2> HIDE DEF Bad
  <2>1. Bad \in SUBSET (SUBSET S)
    BY DEF Bad
  <2> QED BY <2>1, LeastSubset
<1>2. PICK x \in T : TRUE
  OBVIOUS
<1>3. T \ {x} \in SUBSET S /\ T \ {x} \notin Bad
  BY <1>1, <1>2
<1>4. CASE T \ {x} = {}
  BY <1>2, <1>4
<1>5. CASE \E m \in T \ {x} : \A y \in T \ {x} : m >= y
  BY <1>5, <1>2
<1> QED BY <1>3, <1>4, <1>5

LEMMA MaxOfFinite ==
    ASSUME NEW S, IsFiniteSet(S), S # {}, S \subseteq Int
    PROVE  Max(S) \in S /\ \A x \in S : x <= Max(S)
<1>1. \E x \in S : \A y \in S : x >= y
  BY GreatestExists
<1> QED BY <1>1 DEF Max

-----------------------------------------------------------------------------
\* The element that the sum takes off a set, and one step of it.
Pick(s)       == CHOOSE x \in s : TRUE
Step(f, g, s) == IF s = {} THEN 0 ELSE f[Pick(s)] + g[s \ {Pick(s)}]
IsSum(f, g, S) == g = [s \in SUBSET S |-> Step(f, g, s)]

\* The recursive function of the sum exists, by the size of the sets.
LEMMA SumExists ==
    ASSUME NEW S, IsFiniteSet(S), NEW f
    PROVE  \E g : IsSum(f, g, S)
<1> DEFINE Upto(n)    == {s \in SUBSET S : Cardinality(s) <= n}
           Good(n, g) == g = [s \in Upto(n) |-> Step(f, g, s)]
           Bad        == {n \in Nat : ~(\E g : Good(n, g))}
<1>1. \A s \in SUBSET S : IsFiniteSet(s) /\ Cardinality(s) \in Nat
  BY FS_Subset, FS_CardinalityType
<1>2. \A s \in SUBSET S : s # {} => /\ s \ {Pick(s)} \in SUBSET S
                                   /\ Cardinality(s \ {Pick(s)}) = Cardinality(s) - 1
  BY <1>1, FS_RemoveElement DEF Pick
<1>3. \A s \in SUBSET S : Cardinality(s) = 0 <=> s = {}
  BY <1>1, FS_EmptySet
<1>4. Bad = {}
  <2> SUFFICES ASSUME Bad # {} PROVE FALSE
    OBVIOUS
  <2>1. PICK n \in Bad : \A m \in Bad : ~(m < n)
    <3> HIDE DEF Bad
    <3>1. Bad \subseteq Nat
      BY DEF Bad
    <3>2. PICK n \in Bad : \A m \in Bad : ~(<<m, n>> \in OpToRel(<, Nat))
      BY <3>1, NatLessThanWellFounded, WFMin
    <3> QED BY <3>1, <3>2 DEF OpToRel
  <2>2. CASE n = 0
    <3> DEFINE g == [s \in Upto(n) |-> 0]
    <3>1. \A s \in Upto(n) : s = {}
      BY <2>2, <1>1, <1>3
    <3>2. Good(n, g)
      BY <3>1 DEF Step
    <3> QED BY <3>2
  <2>3. CASE n # 0
    <3>1. n - 1 \in Nat /\ n - 1 < n
      BY <2>3
    <3>2. PICK g : Good(n - 1, g)
      BY <3>1, <2>1
    <3> DEFINE h == [s \in Upto(n) |-> Step(f, g, s)]
    <3>3. ASSUME NEW s \in Upto(n), s # {} PROVE h[s \ {Pick(s)}] = g[s \ {Pick(s)}]
      <4>1. s \ {Pick(s)} \in Upto(n - 1) /\ s \ {Pick(s)} \in Upto(n)
        BY <3>3, <1>1, <1>2, <3>1
      <4> HIDE DEF Upto
      <4>2. g[s \ {Pick(s)}] = Step(f, g, s \ {Pick(s)})
        BY <3>2, <4>1
      <4> QED BY <4>1, <4>2
    <3>4. Good(n, h)
      <4>1. \A s \in Upto(n) : Step(f, g, s) = Step(f, h, s)
        BY <3>3 DEF Step
      <4> HIDE DEF Upto
      <4> QED BY <4>1
    <3> QED BY <3>4
  <2> QED BY <2>2, <2>3
<1>5. Cardinality(S) \in Nat /\ \A s \in SUBSET S : Cardinality(s) <= Cardinality(S)
  BY FS_CardinalityType, FS_Subset
<1>6. Upto(Cardinality(S)) = SUBSET S
  BY <1>5
<1>7. PICK g : Good(Cardinality(S), g)
  BY <1>4, <1>5
<1> QED BY <1>6, <1>7 DEF IsSum

LEMMA SumIsSum ==
    ASSUME NEW S, IsFiniteSet(S), NEW f
    PROVE  \E g : IsSum(f, g, S) /\ SumFunctionOnSet(f, S) = g[S]
<1> DEFINE g == CHOOSE g : IsSum(f, g, S)
<1>1. IsSum(f, g, S)
  BY SumExists
<1>2. SumFunctionOnSet(f, S) = g[S]
  BY DEF SumFunctionOnSet, FoldFunctionOnSet, MapThenFoldSet, IsSum, Step, Pick
<1> QED BY <1>1, <1>2

LEMMA SumOfEmpty == \A f : SumFunctionOnSet(f, {}) = 0
<1> SUFFICES ASSUME NEW f PROVE SumFunctionOnSet(f, {}) = 0
  OBVIOUS
<1>1. PICK g : IsSum(f, g, {}) /\ SumFunctionOnSet(f, {}) = g[{}]
  BY SumIsSum, FS_EmptySet
<1> QED BY <1>1 DEF IsSum, Step

\* A sum of natural numbers is one.
LEMMA SumOfNaturals ==
    ASSUME NEW S, IsFiniteSet(S), NEW f, \A x \in S : f[x] \in Nat
    PROVE  SumFunctionOnSet(f, S) \in Nat
<1>1. PICK g : IsSum(f, g, S) /\ SumFunctionOnSet(f, S) = g[S]
  BY SumIsSum
<1> DEFINE Bad == {s \in SUBSET S : g[s] \notin Nat}
<1>2. Bad = {}
  <2> SUFFICES ASSUME Bad # {} PROVE FALSE
    OBVIOUS
  <2>1. PICK T \in Bad : \A U \in Bad : ~(U \subseteq T /\ U # T)
    <3> HIDE DEF Bad
    <3>1. Bad \in SUBSET (SUBSET S)
      BY DEF Bad
    <3> QED BY <3>1, LeastSubset
  <2>2. T # {} /\ g[T] = f[Pick(T)] + g[T \ {Pick(T)}]
    <3>1. \A s \in SUBSET S : g[s] = Step(f, g, s)
      BY <1>1 DEF IsSum
    <3>2. T \in SUBSET S /\ g[T] \notin Nat /\ {} \in SUBSET S
      OBVIOUS
    <3> QED BY <3>1, <3>2 DEF Step
  <2>3. Pick(T) \in T
    BY <2>2 DEF Pick
  <2>4. g[T \ {Pick(T)}] \in Nat
    BY <2>1, <2>3
  <2> QED BY <2>2, <2>3, <2>4
<1> QED BY <1>1, <1>2

LEMMA SumOfZeros ==
    ASSUME NEW S, IsFiniteSet(S)
    PROVE  SumFunctionOnSet([x \in S |-> 0], S) = 0
<1> DEFINE f == [x \in S |-> 0]
<1>1. PICK g : IsSum(f, g, S) /\ SumFunctionOnSet(f, S) = g[S]
  BY SumIsSum
<1> DEFINE Bad == {s \in SUBSET S : g[s] # 0}
<1>2. Bad = {}
  <2> SUFFICES ASSUME Bad # {} PROVE FALSE
    OBVIOUS
  <2>1. PICK T \in Bad : \A U \in Bad : ~(U \subseteq T /\ U # T)
    <3> HIDE DEF Bad
    <3>1. Bad \in SUBSET (SUBSET S)
      BY DEF Bad
    <3> QED BY <3>1, LeastSubset
  <2>2. T # {} /\ g[T] = f[Pick(T)] + g[T \ {Pick(T)}]
    BY <1>1 DEF IsSum, Step
  <2>3. Pick(T) \in T
    BY <2>2 DEF Pick
  <2>4. g[T \ {Pick(T)}] = 0 /\ f[Pick(T)] = 0
    BY <2>1, <2>3
  <2> QED BY <2>2, <2>4
<1> QED BY <1>1, <1>2

\* A change of one summand changes the sum by as much.
LEMMA SumOfChanged ==
    ASSUME NEW S, IsFiniteSet(S), NEW f, NEW h, NEW u \in S,
           \A x \in S : f[x] \in Int /\ h[x] \in Int,
           \A x \in S \ {u} : h[x] = f[x]
    PROVE  SumFunctionOnSet(h, S) = SumFunctionOnSet(f, S) + h[u] - f[u]
<1>1. PICK g : IsSum(f, g, S) /\ SumFunctionOnSet(f, S) = g[S]
  BY SumIsSum
<1>2. PICK k : IsSum(h, k, S) /\ SumFunctionOnSet(h, S) = k[S]
  BY SumIsSum
<1> DEFINE Off(s) == IF u \in s THEN h[u] - f[u] ELSE 0
           Bad    == {s \in SUBSET S : ~(g[s] \in Int /\ k[s] = g[s] + Off(s))}
<1>3. Bad = {}
  <2> SUFFICES ASSUME Bad # {} PROVE FALSE
    OBVIOUS
  <2>1. PICK T \in Bad : \A U \in Bad : ~(U \subseteq T /\ U # T)
    <3> HIDE DEF Bad
    <3>1. Bad \in SUBSET (SUBSET S)
      BY DEF Bad
    <3> QED BY <3>1, LeastSubset
  <2>2. T # {}
    BY <1>1, <1>2 DEF IsSum, Step
  <2> DEFINE x == Pick(T)
             R == T \ {x}
  <2>3. x \in T /\ x \in S
    BY <2>2 DEF Pick
  <2>4. g[T] = f[x] + g[R] /\ k[T] = h[x] + k[R]
    BY <1>1, <1>2, <2>2 DEF IsSum, Step
  <2>5. g[R] \in Int /\ k[R] = g[R] + Off(R)
    BY <2>1, <2>3
  <2> HIDE DEF x
  <2>6. CASE x = u
    BY <2>3, <2>4, <2>5, <2>6
  <2>7. CASE x # u
    <3>1. h[x] = f[x] /\ (u \in R <=> u \in T)
      BY <2>3, <2>7
    <3> QED BY <2>3, <2>4, <2>5, <3>1
  <2> QED BY <2>6, <2>7
<1> QED BY <1>1, <1>2, <1>3

-----------------------------------------------------------------------------
(* Induction and recursion along a rank.                                   *)

\* A set that holds each element whose lower ones it holds, holds them all.
LEMMA RankInduction ==
    ASSUME NEW N, NEW rank \in [N -> Nat], NEW S,
           \A n \in N : (\A p \in N : rank[p] < rank[n] => p \in S) => n \in S
    PROVE  N \subseteq S
<1> DEFINE Bad == {k \in Nat : \E n \in N : rank[n] = k /\ n \notin S}
<1>1. Bad = {}
  <2> SUFFICES ASSUME Bad # {} PROVE FALSE
    OBVIOUS
  <2>1. PICK k \in Bad : \A j \in Bad : ~(j < k)
    <3> HIDE DEF Bad
    <3>1. Bad \subseteq Nat
      BY DEF Bad
    <3>2. PICK k \in Bad : \A j \in Bad : ~(<<j, k>> \in OpToRel(<, Nat))
      BY <3>1, NatLessThanWellFounded, WFMin
    <3> QED BY <3>1, <3>2 DEF OpToRel
  <2>2. PICK n \in N : rank[n] = k /\ n \notin S
    OBVIOUS
  <2>3. PICK p \in N : rank[p] < rank[n] /\ p \notin S
    BY <2>2
  <2> QED BY <2>1, <2>2, <2>3
<1> QED BY <1>1

\* T takes a function on N to the function that one step of a recursive
\* definition makes of it; the step only looks at lower elements.
LooksDown(T, rank, N) ==
    /\ T \in [[N -> Int] -> [N -> Int]]
    /\ \A f, h \in [N -> Int], n \in N :
          (\A p \in N : rank[p] < rank[n] => f[p] = h[p]) => T[f][n] = T[h][n]

LEMMA RankRecursion ==
    ASSUME NEW N, NEW rank \in [N -> Nat], NEW T, LooksDown(T, rank, N)
    PROVE  \E f \in [N -> Int] : f = T[f]
<1> USE DEF LooksDown
<1> DEFINE Upto(k, f) == \A n \in N : rank[n] < k => f[n] = T[f][n]
           Bad        == {k \in Nat : ~(\E f \in [N -> Int] : Upto(k, f))}
<1>1. Bad = {}
  <2> SUFFICES ASSUME Bad # {} PROVE FALSE
    OBVIOUS
  <2>1. PICK k \in Bad : \A j \in Bad : ~(j < k)
    <3> HIDE DEF Bad
    <3>1. Bad \subseteq Nat
      BY DEF Bad
    <3>2. PICK k \in Bad : \A j \in Bad : ~(<<j, k>> \in OpToRel(<, Nat))
      BY <3>1, NatLessThanWellFounded, WFMin
    <3> QED BY <3>1, <3>2 DEF OpToRel
  <2>2. CASE k = 0
    <3>1. [n \in N |-> 0] \in [N -> Int] /\ Upto(k, [n \in N |-> 0])
      BY <2>2
    <3> QED BY <3>1
  <2>3. CASE k # 0
    <3>1. k - 1 \in Nat /\ k - 1 < k
      BY <2>3
    <3>2. PICK f \in [N -> Int] : Upto(k - 1, f)
      BY <2>1, <3>1
    <3> DEFINE h == T[f]
    <3>3. h \in [N -> Int]
      OBVIOUS
    <3>4. ASSUME NEW n \in N, rank[n] < k PROVE h[n] = T[h][n]
      <4>1. \A p \in N : rank[p] < rank[n] => f[p] = h[p]
        BY <3>2, <3>4
      <4> HIDE DEF h
      <4>2. T[f][n] = T[h][n]
        BY <3>3, <4>1
      <4> QED BY <4>2 DEF h
    <3> QED BY <3>3, <3>4
  <2> QED BY <2>2, <2>3
\* The values of the functions for each bound agree, and make up the whole.
<1>2. ASSUME NEW k \in Nat, NEW l \in Nat, k <= l, NEW f \in [N -> Int], NEW h \in [N -> Int],
             Upto(k, f), Upto(l, h), NEW n \in N, rank[n] < k
      PROVE  f[n] = h[n]
  <2> DEFINE S == {x \in N : rank[x] < k => f[x] = h[x]}
  <2>1. ASSUME NEW x \in N, \A p \in N : rank[p] < rank[x] => p \in S PROVE x \in S
    <3> SUFFICES ASSUME rank[x] < k PROVE f[x] = h[x]
      OBVIOUS
    <3>1. \A p \in N : rank[p] < rank[x] => f[p] = h[p]
      BY <2>1
    <3>2. T[f][x] = T[h][x]
      BY <3>1
    <3> QED BY <1>2, <3>2
  <2>2. N \subseteq S
    <3> HIDE DEF S
    <3> QED BY <2>1, RankInduction
  <2> QED BY <1>2, <2>2
<1> DEFINE At(k) == CHOOSE f \in [N -> Int] : Upto(k, f)
           g     == [n \in N |-> At(rank[n] + 1)[n]]
<1>3. \A k \in Nat : At(k) \in [N -> Int] /\ Upto(k, At(k))
  <2>1. \A k \in Nat : \E f \in [N -> Int] : Upto(k, f)
    BY <1>1
  <2> HIDE DEF Upto
  <2> QED BY <2>1
<1> HIDE DEF At, Upto
<1>4. g \in [N -> Int]
  BY <1>3
<1>5. ASSUME NEW n \in N PROVE g[n] = T[g][n]
  <2> DEFINE k == rank[n] + 1
             f == At(k)
  <2>1. k \in Nat /\ f \in [N -> Int] /\ Upto(k, f)
    BY <1>3
  <2>2. ASSUME NEW p \in N, rank[p] < rank[n] PROVE g[p] = f[p]
    <3>1. PICK j \in Nat : j = rank[p] + 1 /\ j <= k /\ rank[p] < j
      BY <2>2
    <3>2. At(j) \in [N -> Int] /\ Upto(j, At(j))
      BY <1>3
    <3>3. At(j)[p] = f[p]
      BY <1>2, <2>1, <3>1, <3>2
    <3> QED BY <3>1, <3>3
  <2> HIDE DEF g
  <2>3. T[g][n] = T[f][n]
    BY <1>4, <2>1, <2>2
  <2>4. f[n] = T[f][n]
    BY <2>1 DEF Upto
  <2> QED BY <2>3, <2>4 DEF g
<1>6. g = T[g]
  <2>1. T[g] \in [N -> Int]
    BY <1>4
  <2> HIDE DEF g
  <2> QED BY <1>4, <1>5, <2>1
<1> QED BY <1>4, <1>6

-----------------------------------------------------------------------------
(* Images, greatest and least elements.                                    *)

LEMMA ImageIsFinite ==
    ASSUME NEW S, IsFiniteSet(S), NEW f
    PROVE  IsFiniteSet({f[x] : x \in S})
<1> DEFINE T == {f[x] : x \in S}
           h == [x \in S |-> f[x]]
<1>1. h \in Surjection(S, T)
  BY DEF Surjection
<1> QED BY <1>1, FS_Surjection

\* The definition of Max, and of Min, for an element known to be the one.
LEMMA MaxIs ==
    ASSUME NEW S, S \subseteq Int, NEW m \in S, \A x \in S : x <= m
    PROVE  Max(S) = m
<1>1. Max(S) \in S /\ \A x \in S : Max(S) >= x
  BY DEF Max
<1>2. Max(S) \in Int /\ m \in Int /\ Max(S) <= m /\ Max(S) >= m
  BY <1>1
<1> QED BY <1>2

LEMMA MinOfFinite ==
    ASSUME NEW S, IsFiniteSet(S), S # {}, S \subseteq Int
    PROVE  Min(S) \in S /\ \A x \in S : Min(S) <= x
<1> DEFINE minus == [x \in Int |-> -x]
           T     == {minus[x] : x \in S}
<1>1. IsFiniteSet(T)
  BY ImageIsFinite
<1>2. T # {} /\ T \subseteq Int /\ \A x \in S : -x \in T
  <2>1. \A x \in S : minus[x] = -x /\ minus[x] \in T /\ minus[x] \in Int
    OBVIOUS
  <2>2. T # {} /\ T \subseteq Int
    BY <2>1
  <2> HIDE DEF T
  <2> QED BY <2>1, <2>2
<1>3. Max(T) \in T /\ \A x \in T : x <= Max(T)
  <2> HIDE DEF T
  <2> QED BY <1>1, <1>2, MaxOfFinite
<1>4. PICK m \in S : Max(T) = -m
  BY <1>3
<1>5. ASSUME NEW x \in S PROVE m <= x
  <2>1. -x \in T /\ x \in Int /\ m \in Int
    BY <1>2
  <2> HIDE DEF T
  <2>2. -x <= -m
    BY <1>3, <1>4, <2>1
  <2> QED BY <2>1, <2>2
<1> QED BY <1>5 DEF Min

-----------------------------------------------------------------------------
(* Sums over the parts of a set.                                           *)

LEMMA SumIsUnique ==
    ASSUME NEW S, IsFiniteSet(S), NEW f, NEW h, \A x \in S : f[x] = h[x],
           NEW T \in SUBSET S, NEW g, IsSum(f, g, S), NEW k, IsSum(h, k, T)
    PROVE  \A s \in SUBSET T : g[s] = k[s]
<1> DEFINE Bad == {s \in SUBSET T : g[s] # k[s]}
<1> SUFFICES ASSUME Bad # {} PROVE FALSE
  OBVIOUS
<1>1. PICK s \in Bad : \A u \in Bad : ~(u \subseteq s /\ u # s)
  <2> HIDE DEF Bad
  <2>1. Bad \in SUBSET (SUBSET T) /\ IsFiniteSet(T)
    BY FS_Subset DEF Bad
  <2> QED BY <2>1, LeastSubset
<1>2. g[s] = Step(f, g, s) /\ k[s] = Step(h, k, s)
  BY DEF IsSum
<1>3. s # {}
  BY <1>2 DEF Step
<1>4. Pick(s) \in s
  BY <1>3 DEF Pick
<1>5. g[s \ {Pick(s)}] = k[s \ {Pick(s)}]
  BY <1>1, <1>4
<1>6. f[Pick(s)] = h[Pick(s)]
  BY <1>4
<1> QED BY <1>2, <1>3, <1>5, <1>6 DEF Step

\* A sum depends on the summands of its set only.
LEMMA SumOfSame ==
    ASSUME NEW S, IsFiniteSet(S), NEW f, NEW h, \A x \in S : f[x] = h[x]
    PROVE  SumFunctionOnSet(f, S) = SumFunctionOnSet(h, S)
<1>1. PICK g : IsSum(f, g, S) /\ SumFunctionOnSet(f, S) = g[S]
  BY SumIsSum
<1>2. PICK k : IsSum(h, k, S) /\ SumFunctionOnSet(h, S) = k[S]
  BY SumIsSum
<1> QED BY <1>1, <1>2, SumIsUnique

\* One more summand.
LEMMA SumOfMore ==
    ASSUME NEW S, IsFiniteSet(S), NEW f, \A x \in S : f[x] \in Int, NEW u \in S
    PROVE  /\ SumFunctionOnSet(f, S) \in Int
           /\ SumFunctionOnSet(f, S) = SumFunctionOnSet(f, S \ {u}) + f[u]
<1>1. PICK g : IsSum(f, g, S) /\ SumFunctionOnSet(f, S) = g[S]
  BY SumIsSum
<1> DEFINE R == S \ {u}
<1>2. IsFiniteSet(R)
  BY FS_Subset
<1>3. PICK k : IsSum(f, k, R) /\ SumFunctionOnSet(f, R) = k[R]
  BY <1>2, SumIsSum
<1>4. g[R] = k[R]
  BY <1>1, <1>3, SumIsUnique
<1> DEFINE Bad == {s \in SUBSET S : ~(g[s] \in Int /\ \A v \in s : g[s] = g[s \ {v}] + f[v])}
<1>5. Bad = {}
  <2> SUFFICES ASSUME Bad # {} PROVE FALSE
    OBVIOUS
  <2>1. PICK s \in Bad : \A t \in Bad : ~(t \subseteq s /\ t # s)
    <3> HIDE DEF Bad
    <3>1. Bad \in SUBSET (SUBSET S)
      BY DEF Bad
    <3> QED BY <3>1, LeastSubset
  <2> DEFINE x == Pick(s)
  <2>2. g[s] = Step(f, g, s)
    BY <1>1 DEF IsSum
  <2>3. s # {}
    <3>1. s = {} => g[s] = 0
      BY <2>2 DEF Step
    <3> QED BY <3>1
  <2>4. x \in s /\ x \in S /\ g[s] = f[x] + g[s \ {x}]
    BY <2>2, <2>3 DEF Step, Pick
  <2>5. \A v \in s : s \ {v} \in SUBSET S /\ s \ {v} \notin Bad
    BY <2>1
  <2>6. \A v \in s : g[s \ {v}] \in Int /\ \A w \in s \ {v} : g[s \ {v}] = g[(s \ {v}) \ {w}] + f[w]
    BY <2>5
  <2>7. g[s] \in Int
    <3>1. f[x] \in Int /\ g[s \ {x}] \in Int
      BY <2>4, <2>6
    <3> HIDE DEF x
    <3> QED BY <2>4, <3>1
  <2>8. PICK v \in s : g[s] # g[s \ {v}] + f[v]
    BY <2>7
  <2> HIDE DEF x, Bad
  <2>0. s \in SUBSET S /\ f[x] \in Int /\ f[v] \in Int /\ g[s \ {x}] \in Int
    BY <2>4, <2>6 DEF Bad
  <2>9. v # x
    <3>1. g[s] = g[s \ {x}] + f[x]
      BY <2>0, <2>4
    <3> QED BY <2>8, <3>1
  <2> DEFINE r == (s \ {x}) \ {v}
  <2>10. r = (s \ {v}) \ {x}
    OBVIOUS
  <2>11. r \in SUBSET S /\ r # s /\ r \subseteq s
    BY <2>4 DEF Bad
  <2>12. g[r] \in Int
    BY <2>1, <2>11 DEF Bad
  <2>13. g[s \ {x}] = g[r] + f[v]
    BY <2>4, <2>6, <2>9
  <2>14. g[s \ {v}] = g[r] + f[x]
    BY <2>4, <2>6, <2>9, <2>10
  <2> HIDE DEF r
  <2> QED BY <2>0, <2>4, <2>8, <2>12, <2>13, <2>14
<1>6. g[S] \in Int /\ g[S] = g[R] + f[u]
  <2>1. S \in SUBSET S
    OBVIOUS
  <2> QED BY <1>5, <2>1
<1> QED BY <1>1, <1>3, <1>4, <1>6

\* Natural numbers up to a bound.
LEMMA IntervalInduction ==
    ASSUME NEW m \in Nat, NEW S, 0 \in S, \A i \in 0..(m - 1) : i \in S => i + 1 \in S
    PROVE  0..m \subseteq S
<1> DEFINE I    == 0..m
           same == [i \in I |-> i]
<1>1. same \in [I -> Nat]
  OBVIOUS
<1>2. ASSUME NEW i \in I, \A j \in I : same[j] < same[i] => j \in S PROVE i \in S
  <2>1. CASE i = 0
    BY <2>1
  <2>2. CASE i # 0
    <3>1. i - 1 \in 0..(m - 1) /\ i - 1 \in I /\ i - 1 < i /\ (i - 1) + 1 = i
      BY <2>2
    <3>2. i - 1 \in S
      BY <1>2, <3>1
    <3> QED BY <3>1, <3>2
  <2> QED BY <2>1, <2>2
<1> HIDE DEF I, same
<1>3. I \subseteq S
  BY <1>1, <1>2, RankInduction
<1> QED BY <1>3 DEF I

LEMMA MinOfTwo == \A a, b \in Int : Min({a, b}) = IF a <= b THEN a ELSE b
<1> SUFFICES ASSUME NEW a \in Int, NEW b \in Int PROVE Min({a, b}) = IF a <= b THEN a ELSE b
  OBVIOUS
<1> DEFINE m == IF a <= b THEN a ELSE b
<1>1. m \in {a, b} /\ \A x \in {a, b} : m <= x
  OBVIOUS
<1>2. \A y \in {a, b} : (\A x \in {a, b} : y <= x) => y = m
  OBVIOUS
<1> QED BY <1>1, <1>2 DEF Min
=============================================================================
