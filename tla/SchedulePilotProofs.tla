------------------------- MODULE SchedulePilotProofs -------------------------
(***************************************************************************)
(* The cycle check of SchedulePilot is enough for networks of any size,    *)
(* any number of requests and any sequence of deletions: a cycle, and an   *)
(* assessment that reports one, takes an insert that another has           *)
(* overtaken.  The second needs that Kahn's algorithm sorts every network  *)
(* without a cycle.                                                        *)
(* What an assessment computes from a network of any size is its longest   *)
(* path.  The two passes are recursive functions over a network that is    *)
(* not fixed: an order of the activities in which dependencies go upwards  *)
(* takes the place of induction over it.                                   *)
(***************************************************************************)
EXTENDS SchedulePilot, FiniteLemmas

-----------------------------------------------------------------------------
(* Descendants.                                                            *)

LEMMA DescendantsClosed ==
    ASSUME NEW E \in SUBSET Pairs, NEW a
    PROVE  Descendants(a, E) \in SUBSET Activities /\ Closed(Descendants(a, E), a, E)
<1>1. ASSUME NEW e \in E, e[1] = a \/ e[1] \in Descendants(a, E)
      PROVE  e[2] \in Descendants(a, E)
  <2>1. e[2] \in Activities
    BY DEF Pairs
  <2>2. ASSUME NEW S \in SUBSET Activities, Closed(S, a, E) PROVE e[2] \in S
    BY <1>1, <2>2 DEF Descendants, Closed
  <2> QED BY <2>1, <2>2 DEF Descendants
<1> QED BY <1>1 DEF Descendants, Closed

LEMMA DescendantsLeast ==
    ASSUME NEW E, NEW a, NEW S \in SUBSET Activities, Closed(S, a, E)
    PROVE  Descendants(a, E) \subseteq S
BY DEF Descendants

LEMMA DescendantsMonotone ==
    ASSUME NEW E \in SUBSET Pairs, NEW F \in SUBSET E, NEW a
    PROVE  Descendants(a, F) \subseteq Descendants(a, E)
<1>1. Closed(Descendants(a, E), a, F)
  BY DescendantsClosed DEF Closed
<1> QED BY <1>1, DescendantsClosed, DescendantsLeast

LEMMA DescendantsTransitive ==
    ASSUME NEW E \in SUBSET Pairs, NEW a, NEW b \in Descendants(a, E)
    PROVE  Descendants(b, E) \subseteq Descendants(a, E)
<1>1. Closed(Descendants(a, E), b, E)
  BY DescendantsClosed DEF Closed
<1> QED BY <1>1, DescendantsClosed, DescendantsLeast

LEMMA SuccessorIsDescendant ==
    ASSUME NEW E \in SUBSET Pairs, NEW e \in E
    PROVE  e[2] \in Descendants(e[1], E)
BY DescendantsClosed DEF Closed

\* What a new dependency adds to the descendants of an activity.
LEMMA DescendantsOfInsert ==
    ASSUME NEW E \in SUBSET Pairs, NEW p \in Activities, NEW s \in Activities, NEW a \in Activities
    PROVE  Descendants(a, E \cup {<<p, s>>}) \subseteq
               Descendants(a, E) \cup (IF p = a \/ p \in Descendants(a, E)
                                       THEN {s} \cup Descendants(s, E) ELSE {})
<1> DEFINE D == Descendants(a, E)
           T == Descendants(s, E)
           S == D \cup (IF p = a \/ p \in D THEN {s} \cup T ELSE {})
<1>1. D \in SUBSET Activities /\ Closed(D, a, E) /\ T \in SUBSET Activities /\ Closed(T, s, E)
  BY DescendantsClosed
<1>2. Closed(S, a, E \cup {<<p, s>>})
  <2> SUFFICES ASSUME NEW e \in E \cup {<<p, s>>}, e[1] = a \/ e[1] \in S PROVE e[2] \in S
    BY DEF Closed
  <2> HIDE DEF D, T
  <2>1. CASE e \in E
    <3>1. CASE e[1] = a \/ e[1] \in D
      BY <1>1, <2>1, <3>1 DEF Closed
    <3>2. CASE ~(e[1] = a \/ e[1] \in D)
      <4>1. (p = a \/ p \in D) /\ (e[1] = s \/ e[1] \in T)
        BY <3>2
      <4> QED BY <1>1, <2>1, <4>1 DEF Closed
    <3> QED BY <3>1, <3>2
  <2>2. CASE e = <<p, s>>
    <3>1. e[1] = p /\ e[2] = s
      BY <2>2
    <3>2. CASE p = a \/ p \in D
      BY <3>1, <3>2
    <3>3. CASE ~(p = a \/ p \in D)
      BY <3>1, <3>3
    <3> QED BY <3>2, <3>3
  <2> QED BY <2>1, <2>2
<1>3. S \in SUBSET Activities
  BY <1>1
<1> QED BY <1>2, <1>3, DescendantsLeast

LEMMA AcyclicSubset ==
    ASSUME NEW E \in SUBSET Pairs, NEW F \in SUBSET E, Acyclic(E)
    PROVE  Acyclic(F)
BY DescendantsMonotone DEF Acyclic

\* The check is enough.
LEMMA AcyclicInsert ==
    ASSUME NEW E \in SUBSET Pairs, NEW p \in Activities, NEW s \in Activities,
           p # s, p \notin Descendants(s, E), Acyclic(E)
    PROVE  Acyclic(E \cup {<<p, s>>})
<1> SUFFICES ASSUME NEW a \in Activities, a \in Descendants(a, E \cup {<<p, s>>}) PROVE FALSE
  BY DEF Acyclic
<1>1. a \notin Descendants(a, E)
  BY DEF Acyclic
<1>2. (p = a \/ p \in Descendants(a, E)) /\ (a = s \/ a \in Descendants(s, E))
  BY <1>1, DescendantsOfInsert
<1>3. CASE a = s
  BY <1>2, <1>3
<1>4. CASE a \in Descendants(s, E)
  <2>1. Descendants(a, E) \subseteq Descendants(s, E)
    BY <1>4, DescendantsTransitive
  <2> QED BY <1>2, <1>4, <2>1
<1> QED BY <1>2, <1>3, <1>4

-----------------------------------------------------------------------------
(* Kahn's algorithm.                                                       *)

\* The level after L, and the recursive function of the levels.
Emptied(L, N, E)    == {n \in N : Preds(n, E) \subseteq L}
Level(g, k, N, E)   == IF k = 0 THEN {} ELSE Emptied(g[k - 1], N, E)
IsLevels(g, m, N, E) == g = [k \in 0..m |-> Level(g, k, N, E)]

LEMMA LevelsExist ==
    ASSUME NEW N, NEW E
    PROVE  \A m \in Nat : \E g : IsLevels(g, m, N, E)
<1> DEFINE Bad == {m \in Nat : ~(\E g : IsLevels(g, m, N, E))}
<1> SUFFICES ASSUME Bad # {} PROVE FALSE
  OBVIOUS
<1>1. PICK m \in Bad : \A k \in Bad : ~(k < m)
  <2> HIDE DEF Bad
  <2>1. Bad \subseteq Nat
    BY DEF Bad
  <2>2. PICK m \in Bad : \A k \in Bad : ~(<<k, m>> \in OpToRel(<, Nat))
    BY <2>1, NatLessThanWellFounded, WFMin
  <2> QED BY <2>1, <2>2 DEF OpToRel
<1>2. CASE m = 0
  <2> DEFINE g == [k \in 0..m |-> {}]
  <2>1. IsLevels(g, m, N, E)
    BY <1>2 DEF IsLevels, Level
  <2> QED BY <2>1
<1>3. CASE m # 0
  <2>1. m - 1 \in Nat /\ m - 1 < m
    BY <1>3
  <2>2. PICK g : IsLevels(g, m - 1, N, E)
    BY <1>1, <2>1
  <2> DEFINE h == [k \in 0..m |-> Level(g, k, N, E)]
  <2>3. ASSUME NEW k \in 0..m PROVE Level(h, k, N, E) = Level(g, k, N, E)
    <3>1. CASE k = 0
      BY <3>1 DEF Level
    <3>2. CASE k # 0
      <4>1. k - 1 \in 0..(m - 1) /\ k - 1 \in 0..m
        BY <3>2, <2>1
      <4>2. h[k - 1] = Level(g, k - 1, N, E)
        BY <4>1
      <4>3. g[k - 1] = Level(g, k - 1, N, E)
        BY <2>2, <4>1 DEF IsLevels
      <4> HIDE DEF h
      <4> QED BY <4>2, <4>3 DEF Level
    <3> QED BY <3>1, <3>2
  <2>4. IsLevels(h, m, N, E)
    BY <2>3 DEF IsLevels
  <2> QED BY <2>4
<1> QED BY <1>2, <1>3

LEMMA SortedIsLevel ==
    ASSUME NEW N, NEW E, Cardinality(N) \in Nat
    PROVE  \E g : IsLevels(g, Cardinality(N), N, E) /\ Sorted(N, E) = g[Cardinality(N)]
<1> DEFINE g == CHOOSE g : IsLevels(g, Cardinality(N), N, E)
<1>1. IsLevels(g, Cardinality(N), N, E)
  BY LevelsExist
<1>2. Sorted(N, E) = g[Cardinality(N)]
  BY DEF Sorted, IsLevels, Level, Emptied
<1> QED BY <1>1, <1>2

Ancestors(n, E) == {x \in Activities : n \in Descendants(x, E)}

LEMMA AncestorsOfPredecessor ==
    ASSUME NEW E \in SUBSET Pairs, Acyclic(E), NEW e \in E
    PROVE  /\ Ancestors(e[1], E) \subseteq Ancestors(e[2], E)
           /\ e[1] \in Ancestors(e[2], E) \ Ancestors(e[1], E)
<1>1. e[1] \in Activities /\ e[2] \in Descendants(e[1], E)
  BY SuccessorIsDescendant DEF Pairs
<1>2. ASSUME NEW x \in Ancestors(e[1], E) PROVE x \in Ancestors(e[2], E)
  <2>1. e[1] \in Descendants(x, E)
    BY DEF Ancestors
  <2>2. Descendants(e[1], E) \subseteq Descendants(x, E)
    BY <2>1, DescendantsTransitive
  <2> QED BY <1>1, <2>2 DEF Ancestors
<1>3. e[1] \notin Ancestors(e[1], E)
  BY DEF Ancestors, Acyclic
<1> QED BY <1>1, <1>2, <1>3 DEF Ancestors

\* Only activities with a dependency have ancestors or are one.
LEMMA AncestorsWithin ==
    ASSUME NEW N \in SUBSET Activities, NEW E \in SUBSET (N \X N), NEW n \in N, Acyclic(E)
    PROVE  Ancestors(n, E) \subseteq N \ {n}
<1>1. E \in SUBSET Pairs
  BY DEF Pairs
<1>2. ASSUME NEW x \in Ancestors(n, E), x \notin N PROVE FALSE
  <2>1. Closed({}, x, E)
    BY <1>2 DEF Closed
  <2>2. Descendants(x, E) = {}
    BY <2>1, DescendantsLeast
  <2> QED BY <2>2 DEF Ancestors
<1>3. n \notin Ancestors(n, E)
  BY DEF Ancestors, Acyclic
<1> QED BY <1>2, <1>3

\* A network without a cycle is sorted to its last activity: an activity
\* with fewer than k ancestors is among the first k levels.
LEMMA SortedAcyclic ==
    ASSUME NEW N \in SUBSET Activities, IsFiniteSet(N), NEW E \in SUBSET (N \X N), Acyclic(E)
    PROVE  Sorted(N, E) = N
<1> DEFINE m == Cardinality(N)
           Size(n) == Cardinality(Ancestors(n, E))
<1>1. m \in Nat
  BY FS_CardinalityType
<1>2. PICK g : IsLevels(g, m, N, E) /\ Sorted(N, E) = g[m]
  BY <1>1, SortedIsLevel
<1>3. E \in SUBSET Pairs
  BY DEF Pairs
<1>4. ASSUME NEW n \in N PROVE IsFiniteSet(Ancestors(n, E)) /\ Size(n) \in Nat /\ Size(n) < m
  <2>1. Ancestors(n, E) \subseteq N \ {n}
    BY AncestorsWithin
  <2>2. IsFiniteSet(N \ {n}) /\ Cardinality(N \ {n}) = m - 1
    BY FS_RemoveElement
  <2> QED BY <1>1, <2>1, <2>2, FS_Subset, FS_CardinalityType
<1>5. ASSUME NEW n \in N, NEW p \in Preds(n, E) PROVE p \in N /\ Size(p) < Size(n)
  <2>1. PICK e \in E : e[1] = p /\ e[2] = n
    BY DEF Preds
  <2>2. p \in N
    BY <2>1
  <2>3. Ancestors(p, E) \subseteq Ancestors(n, E) \ {p} /\ p \in Ancestors(n, E)
    BY <1>3, <2>1, AncestorsOfPredecessor
  <2>4. IsFiniteSet(Ancestors(n, E) \ {p}) /\ Cardinality(Ancestors(n, E) \ {p}) = Size(n) - 1
    BY <1>4, <2>3, FS_RemoveElement
  <2>5. Size(p) <= Size(n) - 1
    BY <2>3, <2>4, FS_Subset
  <2> QED BY <1>4, <2>2, <2>5
<1> DEFINE Bad == {k \in Nat : k <= m /\ ~(\A n \in N : Size(n) < k => n \in g[k])}
<1>6. Bad = {}
  <2> SUFFICES ASSUME Bad # {} PROVE FALSE
    OBVIOUS
  <2>1. PICK k \in Bad : \A j \in Bad : ~(j < k)
    <3> HIDE DEF Bad
    <3>1. Bad \subseteq Nat
      BY DEF Bad
    <3>2. PICK k \in Bad : \A j \in Bad : ~(<<j, k>> \in OpToRel(<, Nat))
      BY <3>1, NatLessThanWellFounded, WFMin
    <3> QED BY <3>1, <3>2 DEF OpToRel
  <2>2. PICK n \in N : Size(n) < k /\ n \notin g[k]
    BY <2>1
  <2>3. k - 1 \in Nat /\ k - 1 < k /\ k # 0 /\ k <= m /\ k \in Nat
    BY <2>2, <1>4
  <2>4. \A x \in N : Size(x) < k - 1 => x \in g[k - 1]
    BY <1>1, <2>1, <2>3
  <2>5. ASSUME NEW p \in Preds(n, E) PROVE p \in g[k - 1]
    BY <1>4, <1>5, <2>2, <2>3, <2>4
  <2>6. k \in 0..m
    BY <1>1, <2>3
  <2>7. g[k] = Emptied(g[k - 1], N, E)
    BY <1>2, <2>3, <2>6 DEF IsLevels, Level
  <2> QED BY <2>2, <2>5, <2>7 DEF Emptied
<1>7. N \subseteq g[m]
  BY <1>1, <1>4, <1>6
<1>8. g[m] \subseteq N
  <2>1. m \in 0..m
    BY <1>1
  <2> QED BY <1>2, <2>1 DEF IsLevels, Level, Emptied
<1> QED BY <1>2, <1>7, <1>8

\* An assessment that reports a cycle has read one.
LEMMA ReportedCycleIsOne ==
    ASSUME NEW N \in SUBSET Activities, IsFiniteSet(N), NEW dur, NEW all,
           DOMAIN all \in SUBSET Pairs, Acyclic(DOMAIN all)
    PROVE  ~ComputeCriticalPath(N, dur, all).cyclic
<1> DEFINE E == DOMAIN Known(N, all)
<1>1. E = DOMAIN all \cap (N \X N)
  BY DEF Known
<1>2. Acyclic(E)
  BY <1>1, AcyclicSubset
<1>3. Sorted(N, E) = N
  BY <1>1, <1>2, SortedAcyclic
<1> HIDE DEF E
<1> QED BY <1>3 DEF ComputeCriticalPath, Nothing, E

-----------------------------------------------------------------------------
(* The two passes over a sorted network.                                   *)

\* Activities with durations, dependencies with lags.
Network(N, E, dur, gap) ==
    IsFiniteSet(N) /\ E \in SUBSET (N \X N) /\ dur \in [N -> Int] /\ gap \in [E -> Int]

\* An order of the activities in which dependencies go upwards.
IsRank(rank, m, N, E) == rank \in [N -> 0..m] /\ \A e \in E : rank[e[1]] < rank[e[2]]

LEMMA EdgeEnds ==
    ASSUME NEW N, NEW E \in SUBSET (N \X N), NEW n
    PROVE  /\ \A p : p \in Preds(n, E) <=> <<p, n>> \in E
           /\ \A s : s \in Succs(n, E) <=> <<n, s>> \in E
           /\ Preds(n, E) \subseteq N /\ Succs(n, E) \subseteq N
<1>1. \A e \in E : e = <<e[1], e[2]>> /\ e[1] \in N /\ e[2] \in N
  OBVIOUS
<1>0. \A x, y : <<x, y>>[1] = x /\ <<x, y>>[2] = y
  OBVIOUS
<1>2. \A p : p \in Preds(n, E) <=> <<p, n>> \in E
  BY <1>0, <1>1 DEF Preds
<1>3. \A s : s \in Succs(n, E) <=> <<n, s>> \in E
  BY <1>0, <1>1 DEF Succs
<1>4. Preds(n, E) \subseteq N /\ Succs(n, E) \subseteq N
  BY <1>1 DEF Preds, Succs
<1> QED BY <1>2, <1>3, <1>4

\* Kahn's algorithm sorts a network only if there is such an order.
LEMMA SortedHasRank ==
    ASSUME NEW N, IsFiniteSet(N), NEW E \in SUBSET (N \X N), Sorted(N, E) = N
    PROVE  \E m \in Nat : \E rank : IsRank(rank, m, N, E)
<1> DEFINE m == Cardinality(N)
<1>1. m \in Nat
  BY FS_CardinalityType
<1>2. PICK g : IsLevels(g, m, N, E) /\ N = g[m]
  BY <1>1, SortedIsLevel
<1> DEFINE In(x) == {k \in 0..m : x \in g[k]}
           rank  == [x \in N |-> Min(In(x))]
<1>3. ASSUME NEW n \in N PROVE Min(In(n)) \in In(n) /\ \A k \in In(n) : Min(In(n)) <= k
  <2>1. IsFiniteSet(In(n))
    <3>1. IsFiniteSet(0..m) /\ In(n) \subseteq 0..m
      BY <1>1, FS_Interval
    <3> QED BY <3>1, FS_Subset
  <2>2. m \in In(n)
    BY <1>1, <1>2
  <2>3. In(n) \subseteq Int
    OBVIOUS
  <2> HIDE DEF In, m
  <2> QED BY <2>1, <2>2, <2>3, MinOfFinite
<1>4. rank \in [N -> 0..m]
  BY <1>3
<1>5. ASSUME NEW e \in E PROVE rank[e[1]] < rank[e[2]]
  <2>1. PICK p \in N, s \in N : p = e[1] /\ s = e[2] /\ p \in Preds(s, E)
    BY DEF Preds
  <2>2. PICK k \in 0..m : k = Min(In(s)) /\ s \in g[k]
    BY <1>3
  <2>3. g[k] = Level(g, k, N, E)
    BY <1>2, <2>2 DEF IsLevels
  <2>4. k # 0 /\ p \in g[k - 1]
    BY <2>1, <2>2, <2>3 DEF Level, Emptied
  <2>5. k - 1 \in 0..m
    BY <1>1, <2>4
  <2>6. Min(In(p)) \in 0..m /\ Min(In(p)) <= k - 1
    BY <1>3, <2>4, <2>5
  <2>7. rank[p] = Min(In(p)) /\ rank[s] = k
    BY <2>2
  <2> HIDE DEF In, rank
  <2> QED BY <2>1, <2>6, <2>7
<1> HIDE DEF rank
<1> QED BY <1>1, <1>4, <1>5 DEF IsRank

-----------------------------------------------------------------------------
(* The forward pass.                                                       *)

AreInts(f, S) == \A x \in S : f[x] \in Int

\* One step of the recursive definition of the earliest finish.
EfStep(f, n, dur, gap) == dur[n] + Max({0} \cup {f[p] + gap[<<p, n>>] : p \in Preds(n, DOMAIN gap)})

LEMMA EfStepValue ==
    ASSUME NEW N, NEW E, NEW dur, NEW gap, Network(N, E, dur, gap), NEW n \in N,
           NEW f, AreInts(f, Preds(n, E))
    PROVE  /\ EfStep(f, n, dur, gap) \in Int
           /\ EfStep(f, n, dur, gap) >= dur[n]
           /\ \A p \in Preds(n, E) : EfStep(f, n, dur, gap) >= f[p] + gap[<<p, n>>] + dur[n]
           /\ \/ EfStep(f, n, dur, gap) = dur[n]
              \/ \E p \in Preds(n, E) : EfStep(f, n, dur, gap) = f[p] + gap[<<p, n>>] + dur[n]
<1> DEFINE P == Preds(n, E)
           h == [p \in P |-> f[p] + gap[<<p, n>>]]
           H == {h[p] : p \in P}
           S == {0} \cup H
<1>0. IsFiniteSet(N) /\ E \in SUBSET (N \X N) /\ dur \in [N -> Int] /\ gap \in [E -> Int]
  BY DEF Network
<1>1. DOMAIN gap = E
  BY <1>0
<1>2. \A p \in P : <<p, n>> \in E /\ p \in N
  BY <1>0, EdgeEnds
<1>3. IsFiniteSet(P) /\ IsFiniteSet(H)
  <2>1. IsFiniteSet(P)
    BY <1>0, <1>2, EdgeEnds, FS_Subset
  <2> HIDE DEF h, P
  <2> QED BY <2>1, ImageIsFinite
<1>4. IsFiniteSet(S)
  <2> HIDE DEF H
  <2> QED BY <1>3, FS_Singleton, FS_Union
<1>5. \A p \in P : h[p] = f[p] + gap[<<p, n>>] /\ h[p] \in Int /\ h[p] \in S /\ gap[<<p, n>>] \in Int
  <2>1. \A p \in P : f[p] \in Int /\ gap[<<p, n>>] \in Int
    BY <1>0, <1>2 DEF AreInts
  <2> HIDE DEF P
  <2> QED BY <2>1
<1>6. S # {} /\ S \subseteq Int /\ 0 \in S
  <2>1. \A p \in P : h[p] \in Int
    BY <1>5
  <2> HIDE DEF P, h
  <2>2. S \subseteq Int
    BY <2>1
  <2> QED BY <2>2
<1>7. EfStep(f, n, dur, gap) = dur[n] + Max(S)
  BY <1>1 DEF EfStep
<1>8. Max(S) \in S /\ \A x \in S : x <= Max(S)
  <2> HIDE DEF S
  <2> QED BY <1>4, <1>6, MaxOfFinite
<1>9. Max(S) \in Int /\ Max(S) >= 0 /\ dur[n] \in Int
  BY <1>0, <1>6, <1>8
<1>10. Max(S) = 0 \/ \E p \in P : Max(S) = h[p]
  BY <1>8
<1> HIDE DEF S, h, P
<1>11. \A p \in P : dur[n] + Max(S) >= f[p] + gap[<<p, n>>] + dur[n]
  BY <1>5, <1>8, <1>9
<1>12. dur[n] + Max(S) = dur[n] \/ \E p \in P : dur[n] + Max(S) = f[p] + gap[<<p, n>>] + dur[n]
  BY <1>5, <1>9, <1>10
<1> QED BY <1>7, <1>9, <1>11, <1>12 DEF P

\* The step looks at predecessors only.
LEMMA EfStepSame ==
    ASSUME NEW N, NEW E \in SUBSET (N \X N), NEW dur, NEW gap \in [E -> Int], NEW n \in N,
           NEW f, NEW h, \A p \in Preds(n, E) : f[p] = h[p]
    PROVE  EfStep(f, n, dur, gap) = EfStep(h, n, dur, gap)
<1>1. DOMAIN gap = E
  OBVIOUS
<1>2. {f[p] + gap[<<p, n>>] : p \in Preds(n, E)} = {h[p] + gap[<<p, n>>] : p \in Preds(n, E)}
  OBVIOUS
<1> QED BY <1>1, <1>2 DEF EfStep

\* On a sorted network the recursion has a value, a day from the start on.
LEMMA EarliestFinishExists ==
    ASSUME NEW N, NEW E, NEW dur, NEW gap, Network(N, E, dur, gap),
           NEW m \in Nat, NEW rank, IsRank(rank, m, N, E)
    PROVE  /\ EarliestFinish(N, dur, gap) \in [N -> Int]
           /\ \A n \in N : EarliestFinish(N, dur, gap)[n] = EfStep(EarliestFinish(N, dur, gap), n, dur, gap)
<1> DEFINE T == [f \in [N -> Int] |-> [n \in N |-> EfStep(f, n, dur, gap)]]
<1>0. IsFiniteSet(N) /\ E \in SUBSET (N \X N) /\ dur \in [N -> Int] /\ gap \in [E -> Int]
  BY DEF Network
<1>1. rank \in [N -> Nat] /\ \A n \in N : \A p \in Preds(n, E) : p \in N /\ rank[p] < rank[n]
  <2>1. rank \in [N -> Nat]
    BY DEF IsRank
  <2>2. ASSUME NEW n \in N, NEW p \in Preds(n, E) PROVE p \in N /\ rank[p] < rank[n]
    <3>1. <<p, n>> \in E /\ p \in N
      BY <1>0, EdgeEnds
    <3> QED BY <3>1 DEF IsRank
  <2> QED BY <2>1, <2>2
<1>2. ASSUME NEW f \in [N -> Int], NEW n \in N PROVE EfStep(f, n, dur, gap) \in Int
  BY <1>1, EfStepValue DEF AreInts
<1>3. T \in [[N -> Int] -> [N -> Int]]
  BY <1>2
<1>4. ASSUME NEW f \in [N -> Int], NEW h \in [N -> Int], NEW n \in N,
             \A p \in N : rank[p] < rank[n] => f[p] = h[p]
      PROVE  T[f][n] = T[h][n]
  <2>1. EfStep(f, n, dur, gap) = EfStep(h, n, dur, gap)
    BY <1>0, <1>1, <1>4, EfStepSame
  <2> QED BY <2>1
<1>5. \E f \in [N -> Int] : f = T[f]
  <2> HIDE DEF T
  <2>1. 0 \in Int
    OBVIOUS
  <2>2. \A f, h \in [N -> Int], n \in N :
           (\A p \in N : rank[p] < rank[n] => f[p] = h[p]) => T[f][n] = T[h][n]
    BY <1>4
  <2>3. rank \in [N -> Nat] /\ LooksDown(T, rank, N)
    BY <1>1, <1>3, <2>2 DEF LooksDown
  <2> QED BY <2>3, RankRecursion
<1>6. \E f : f = [n \in N |-> EfStep(f, n, dur, gap)]
  BY <1>5
<1> DEFINE ef == CHOOSE f : f = [n \in N |-> EfStep(f, n, dur, gap)]
<1>7. ef = [n \in N |-> EfStep(ef, n, dur, gap)]
  BY <1>6
<1>8. EarliestFinish(N, dur, gap) = ef
  BY DEF EarliestFinish, EfStep
<1> HIDE DEF ef
<1>9. N \subseteq {n \in N : ef[n] \in Int}
  <2> DEFINE S == {n \in N : ef[n] \in Int}
  <2>1. ASSUME NEW n \in N, \A p \in N : rank[p] < rank[n] => p \in S PROVE n \in S
    <3>1. \A p \in Preds(n, E) : ef[p] \in Int
      BY <1>1, <2>1
    <3>2. EfStep(ef, n, dur, gap) \in Int
      BY <3>1, EfStepValue DEF AreInts
    <3>3. ef[n] = EfStep(ef, n, dur, gap)
      BY <1>7
    <3> QED BY <3>2, <3>3
  <2> HIDE DEF S
  <2>2. N \subseteq S
    BY <1>1, <2>1, RankInduction
  <2> QED BY <2>2 DEF S
<1>10. ef \in [N -> Int] /\ \A n \in N : ef[n] = EfStep(ef, n, dur, gap)
  <2>1. \A n \in N : ef[n] = EfStep(ef, n, dur, gap)
    BY <1>7
  <2>2. ef = [n \in N |-> ef[n]]
    BY <1>7
  <2> QED BY <1>9, <2>1, <2>2
<1> QED BY <1>8, <1>10

\* The finish of a network is the earliest finish of one of its activities.
LEMMA FinishIsLast ==
    ASSUME NEW N, IsFiniteSet(N), N # {}, NEW ef \in [N -> Int]
    PROVE  /\ Max({ef[n] : n \in N}) \in {ef[n] : n \in N}
           /\ Max({ef[n] : n \in N}) \in Int
           /\ \A m \in N : ef[m] <= Max({ef[n] : n \in N})

<1> DEFINE S == {ef[n] : n \in N}
<1>1. IsFiniteSet(S)
  BY ImageIsFinite
<1>2. S # {} /\ S \subseteq Int
  OBVIOUS
<1>3. Max(S) \in S /\ \A x \in S : x <= Max(S)
  <2> HIDE DEF S
  <2> QED BY <1>1, <1>2, MaxOfFinite
<1> QED BY <1>2, <1>3

-----------------------------------------------------------------------------
(* The backward pass.                                                      *)

\* One step of the recursive definition of the latest start.
LsStep(f, n, finish, dur, gap) ==
    LET S == Succs(n, DOMAIN gap)
    IN (IF S = {} THEN finish ELSE Min({f[s] - gap[<<n, s>>] : s \in S})) - dur[n]

LEMMA LsStepValue ==
    ASSUME NEW N, NEW E, NEW dur, NEW gap, Network(N, E, dur, gap), NEW n \in N,
           NEW finish \in Int, NEW f, AreInts(f, Succs(n, E))
    PROVE  /\ LsStep(f, n, finish, dur, gap) \in Int
           /\ Succs(n, E) = {} => LsStep(f, n, finish, dur, gap) = finish - dur[n]
           /\ \A s \in Succs(n, E) : LsStep(f, n, finish, dur, gap) <= f[s] - gap[<<n, s>>] - dur[n]
           /\ Succs(n, E) # {} => \E s \in Succs(n, E) :
                 LsStep(f, n, finish, dur, gap) = f[s] - gap[<<n, s>>] - dur[n]
<1> DEFINE S == Succs(n, E)
           h == [s \in S |-> f[s] - gap[<<n, s>>]]
           H == {h[s] : s \in S}
<1>0. IsFiniteSet(N) /\ E \in SUBSET (N \X N) /\ dur \in [N -> Int] /\ gap \in [E -> Int]
  BY DEF Network
<1>1. DOMAIN gap = E /\ dur[n] \in Int
  BY <1>0
<1>2. \A s \in S : <<n, s>> \in E /\ s \in N
  BY <1>0, EdgeEnds
<1>3. IsFiniteSet(H)
  <2>1. IsFiniteSet(S)
    BY <1>0, <1>2, EdgeEnds, FS_Subset
  <2> HIDE DEF h, S
  <2> QED BY <2>1, ImageIsFinite
<1>4. \A s \in S : h[s] = f[s] - gap[<<n, s>>] /\ h[s] \in Int
  <2>1. \A s \in S : f[s] \in Int /\ gap[<<n, s>>] \in Int
    BY <1>0, <1>2 DEF AreInts
  <2> HIDE DEF S
  <2> QED BY <2>1
<1>5. LsStep(f, n, finish, dur, gap) = (IF S = {} THEN finish ELSE Min(H)) - dur[n]
  <2>1. H = {f[s] - gap[<<n, s>>] : s \in S}
    OBVIOUS
  <2> HIDE DEF H, h
  <2> QED BY <1>1, <2>1 DEF LsStep
<1> HIDE DEF S
<1>6. CASE S = {}
  BY <1>1, <1>5, <1>6 DEF S
<1>7. CASE S # {}
  <2>1. H # {} /\ H \subseteq Int
    <3> HIDE DEF h
    <3> QED BY <1>4, <1>7
  <2>2. \A s \in S : h[s] \in H
    OBVIOUS
  <2>3. Min(H) \in H /\ \A x \in H : Min(H) <= x
    <3> HIDE DEF H
    <3> QED BY <1>3, <2>1, MinOfFinite
  <2>4. PICK u \in S : Min(H) = h[u]
    BY <2>3
  <2> HIDE DEF H, h
  <2>5. LsStep(f, n, finish, dur, gap) = h[u] - dur[n]
    BY <1>5, <1>7, <2>4
  <2>6. \A s \in S : h[u] <= h[s]
    BY <2>2, <2>3, <2>4
  <2>7. h[u] = f[u] - gap[<<n, u>>] /\ h[u] \in Int
    BY <1>4
  <2>8. ASSUME NEW s \in S
        PROVE  LsStep(f, n, finish, dur, gap) <= f[s] - gap[<<n, s>>] - dur[n]
    <3>1. h[s] = f[s] - gap[<<n, s>>] /\ h[s] \in Int /\ h[u] <= h[s]
      BY <1>4, <2>6
    <3> QED BY <1>1, <2>5, <2>7, <3>1
  <2>9. LsStep(f, n, finish, dur, gap) \in Int
    BY <1>1, <2>5, <2>7
  <2>10. LsStep(f, n, finish, dur, gap) = f[u] - gap[<<n, u>>] - dur[n]
    BY <2>5, <2>7
  <2> QED BY <1>7, <2>8, <2>9, <2>10 DEF S
<1> QED BY <1>6, <1>7

LEMMA LsStepSame ==
    ASSUME NEW N, NEW E \in SUBSET (N \X N), NEW dur, NEW gap \in [E -> Int], NEW n \in N, NEW finish,
           NEW f, NEW h, \A s \in Succs(n, E) : f[s] = h[s]
    PROVE  LsStep(f, n, finish, dur, gap) = LsStep(h, n, finish, dur, gap)
<1>1. DOMAIN gap = E
  OBVIOUS
<1>2. {f[s] - gap[<<n, s>>] : s \in Succs(n, E)} = {h[s] - gap[<<n, s>>] : s \in Succs(n, E)}
  OBVIOUS
<1> QED BY <1>1, <1>2 DEF LsStep

LEMMA LatestStartExists ==
    ASSUME NEW N, NEW E, NEW dur, NEW gap, Network(N, E, dur, gap),
           NEW finish \in Int, NEW m \in Nat, NEW rank, IsRank(rank, m, N, E)
    PROVE  /\ LatestStart(N, dur, gap, finish) \in [N -> Int]
           /\ \A n \in N : LatestStart(N, dur, gap, finish)[n] =
                              LsStep(LatestStart(N, dur, gap, finish), n, finish, dur, gap)
<1> DEFINE T    == [f \in [N -> Int] |-> [n \in N |-> LsStep(f, n, finish, dur, gap)]]
           back == [n \in N |-> m - rank[n]]
<1>0. IsFiniteSet(N) /\ E \in SUBSET (N \X N) /\ dur \in [N -> Int] /\ gap \in [E -> Int]
  BY DEF Network
<1>1. back \in [N -> Nat] /\ \A n \in N : \A s \in Succs(n, E) : s \in N /\ back[s] < back[n]
  <2>1. rank \in [N -> 0..m]
    BY DEF IsRank
  <2>2. back \in [N -> Nat]
    BY <2>1
  <2>3. ASSUME NEW n \in N, NEW s \in Succs(n, E) PROVE s \in N /\ back[s] < back[n]
    <3>1. <<n, s>> \in E /\ s \in N
      BY <1>0, EdgeEnds
    <3>2. rank[n] < rank[s]
      BY <3>1 DEF IsRank
    <3> QED BY <2>1, <3>1, <3>2
  <2> QED BY <2>2, <2>3
<1> HIDE DEF back
<1>2. ASSUME NEW f \in [N -> Int], NEW n \in N PROVE LsStep(f, n, finish, dur, gap) \in Int
  BY <1>1, LsStepValue DEF AreInts
<1>3. T \in [[N -> Int] -> [N -> Int]]
  BY <1>2
<1>4. ASSUME NEW f \in [N -> Int], NEW h \in [N -> Int], NEW n \in N,
             \A p \in N : back[p] < back[n] => f[p] = h[p]
      PROVE  T[f][n] = T[h][n]
  <2>1. LsStep(f, n, finish, dur, gap) = LsStep(h, n, finish, dur, gap)
    BY <1>0, <1>1, <1>4, LsStepSame
  <2> QED BY <2>1
<1>5. \E f \in [N -> Int] : f = T[f]
  <2> HIDE DEF T
  <2>1. \A f, h \in [N -> Int], n \in N :
           (\A p \in N : back[p] < back[n] => f[p] = h[p]) => T[f][n] = T[h][n]
    BY <1>4
  <2>2. LooksDown(T, back, N)
    BY <1>3, <2>1 DEF LooksDown
  <2> QED BY <1>1, <2>2, RankRecursion
<1>6. \E f : f = [n \in N |-> LsStep(f, n, finish, dur, gap)]
  BY <1>5
<1> DEFINE ls == CHOOSE f : f = [n \in N |-> LsStep(f, n, finish, dur, gap)]
<1>7. ls = [n \in N |-> LsStep(ls, n, finish, dur, gap)]
  BY <1>6
<1>8. LatestStart(N, dur, gap, finish) = ls
  BY DEF LatestStart, LsStep
<1> HIDE DEF ls
<1>9. N \subseteq {n \in N : ls[n] \in Int}
  <2> DEFINE S == {n \in N : ls[n] \in Int}
  <2>1. ASSUME NEW n \in N, \A p \in N : back[p] < back[n] => p \in S PROVE n \in S
    <3>1. \A s \in Succs(n, E) : ls[s] \in Int
      BY <1>1, <2>1
    <3>2. LsStep(ls, n, finish, dur, gap) \in Int
      BY <3>1, LsStepValue DEF AreInts
    <3>3. ls[n] = LsStep(ls, n, finish, dur, gap)
      BY <1>7
    <3> QED BY <3>2, <3>3
  <2> HIDE DEF S
  <2>2. N \subseteq S
    BY <1>1, <2>1, RankInduction
  <2> QED BY <2>2 DEF S
<1>10. ls \in [N -> Int] /\ \A n \in N : ls[n] = LsStep(ls, n, finish, dur, gap)
  <2>1. \A n \in N : ls[n] = LsStep(ls, n, finish, dur, gap)
    BY <1>7
  <2>2. ls = [n \in N |-> ls[n]]
    BY <1>7
  <2> QED BY <1>9, <2>1, <2>2
<1> QED BY <1>8, <1>10

NonNegative(S, f) == \A x \in S : f[x] >= 0

\* Without leads and negative durations no activity may end after the finish.
LEMMA LatestEndsInTime ==
    ASSUME NEW N, IsFiniteSet(N), NEW E \in SUBSET (N \X N), NEW dur \in [N -> Int], NEW gap \in [E -> Nat],
           NEW finish \in Int, NEW m \in Nat, NEW rank, IsRank(rank, m, N, E), NEW ls \in [N -> Int],
           \A n \in N : ls[n] = LsStep(ls, n, finish, dur, gap), NonNegative(N, dur)
    PROVE  \A n \in N : ls[n] + dur[n] <= finish
<1> DEFINE back == [n \in N |-> m - rank[n]]
           S    == {n \in N : ls[n] + dur[n] <= finish}
<1>0. Network(N, E, dur, gap)
  BY DEF Network
<1>1. back \in [N -> Nat]
  BY DEF IsRank
<1>2. ASSUME NEW n \in N, \A p \in N : back[p] < back[n] => p \in S PROVE n \in S
  <2>1. \A s \in Succs(n, E) : <<n, s>> \in E /\ s \in N
    BY EdgeEnds
  <2>2. gap \in [E -> Int] /\ \A s \in Succs(n, E) : ls[s] \in Int
    <3>1. \A e \in E : gap[e] \in Int
      OBVIOUS
    <3>2. gap \in [E -> Int]
      BY <3>1
    <3> QED BY <2>1, <3>2
  <2>3. /\ Succs(n, E) = {} => ls[n] = finish - dur[n]
        /\ \A s \in Succs(n, E) : ls[n] <= ls[s] - gap[<<n, s>>] - dur[n]
    BY <1>0, <2>2, LsStepValue DEF AreInts
  <2>4. ASSUME NEW s \in Succs(n, E) PROVE ls[n] + dur[n] <= finish
    <3>1. back[s] < back[n]
      <4>1. rank[n] < rank[s] /\ rank[n] \in Int /\ rank[s] \in Int
        <5> HIDE DEF back, S
        <5>1. <<n, s>> \in E /\ s \in N /\ n \in N /\ <<n, s>>[1] = n /\ <<n, s>>[2] = s
          BY <2>1
        <5>2. rank \in [N -> 0..m] /\ \A e \in E : rank[e[1]] < rank[e[2]]
          BY DEF IsRank
        <5> QED BY <5>1, <5>2
      <4>2. back[s] = m - rank[s] /\ back[n] = m - rank[n]
        BY <2>1
      <4> QED BY <4>1, <4>2
    <3>2. ls[s] + dur[s] <= finish
      BY <1>2, <2>1, <3>1
    <3>3. gap[<<n, s>>] \in Nat /\ dur[s] \in Int /\ ls[s] \in Int /\ ls[n] \in Int /\ dur[n] \in Int
      BY <2>1
    <3>4. dur[s] >= 0
      BY <2>1 DEF NonNegative
    <3> QED BY <2>3, <3>2, <3>3, <3>4
  <2>5. Succs(n, E) = {} => ls[n] + dur[n] <= finish
    BY <2>3
  <2> QED BY <2>4, <2>5
<1> HIDE DEF back, S
<1>3. N \subseteq S
  BY <1>1, <1>2, RankInduction
<1> QED BY <1>3 DEF S

-----------------------------------------------------------------------------
(* Paths.                                                                  *)

IsPath(p, k, N, E) ==
    /\ k \in Nat \ {0} /\ p \in [1..k -> N]
    /\ \A i \in 1..(k - 1) : <<p[i], p[i + 1]>> \in E
    /\ \A i, j \in 1..k : p[i] = p[j] => i = j

LEMMA PathSize ==
    ASSUME NEW N, NEW E, NEW k, NEW p, IsPath(p, k, N, E)
    PROVE  DOMAIN p = 1..k /\ Cardinality(DOMAIN p) = k /\ k \in Nat /\ k >= 1
<1>1. DOMAIN p = 1..k /\ k \in Nat /\ k >= 1
  BY DEF IsPath
<1>2. Cardinality(1..k) = k
  BY <1>1, FS_Interval
<1> QED BY <1>1, <1>2

LEMMA PathsArePaths ==
    ASSUME NEW N, IsFiniteSet(N), NEW E, NEW p
    PROVE  p \in Paths(N, E) <=> \E k \in Nat : IsPath(p, k, N, E)
<1>0. Cardinality(N) \in Nat
  BY FS_CardinalityType
<1>1. ASSUME p \in Paths(N, E) PROVE \E k \in Nat : IsPath(p, k, N, E)
  <2>1. PICK k \in 1..Cardinality(N) : p \in [1..k -> N]
    BY <1>1 DEF Paths
  <2>2. k \in Nat \ {0} /\ DOMAIN p = 1..k
    BY <1>0, <2>1
  <2>3. Cardinality(DOMAIN p) = k
    BY <2>2, FS_Interval
  <2>4. IsPath(p, k, N, E)
    BY <1>1, <2>1, <2>2, <2>3 DEF Paths, IsPath
  <2> QED BY <2>2, <2>4
<1>2. ASSUME NEW k \in Nat, IsPath(p, k, N, E) PROVE p \in Paths(N, E)
  <2>1. DOMAIN p = 1..k /\ Cardinality(DOMAIN p) = k /\ k >= 1
    BY <1>2, PathSize
  <2>2. p \in Injection(1..k, N)
    BY <1>2 DEF IsPath, Injection, IsInjective
  <2>3. k <= Cardinality(N)
    BY <2>1, <2>2, FS_Injection
  <2>4. k \in 1..Cardinality(N) /\ p \in [1..k -> N]
    BY <1>0, <1>2, <2>1, <2>3 DEF IsPath
  <2> QED BY <1>2, <2>1, <2>4 DEF Paths, IsPath
<1> QED BY <1>1, <1>2

Extend(p, k, c) == [i \in 1..(k + 1) |-> IF i <= k THEN p[i] ELSE c]

LEMMA PathExtends ==
    ASSUME NEW N, NEW E \in SUBSET (N \X N), NEW k, NEW p, IsPath(p, k, N, E), NEW c,
           <<p[k], c>> \in E, \A i \in 1..k : p[i] # c
    PROVE  /\ IsPath(Extend(p, k, c), k + 1, N, E)
           /\ \A i \in 1..k : Extend(p, k, c)[i] = p[i]
           /\ Extend(p, k, c)[k + 1] = c
<1> DEFINE q == Extend(p, k, c)
<1>1. k \in Nat /\ k >= 1 /\ k + 1 \in Nat \ {0} /\ p \in [1..k -> N] /\ c \in N
  BY DEF IsPath
<1>2. \A i \in 1..k : i \in 1..(k + 1) /\ q[i] = p[i]
  BY <1>1 DEF Extend
<1>3. k + 1 \in 1..(k + 1) /\ q[k + 1] = c
  BY <1>1 DEF Extend
<1>4. \A i \in 1..(k + 1) : i \in 1..k \/ i = k + 1
  BY <1>1
<1>5. q \in [1..(k + 1) -> N]
  BY <1>1 DEF Extend
<1> HIDE DEF q
<1>6. ASSUME NEW i \in 1..((k + 1) - 1) PROVE <<q[i], q[i + 1]>> \in E
  <2>1. CASE i = k
    <3>1. q[i] = p[k] /\ q[i + 1] = c
      BY <1>1, <1>2, <1>3, <2>1
    <3> QED BY <3>1
  <2>2. CASE i # k
    <3>1. i \in 1..(k - 1) /\ i \in 1..k /\ i + 1 \in 1..k
      BY <1>1, <2>2
    <3>2. q[i] = p[i] /\ q[i + 1] = p[i + 1]
      BY <1>2, <3>1
    <3> QED BY <3>1, <3>2 DEF IsPath
  <2> QED BY <2>1, <2>2
<1>7. ASSUME NEW i \in 1..(k + 1), NEW j \in 1..(k + 1), q[i] = q[j] PROVE i = j
  <2>1. CASE i \in 1..k /\ j \in 1..k
    BY <1>2, <1>7, <2>1 DEF IsPath
  <2>2. CASE i = k + 1 \/ j = k + 1
    BY <1>2, <1>3, <1>4, <1>7, <2>2
  <2> QED BY <1>4, <2>1, <2>2
<1>8. IsPath(q, k + 1, N, E)
  BY <1>1, <1>5, <1>6, <1>7 DEF IsPath
<1> QED BY <1>2, <1>3, <1>8 DEF q

LEMMA PathPrefix ==
    ASSUME NEW N, NEW E, NEW k, NEW p, IsPath(p, k, N, E), NEW j \in 1..k
    PROVE  IsPath([i \in 1..j |-> p[i]], j, N, E)
<1> DEFINE q == [i \in 1..j |-> p[i]]
<1>1. k \in Nat /\ j \in Nat \ {0} /\ j <= k /\ p \in [1..k -> N]
  BY DEF IsPath
<1>2. \A i \in 1..j : i \in 1..k /\ q[i] = p[i]
  BY <1>1
<1>3. q \in [1..j -> N]
  BY <1>1, <1>2
<1>4. \A i \in 1..(j - 1) : i \in 1..(k - 1) /\ i \in 1..j /\ i + 1 \in 1..j
  BY <1>1
<1> HIDE DEF q
<1>5. \A i \in 1..(j - 1) : <<q[i], q[i + 1]>> \in E
  BY <1>2, <1>4 DEF IsPath
<1>6. \A i, l \in 1..j : q[i] = q[l] => i = l
  BY <1>2 DEF IsPath
<1>7. IsPath(q, j, N, E)
  BY <1>1, <1>3, <1>5, <1>6 DEF IsPath
<1> QED BY <1>7 DEF q

-----------------------------------------------------------------------------
(* Cycles.                                                                 *)

\* Ranks go upwards along a path.
LEMMA RankAlongPath ==
    ASSUME NEW N, NEW E \in SUBSET (N \X N), NEW m \in Nat, NEW rank, IsRank(rank, m, N, E),
           NEW k, NEW p, IsPath(p, k, N, E)
    PROVE  \A i \in 1..k : \A j \in 1..i : rank[p[j]] <= rank[p[i]]
<1> DEFINE I    == 1..k
           S    == {i \in I : \A j \in 1..i : rank[p[j]] <= rank[p[i]]}
           same == [i \in I |-> i]
<1>1. k \in Nat /\ k >= 1 /\ p \in [1..k -> N] /\ rank \in [N -> 0..m]
  BY DEF IsPath, IsRank
<1>2. same \in [I -> Nat]
  BY <1>1
<1>3. ASSUME NEW i \in I, \A j \in I : same[j] < same[i] => j \in S PROVE i \in S
  <2>0. \A j \in 1..i : j \in 1..k
    <3>1. k \in Nat /\ i \in Nat /\ i <= k
      BY <1>1
    <3>2. ASSUME NEW j \in 1..i PROVE j \in Nat /\ 1 <= j /\ j <= k
      BY <3>1
    <3> QED BY <3>1, <3>2
  <2>1. CASE i = 1
    <3>1. \A j \in 1..i : j = i
      BY <2>1
    <3> QED BY <1>1, <3>1
  <2>2. CASE i # 1
    <3>1. i - 1 \in 1..(k - 1) /\ i - 1 \in I /\ (i - 1) + 1 = i /\ i - 1 < i
      BY <1>1, <2>2
    <3>2. i - 1 \in S
      BY <1>3, <3>1
    <3>3. <<p[i - 1], p[i]>> \in E
      BY <3>1 DEF IsPath
    <3>4. rank[p[i - 1]] < rank[p[i]]
      BY <3>3 DEF IsRank
    <3>5. rank[p[i - 1]] \in Int /\ rank[p[i]] \in Int
      BY <1>1, <3>1
    <3>6. ASSUME NEW j \in 1..i PROVE rank[p[j]] <= rank[p[i]]
      <4>1. rank[p[j]] \in Int
        BY <1>1, <2>0
      <4>2. CASE j = i
        BY <3>5, <4>2
      <4>3. CASE j # i
        <5>1. j \in 1..(i - 1)
          BY <4>3, <3>1
        <5>2. rank[p[j]] <= rank[p[i - 1]]
          BY <3>2, <5>1
        <5> QED BY <3>4, <3>5, <4>1, <5>2
      <4> QED BY <4>2, <4>3
    <3> QED BY <3>6
  <2> QED BY <2>1, <2>2
<1>4. I \subseteq S
  <2> HIDE DEF S, same, I
  <2> QED BY <1>2, <1>3, RankInduction
<1> QED BY <1>4

\* A network that Kahn's algorithm sorts has no cycle.
LEMMA RankedHasNoCycle ==
    ASSUME NEW N, IsFiniteSet(N), NEW E \in SUBSET (N \X N), NEW m \in Nat, NEW rank, IsRank(rank, m, N, E)
    PROVE  ~HasCycle(N, E)
<1> SUFFICES ASSUME NEW p \in Paths(N, E), <<p[Cardinality(DOMAIN p)], p[1]>> \in E PROVE FALSE
  BY DEF HasCycle
<1>1. PICK k \in Nat : IsPath(p, k, N, E)
  BY PathsArePaths
<1>2. Cardinality(DOMAIN p) = k /\ 1 \in 1..k /\ k \in 1..k
  BY <1>1, PathSize
<1>3. rank[p[1]] <= rank[p[k]]
  BY <1>1, <1>2, RankAlongPath
<1>4. rank[p[k]] < rank[p[1]]
  BY <1>2 DEF IsRank
<1>5. rank[p[1]] \in Int /\ rank[p[k]] \in Int
  BY <1>1, <1>2 DEF IsRank, IsPath
<1> QED BY <1>3, <1>4, <1>5

\* One that it does not sort has one: an activity that descends from itself
\* is the end of a path that begins with a successor of it.
LEMMA UnsortedHasCycle ==
    ASSUME NEW N \in SUBSET Activities, IsFiniteSet(N), NEW E \in SUBSET (N \X N), Sorted(N, E) # N
    PROVE  HasCycle(N, E)
<1>1. PICK a \in Activities : a \in Descendants(a, E)
  BY SortedAcyclic DEF Acyclic
<1> DEFINE Ends(b) == \E k \in Nat : \E p : IsPath(p, k, N, E) /\ <<a, p[1]>> \in E /\ p[k] = b
           S == {b \in N : Ends(b)}
<1>2. ASSUME NEW e \in E, e[1] = a \/ e[1] \in S PROVE e[2] \in S
  <2> DEFINE b == e[1]
             c == e[2]
  <2>0. e = <<b, c>> /\ b \in N /\ c \in N
    OBVIOUS
  <2>1. CASE b = a
    <3> DEFINE p == [i \in 1..1 |-> c]
    <3>1. IsPath(p, 1, N, E)
      BY <2>0 DEF IsPath
    <3>2. p[1] = c
      OBVIOUS
    <3> HIDE DEF p
    <3> QED BY <2>0, <2>1, <3>1, <3>2
  <2>2. CASE b \in S
    <3>1. PICK k, p : k \in Nat /\ IsPath(p, k, N, E) /\ <<a, p[1]>> \in E /\ p[k] = b
      BY <2>2
    <3>2. k >= 1 /\ 1 \in 1..k
      BY <3>1, PathSize
    <3>3. CASE \E i \in 1..k : p[i] = c
      <4>1. PICK i \in 1..k : p[i] = c
        BY <3>3
      <4> DEFINE q == [j \in 1..i |-> p[j]]
      <4>2. IsPath(q, i, N, E)
        BY <3>1, PathPrefix
      <4>3. i \in Nat /\ 1 \in 1..i /\ i \in 1..i
        BY <3>2
      <4>4. q[1] = p[1] /\ q[i] = c
        BY <4>1, <4>3
      <4> HIDE DEF q
      <4> QED BY <2>0, <3>1, <4>2, <4>3, <4>4
    <3>4. CASE \A i \in 1..k : p[i] # c
      <4> DEFINE q == Extend(p, k, c)
      <4>1. IsPath(q, k + 1, N, E) /\ q[1] = p[1] /\ q[k + 1] = c
        BY <2>0, <3>1, <3>2, <3>4, PathExtends
      <4>2. k + 1 \in Nat
        BY <3>1
      <4> HIDE DEF q
      <4> QED BY <2>0, <3>1, <4>1, <4>2
    <3> QED BY <3>3, <3>4
  <2> QED BY <1>2, <2>1, <2>2
<1>3. Descendants(a, E) \subseteq S
  <2>1. S \in SUBSET Activities
    OBVIOUS
  <2>2. Closed(S, a, E)
    BY <1>2 DEF Closed
  <2> QED BY <2>1, <2>2, DescendantsLeast
<1>4. PICK k, p : k \in Nat /\ IsPath(p, k, N, E) /\ <<a, p[1]>> \in E /\ p[k] = a
  BY <1>1, <1>3
<1>5. p \in Paths(N, E) /\ Cardinality(DOMAIN p) = k
  BY <1>4, PathsArePaths, PathSize
<1> QED BY <1>4, <1>5 DEF HasCycle

-----------------------------------------------------------------------------
(* The length of a path.                                                   *)

\* What an activity of a path of k, and the wait after it, take.
Takes(p, k, dur, gap) == [i \in 1..k |-> dur[p[i]] + (IF i < k THEN gap[<<p[i], p[i + 1]>>] ELSE 0)]

Days(p, k, dur, gap) == SumFunctionOnSet(Takes(p, k, dur, gap), 1..k)

LEMMA LengthIsDays ==
    ASSUME NEW N, NEW E, NEW dur, NEW gap, NEW k, NEW p, IsPath(p, k, N, E)
    PROVE  Length(p, dur, gap) = Days(p, k, dur, gap)
<1> DEFINE f == Takes(p, k, dur, gap)
           last == Cardinality(DOMAIN p)
           S == 1..last
           op(i) == dur[p[i]] + (IF i < last THEN gap[<<p[i], p[i + 1]>>] ELSE 0)
           Is(h) == h = [s \in SUBSET S |->
                          IF s = {} THEN 0 ELSE op(CHOOSE x \in s : TRUE) + h[s \ {CHOOSE x \in s : TRUE}]]
           it == CHOOSE h : Is(h)
<1>1. last = k /\ k \in Nat
  BY PathSize
<1>3. Length(p, dur, gap) = it[S]
  BY DEF Length, MapThenSumSet, MapThenFoldSet
<1>2. IsFiniteSet(S) /\ S = 1..k
  BY <1>1, FS_Interval
<1>4. \A i \in S : f[i] = op(i)
  BY <1>1 DEF Takes
<1> HIDE DEF op, f, last
<1>5. ASSUME NEW h PROVE Is(h) <=> IsSum(f, h, S)
  <2>1. \A s \in SUBSET S : Step(f, h, s) =
           IF s = {} THEN 0 ELSE op(CHOOSE x \in s : TRUE) + h[s \ {CHOOSE x \in s : TRUE}]
    <3>1. \A s \in SUBSET S : s # {} => Pick(s) \in S
      BY DEF Pick
    <3> HIDE DEF S
    <3> QED BY <1>4, <3>1 DEF Step, Pick
  <2> HIDE DEF S
  <2> QED BY <2>1 DEF IsSum
<1> HIDE DEF S
<1>6. IsSum(f, it, S)
  <2>0. \E h : IsSum(f, h, S)
    BY <1>2, SumExists
  <2>1. \E h : Is(h)
    <3> HIDE DEF Is
    <3> QED BY <2>0, <1>5
  <2>2. Is(it)
    <3> HIDE DEF Is
    <3> QED BY <2>1
  <2> HIDE DEF it, Is
  <2> QED BY <2>2, <1>5
<1> HIDE DEF it
<1>7. PICK g : IsSum(f, g, S) /\ SumFunctionOnSet(f, S) = g[S]
  BY <1>2, SumIsSum
<1>8. it[S] = g[S]
  BY <1>2, <1>6, <1>7, SumIsUnique
<1>9. Days(p, k, dur, gap) = SumFunctionOnSet(f, S)
  BY <1>2 DEF Days, f
<1> QED BY <1>3, <1>7, <1>8, <1>9

\* The numbers of a path.
LEMMA PathFacts ==
    ASSUME NEW N, NEW E, NEW dur, NEW gap, Network(N, E, dur, gap), NEW k, NEW p, IsPath(p, k, N, E)
    PROVE  /\ \A i \in 1..k : p[i] \in N /\ dur[p[i]] \in Int
           /\ \A i \in 1..(k - 1) : /\ i \in 1..k /\ i + 1 \in 1..k
                                    /\ <<p[i], p[i + 1]>> \in E /\ gap[<<p[i], p[i + 1]>>] \in Int
<1>1. k \in Nat /\ k >= 1 /\ p \in [1..k -> N]
  BY DEF IsPath
<1>2. \A i \in 1..k : p[i] \in N /\ dur[p[i]] \in Int
  BY <1>1 DEF Network
<1>3. \A i \in 1..(k - 1) : i \in 1..k /\ i + 1 \in 1..k
  BY <1>1
<1>4. \A i \in 1..(k - 1) : <<p[i], p[i + 1]>> \in E
  BY DEF IsPath
<1>5. \A e \in E : gap[e] \in Int
  BY DEF Network
<1> QED BY <1>2, <1>3, <1>4, <1>5

\* Its length, one activity at a time.
LEMMA DaysOfFirst ==
    ASSUME NEW N, NEW E, NEW dur, NEW gap, Network(N, E, dur, gap), NEW k, NEW p, IsPath(p, k, N, E)
    PROVE  Days(p, 1, dur, gap) = dur[p[1]]
<1> DEFINE f == Takes(p, 1, dur, gap)
           S == {1}
<1>1. 1 \in 1..k /\ dur[p[1]] \in Int
  <2>1. 1 \in 1..k
    BY PathSize
  <2>2. \A i \in 1..k : dur[p[i]] \in Int
    BY PathFacts
  <2> QED BY <2>1, <2>2
<1>2. 1..1 = S
  OBVIOUS
<1>3. f[1] = dur[p[1]]
  <2>1. 1 \in 1..1 /\ ~(1 < 1)
    OBVIOUS
  <2>2. f[1] = dur[p[1]] + 0
    BY <2>1 DEF Takes
  <2> QED BY <1>1, <2>2
<1> HIDE DEF f
<1>4. SumFunctionOnSet(f, S) = SumFunctionOnSet(f, S \ {1}) + f[1]
  <2>1. \A x \in S : f[x] \in Int
    BY <1>1, <1>3
  <2>2. IsFiniteSet(S) /\ 1 \in S
    BY FS_Singleton
  <2> HIDE DEF S
  <2> QED BY <2>1, <2>2, SumOfMore
<1>5. S \ {1} = {}
  OBVIOUS
<1>6. SumFunctionOnSet(f, S \ {1}) = 0
  BY <1>5, SumOfEmpty
<1> QED BY <1>1, <1>2, <1>3, <1>4, <1>6 DEF Days, f

\* The summand of u is another, and that of v comes in.
Grows(f, g, S, u, v) ==
    /\ IsFiniteSet(S) /\ u \in S /\ v \notin S /\ g[v] \in Int
    /\ \A x \in S : f[x] \in Int /\ g[x] \in Int
    /\ \A x \in S \ {u} : g[x] = f[x]

LEMMA SumGrows ==
    ASSUME NEW S, NEW u, NEW v, NEW f, NEW g, Grows(f, g, S, u, v)
    PROVE  /\ SumFunctionOnSet(f, S) \in Int
           /\ SumFunctionOnSet(g, S \cup {v}) = SumFunctionOnSet(f, S) + g[u] - f[u] + g[v]
<1>0. /\ IsFiniteSet(S) /\ u \in S
      /\ \A x \in S : f[x] \in Int /\ g[x] \in Int
      /\ \A x \in S \ {u} : g[x] = f[x]
  BY DEF Grows
<1>1. SumFunctionOnSet(g, S) = SumFunctionOnSet(f, S) + g[u] - f[u]
  BY <1>0, SumOfChanged
<1> DEFINE T == S \cup {v}
<1> USE DEF Grows
<1>2. SumFunctionOnSet(f, S) \in Int
  BY SumOfMore
<1>3. IsFiniteSet(T) /\ v \in T /\ T \ {v} = S /\ \A x \in T : g[x] \in Int
  <2>1. IsFiniteSet(T)
    BY FS_AddElement
  <2>2. v \in T /\ T \ {v} = S
    OBVIOUS
  <2>3. \A x \in T : g[x] \in Int
    OBVIOUS
  <2> HIDE DEF T
  <2> QED BY <2>1, <2>2, <2>3
<1>4. SumFunctionOnSet(g, T) = SumFunctionOnSet(g, T \ {v}) + g[v]
  <2> HIDE DEF T
  <2> QED BY <1>3, SumOfMore
<1> QED BY <1>1, <1>2, <1>3, <1>4

LEMMA DaysOfNext ==
    ASSUME NEW N, NEW E, NEW dur, NEW gap, Network(N, E, dur, gap), NEW k, NEW p, IsPath(p, k, N, E)
    PROVE  \A j \in 1..(k - 1) :
              /\ Days(p, j, dur, gap) \in Int
              /\ Days(p, j + 1, dur, gap) = Days(p, j, dur, gap) + gap[<<p[j], p[j + 1]>>] + dur[p[j + 1]]
<1> SUFFICES ASSUME NEW j \in 1..(k - 1)
             PROVE  /\ Days(p, j, dur, gap) \in Int
                    /\ Days(p, j + 1, dur, gap) = Days(p, j, dur, gap) + gap[<<p[j], p[j + 1]>>] + dur[p[j + 1]]
  OBVIOUS
<1> DEFINE f == Takes(p, j, dur, gap)
           g == Takes(p, j + 1, dur, gap)
           S == 1..j
           v == j + 1
<1>0. k \in Nat /\ j \in Nat /\ j >= 1
  BY PathSize
<1>1. /\ \A i \in S : p[i] \in N /\ dur[p[i]] \in Int /\ gap[<<p[i], p[i + 1]>>] \in Int
      /\ dur[p[v]] \in Int
  <2>1. v \in 1..k /\ \A i \in S : i \in 1..k /\ i \in 1..(k - 1)
    BY <1>0
  <2> HIDE DEF S, v
  <2>2. \A i \in 1..k : p[i] \in N /\ dur[p[i]] \in Int
    BY PathFacts
  <2>3. \A i \in 1..(k - 1) : gap[<<p[i], p[i + 1]>>] \in Int
    BY PathFacts
  <2> QED BY <2>1, <2>2, <2>3
<1>2. S \cup {v} = 1..(j + 1) /\ j \in S /\ v \notin S
  BY <1>0
<1>3. IsFiniteSet(S)
  BY <1>0, FS_Interval
<1>4. g[v] = dur[p[v]] /\ g[v] \in Int
  BY <1>0, <1>1 DEF Takes
<1>5. \A i \in S : g[i] = dur[p[i]] + gap[<<p[i], p[i + 1]>>] /\ g[i] \in Int
  BY <1>0, <1>1 DEF Takes
<1>6. \A i \in S : f[i] \in Int
  BY <1>0, <1>1 DEF Takes
<1>7. \A i \in S \ {j} : g[i] = f[i]
  BY <1>0, <1>5 DEF Takes
<1>8. f[j] = dur[p[j]]
  BY <1>0, <1>1, <1>2 DEF Takes
<1>9. Days(p, j, dur, gap) = SumFunctionOnSet(f, S) /\ Days(p, j + 1, dur, gap) = SumFunctionOnSet(g, S \cup {v})
  BY <1>2 DEF Days
<1> HIDE DEF f, g, S, v
<1>11. /\ SumFunctionOnSet(f, S) \in Int
       /\ SumFunctionOnSet(g, S \cup {v}) = SumFunctionOnSet(f, S) + g[j] - f[j] + g[v]
  <2>1. Grows(f, g, S, j, v)
    BY <1>2, <1>3, <1>4, <1>5, <1>6, <1>7 DEF Grows
  <2> QED BY <2>1, SumGrows
<1>12. /\ g[j] = f[j] + gap[<<p[j], p[j + 1]>>] /\ f[j] \in Int
       /\ gap[<<p[j], p[j + 1]>>] \in Int /\ g[v] = dur[p[j + 1]] /\ dur[p[j + 1]] \in Int
  BY <1>1, <1>2, <1>4, <1>5, <1>6, <1>8 DEF v
<1> QED BY <1>9, <1>11, <1>12

\* A longer path begins with the days of the shorter one.
LEMMA DaysOfExtension ==
    ASSUME NEW N, NEW E, NEW dur, NEW gap, Network(N, E, dur, gap), NEW k, NEW p, IsPath(p, k, N, E), NEW c
    PROVE  Days(Extend(p, k, c), k, dur, gap) = Days(p, k, dur, gap)
<1> DEFINE q == Extend(p, k, c)
           f == Takes(p, k, dur, gap)
           g == Takes(q, k, dur, gap)
           S == 1..k
<1>1. k \in Nat /\ IsFiniteSet(S)
  BY PathSize, FS_Interval
<1>2. \A i \in S : q[i] = p[i]
  BY <1>1 DEF Extend
<1>3. \A i \in S : i < k => i + 1 \in S
  BY <1>1
<1> HIDE DEF q
<1>4. \A i \in S : f[i] = g[i]
  BY <1>2, <1>3 DEF Takes
<1> HIDE DEF f, g
<1>5. SumFunctionOnSet(f, S) = SumFunctionOnSet(g, S)
  BY <1>1, <1>4, SumOfSame
<1> QED BY <1>5 DEF Days, f, g, q

-----------------------------------------------------------------------------
(* The longest path.                                                       *)

IsForward(ef, N, dur, gap) == ef \in [N -> Int] /\ \A n \in N : ef[n] = EfStep(ef, n, dur, gap)

IsBackward(ls, N, finish, dur, gap) ==
    finish \in Int /\ ls \in [N -> Int] /\ \A n \in N : ls[n] = LsStep(ls, n, finish, dur, gap)

LEMMA ForwardStep ==
    ASSUME NEW N, NEW E, NEW dur, NEW gap, Network(N, E, dur, gap),
           NEW ef, IsForward(ef, N, dur, gap), NEW n \in N
    PROVE  /\ ef[n] \in Int /\ ef[n] >= dur[n]
           /\ \A q \in Preds(n, E) : /\ <<q, n>> \in E /\ q \in N /\ ef[q] \in Int
                                     /\ ef[n] >= ef[q] + gap[<<q, n>>] + dur[n]
           /\ \/ ef[n] = dur[n]
              \/ \E q \in Preds(n, E) : ef[n] = ef[q] + gap[<<q, n>>] + dur[n]
<1>0. /\ IsFiniteSet(N) /\ E \in SUBSET (N \X N) /\ dur \in [N -> Int] /\ gap \in [E -> Int]
      /\ ef \in [N -> Int] /\ ef[n] = EfStep(ef, n, dur, gap)
  BY DEF Network, IsForward
<1>1. \A q \in Preds(n, E) : <<q, n>> \in E /\ q \in N
  BY <1>0, EdgeEnds
<1>2. \A q \in Preds(n, E) : ef[q] \in Int
  <2>1. \A q \in N : ef[q] \in Int
    BY <1>0
  <2> QED BY <1>1, <2>1
<1>3. /\ EfStep(ef, n, dur, gap) >= dur[n]
      /\ \A q \in Preds(n, E) : EfStep(ef, n, dur, gap) >= ef[q] + gap[<<q, n>>] + dur[n]
      /\ \/ EfStep(ef, n, dur, gap) = dur[n]
         \/ \E q \in Preds(n, E) : EfStep(ef, n, dur, gap) = ef[q] + gap[<<q, n>>] + dur[n]
  <2>1. AreInts(ef, Preds(n, E))
    BY <1>2 DEF AreInts
  <2> QED BY <2>1, EfStepValue
<1>4. ef[n] \in Int
  BY <1>0
<1> QED BY <1>0, <1>1, <1>2, <1>3, <1>4

LEMMA BackwardStep ==
    ASSUME NEW N, NEW E, NEW dur, NEW gap, Network(N, E, dur, gap),
           NEW finish, NEW ls, IsBackward(ls, N, finish, dur, gap), NEW n \in N
    PROVE  /\ ls[n] \in Int /\ dur[n] \in Int
           /\ \A s \in Succs(n, E) : /\ <<n, s>> \in E /\ s \in N /\ ls[s] \in Int
                                     /\ ls[n] <= ls[s] - gap[<<n, s>>] - dur[n]
           /\ \/ ls[n] = finish - dur[n]
              \/ \E s \in Succs(n, E) : ls[n] = ls[s] - gap[<<n, s>>] - dur[n]
<1>0. /\ IsFiniteSet(N) /\ E \in SUBSET (N \X N) /\ dur \in [N -> Int] /\ gap \in [E -> Int]
      /\ finish \in Int /\ ls \in [N -> Int] /\ ls[n] = LsStep(ls, n, finish, dur, gap)
  BY DEF Network, IsBackward
<1>1. \A s \in Succs(n, E) : <<n, s>> \in E /\ s \in N
  BY <1>0, EdgeEnds
<1>2. \A s \in Succs(n, E) : ls[s] \in Int
  <2>1. \A s \in N : ls[s] \in Int
    BY <1>0
  <2> QED BY <1>1, <2>1
<1>3. /\ Succs(n, E) = {} => LsStep(ls, n, finish, dur, gap) = finish - dur[n]
      /\ \A s \in Succs(n, E) : LsStep(ls, n, finish, dur, gap) <= ls[s] - gap[<<n, s>>] - dur[n]
      /\ Succs(n, E) # {} => \E s \in Succs(n, E) :
            LsStep(ls, n, finish, dur, gap) = ls[s] - gap[<<n, s>>] - dur[n]
  <2>1. AreInts(ls, Succs(n, E))
    BY <1>2 DEF AreInts
  <2>2. finish \in Int
    BY <1>0
  <2> QED BY <2>1, <2>2, LsStepValue
<1>4. ls[n] \in Int /\ dur[n] \in Int
  BY <1>0
<1> QED BY <1>0, <1>1, <1>2, <1>3, <1>4

LEMMA PathInduction ==
    ASSUME NEW k \in Nat, NEW S, 1 \in S, \A i \in 1..(k - 1) : i \in S => i + 1 \in S
    PROVE  1..k \subseteq S
<1> DEFINE I    == 1..k
           same == [i \in I |-> i]
<1>1. same \in [I -> Nat]
  OBVIOUS
<1>2. ASSUME NEW i \in I, \A j \in I : same[j] < same[i] => j \in S PROVE i \in S
  <2>1. CASE i = 1
    BY <2>1
  <2>2. CASE i # 1
    <3>1. i - 1 \in 1..(k - 1) /\ i - 1 \in I /\ i - 1 < i /\ (i - 1) + 1 = i
      BY <2>2
    <3>2. i - 1 \in S
      BY <1>2, <3>1
    <3> QED BY <3>1, <3>2
  <2> QED BY <2>1, <2>2
<1> HIDE DEF I, same
<1>3. I \subseteq S
  BY <1>1, <1>2, RankInduction
<1> QED BY <1>3 DEF I

\* The numbers of a path and its dependencies.
LEMMA PathNumbers ==
    ASSUME NEW N, NEW E, NEW dur, NEW gap, Network(N, E, dur, gap), NEW k, NEW p, IsPath(p, k, N, E)
    PROVE  /\ k \in Nat /\ k >= 1 /\ 1 \in 1..k /\ k \in 1..k
           /\ \A i \in 1..k : p[i] \in N /\ dur[p[i]] \in Int /\ Days(p, i, dur, gap) \in Int
           /\ Days(p, 1, dur, gap) = dur[p[1]]
           /\ \A i \in 1..(k - 1) : /\ i \in 1..k /\ i + 1 \in 1..k
                                    /\ p[i] \in Preds(p[i + 1], E) /\ p[i + 1] \in Succs(p[i], E)
                                    /\ gap[<<p[i], p[i + 1]>>] \in Int
                                    /\ Days(p, i + 1, dur, gap) =
                                          Days(p, i, dur, gap) + gap[<<p[i], p[i + 1]>>] + dur[p[i + 1]]
<1>0. E \in SUBSET (N \X N) /\ dur \in [N -> Int] /\ gap \in [E -> Int]
  BY DEF Network
<1>1. k \in Nat /\ k >= 1 /\ 1 \in 1..k /\ k \in 1..k
  BY PathSize
<1>2. \A i \in 1..k : p[i] \in N /\ dur[p[i]] \in Int
  BY PathFacts
<1>3. \A i \in 1..(k - 1) : /\ i \in 1..k /\ i + 1 \in 1..k
                            /\ p[i] \in Preds(p[i + 1], E) /\ p[i + 1] \in Succs(p[i], E)
                            /\ gap[<<p[i], p[i + 1]>>] \in Int
  <2> SUFFICES ASSUME NEW i \in 1..(k - 1)
               PROVE  /\ i \in 1..k /\ i + 1 \in 1..k
                      /\ p[i] \in Preds(p[i + 1], E) /\ p[i + 1] \in Succs(p[i], E)
                      /\ gap[<<p[i], p[i + 1]>>] \in Int
    OBVIOUS
  <2>1. \A j \in 1..(k - 1) : /\ j \in 1..k /\ j + 1 \in 1..k
                              /\ <<p[j], p[j + 1]>> \in E /\ gap[<<p[j], p[j + 1]>>] \in Int
    BY PathFacts
  <2>2. PICK a, b : a = p[i] /\ b = p[i + 1] /\ <<a, b>> \in E
    BY <2>1
  <2>3. a \in Preds(b, E) /\ b \in Succs(a, E)
    <3>1. \A n : /\ \A x : x \in Preds(n, E) <=> <<x, n>> \in E
                 /\ \A x : x \in Succs(n, E) <=> <<n, x>> \in E
      <4>1. E \in SUBSET (N \X N)
        BY <1>0
      <4> QED BY <4>1, EdgeEnds
    <3> QED BY <2>2, <3>1
  <2> QED BY <2>1, <2>2, <2>3
<1>4. \A i \in 1..(k - 1) : /\ Days(p, i, dur, gap) \in Int
                            /\ Days(p, i + 1, dur, gap) =
                                  Days(p, i, dur, gap) + gap[<<p[i], p[i + 1]>>] + dur[p[i + 1]]
  BY DaysOfNext
<1>5. Days(p, 1, dur, gap) = dur[p[1]]
  BY DaysOfFirst
<1>6. ASSUME NEW i \in 1..k PROVE Days(p, i, dur, gap) \in Int
  <2>1. CASE i = 1
    BY <1>1, <1>2, <1>5, <2>1
  <2>2. CASE i # 1
    <3>1. i - 1 \in 1..(k - 1) /\ (i - 1) + 1 = i
      BY <1>1, <2>2
    <3> DEFINE j == i - 1
    <3>2. /\ Days(p, j, dur, gap) \in Int /\ gap[<<p[j], p[j + 1]>>] \in Int /\ dur[p[j + 1]] \in Int
          /\ Days(p, j + 1, dur, gap) = Days(p, j, dur, gap) + gap[<<p[j], p[j + 1]>>] + dur[p[j + 1]]
      BY <1>2, <1>3, <1>4, <3>1
    <3>3. j + 1 = i
      BY <3>1
    <3> HIDE DEF j
    <3>4. Days(p, j + 1, dur, gap) \in Int
      BY <3>2
    <3> QED BY <3>3, <3>4
  <2> QED BY <2>1, <2>2
<1> QED BY <1>1, <1>2, <1>3, <1>4, <1>5, <1>6

\* No path takes longer than the earliest finish of its last activity.
LEMMA PathWithinFinish ==
    ASSUME NEW N, NEW E, NEW dur, NEW gap, Network(N, E, dur, gap),
           NEW ef, IsForward(ef, N, dur, gap), NEW k, NEW p, IsPath(p, k, N, E)
    PROVE  \A i \in 1..k : Days(p, i, dur, gap) <= ef[p[i]]
<1> DEFINE S == {i \in 1..k : Days(p, i, dur, gap) <= ef[p[i]]}
<1>1. \A n \in N : /\ ef[n] \in Int /\ ef[n] >= dur[n]
                  /\ \A q \in Preds(n, E) : ef[q] \in Int /\ ef[n] >= ef[q] + gap[<<q, n>>] + dur[n]
  BY ForwardStep
<1>2. 1 \in S
  <2>1. Days(p, 1, dur, gap) = dur[p[1]] /\ 1 \in 1..k /\ p[1] \in N
    BY PathNumbers
  <2> QED BY <1>1, <2>1
<1>3. ASSUME NEW i \in 1..(k - 1), i \in S PROVE i + 1 \in S
  <2>1. /\ i + 1 \in 1..k /\ i \in 1..k /\ p[i] \in Preds(p[i + 1], E)
        /\ gap[<<p[i], p[i + 1]>>] \in Int
        /\ Days(p, i + 1, dur, gap) = Days(p, i, dur, gap) + gap[<<p[i], p[i + 1]>>] + dur[p[i + 1]]
    BY PathNumbers
  <2>2. Days(p, i, dur, gap) \in Int /\ p[i + 1] \in N /\ dur[p[i + 1]] \in Int
    BY <2>1, PathNumbers
  <2>3. ef[p[i]] \in Int /\ ef[p[i + 1]] \in Int
        /\ ef[p[i + 1]] >= ef[p[i]] + gap[<<p[i], p[i + 1]>>] + dur[p[i + 1]]
    BY <1>1, <2>1, <2>2
  <2>4. Days(p, i, dur, gap) <= ef[p[i]]
    BY <1>3
  <2>5. Days(p, i + 1, dur, gap) <= ef[p[i + 1]]
    BY <2>1, <2>2, <2>3, <2>4
  <2> QED BY <2>1, <2>5
<1>4. k \in Nat
  BY PathSize
<1> HIDE DEF S
<1>5. 1..k \subseteq S
  BY <1>2, <1>3, <1>4, PathInduction
<1> QED BY <1>5 DEF S

LEMMA PathOfOne ==
    ASSUME NEW N, NEW E, NEW n \in N
    PROVE  IsPath([i \in 1..1 |-> n], 1, N, E) /\ [i \in 1..1 |-> n][1] = n
BY DEF IsPath

\* A path that goes on with an activity of a higher rank.
LEMMA PathGoesOn ==
    ASSUME NEW N, NEW E, NEW dur, NEW gap, Network(N, E, dur, gap),
           NEW m \in Nat, NEW rank, IsRank(rank, m, N, E),
           NEW k, NEW p, IsPath(p, k, N, E), NEW c, <<p[k], c>> \in E
    PROVE  LET q == Extend(p, k, c)
           IN  /\ IsPath(q, k + 1, N, E) /\ q[k + 1] = c /\ \A i \in 1..k : q[i] = p[i]
               /\ Days(q, k + 1, dur, gap) = Days(p, k, dur, gap) + gap[<<p[k], c>>] + dur[c]
<1> DEFINE q == Extend(p, k, c)
<1>0. IsFiniteSet(N) /\ E \in SUBSET (N \X N) /\ dur \in [N -> Int] /\ gap \in [E -> Int]
  BY DEF Network
<1>1. k \in Nat /\ k >= 1 /\ k \in 1..k /\ \A i \in 1..k : p[i] \in N
  BY PathNumbers
<1>2. ASSUME NEW i \in 1..k PROVE p[i] # c
  <2>1. rank[p[i]] <= rank[p[k]]
    BY <1>0, <1>1, RankAlongPath
  <2>2. rank[<<p[k], c>>[1]] < rank[<<p[k], c>>[2]]
    BY DEF IsRank
  <2>3. rank[p[k]] < rank[c]
    BY <2>2
  <2>4. rank[p[i]] \in Int /\ rank[p[k]] \in Int
    BY <1>1 DEF IsRank
  <2> SUFFICES ASSUME p[i] = c PROVE FALSE
    OBVIOUS
  <2> QED BY <2>1, <2>3, <2>4
<1>3. IsPath(q, k + 1, N, E) /\ q[k + 1] = c /\ \A i \in 1..k : q[i] = p[i]
  <2>1. E \in SUBSET (N \X N)
    BY <1>0
  <2> QED BY <1>2, <2>1, PathExtends
<1>4. Days(q, k, dur, gap) = Days(p, k, dur, gap)
  BY DaysOfExtension
<1> HIDE DEF q
<1>5. Days(q, k + 1, dur, gap) = Days(q, k, dur, gap) + gap[<<q[k], q[k + 1]>>] + dur[q[k + 1]]
  <2>1. k \in 1..((k + 1) - 1)
    BY <1>1
  <2> QED BY <1>3, <2>1, PathNumbers
<1>6. q[k] = p[k]
  BY <1>1, <1>3
<1> QED BY <1>3, <1>4, <1>5, <1>6 DEF q

\* A path to an activity that takes as long as its earliest finish says.
PathTo(k, p, n, ef, N, E, dur, gap) ==
    k \in Nat /\ IsPath(p, k, N, E) /\ p[k] = n /\ Days(p, k, dur, gap) = ef[n]

LEMMA PathToExists ==
    ASSUME NEW N, NEW E, NEW dur, NEW gap, Network(N, E, dur, gap),
           NEW m \in Nat, NEW rank, IsRank(rank, m, N, E), NEW ef, IsForward(ef, N, dur, gap)
    PROVE  \A n \in N : \E k, p : PathTo(k, p, n, ef, N, E, dur, gap)
<1> DEFINE S == {n \in N : \E k, p : PathTo(k, p, n, ef, N, E, dur, gap)}
<1>1. rank \in [N -> Nat]
  BY DEF IsRank
<1>2. ASSUME NEW n \in N, \A q \in N : rank[q] < rank[n] => q \in S PROVE n \in S
  <2>0. \A q \in Preds(n, E) : <<q, n>> \in E /\ q \in N
    BY ForwardStep
  <2>1. \/ ef[n] = dur[n]
        \/ \E q \in Preds(n, E) : ef[n] = ef[q] + gap[<<q, n>>] + dur[n]
    BY ForwardStep
  <2>2. CASE ef[n] = dur[n]
    <3> DEFINE p == [i \in 1..1 |-> n]
    <3>1. IsPath(p, 1, N, E) /\ p[1] = n
      BY PathOfOne
    <3> HIDE DEF p
    <3>2. Days(p, 1, dur, gap) = dur[p[1]]
      BY <3>1, DaysOfFirst
    <3>3. PathTo(1, p, n, ef, N, E, dur, gap)
      BY <2>2, <3>1, <3>2 DEF PathTo
    <3> QED BY <3>3
  <2>3. ASSUME NEW q \in Preds(n, E), ef[n] = ef[q] + gap[<<q, n>>] + dur[n]
        PROVE  n \in S
    <3>1. q \in N /\ <<q, n>> \in E
      BY <2>0
    <3>2. rank[q] < rank[n]
      <4>1. rank[<<q, n>>[1]] < rank[<<q, n>>[2]]
        BY <3>1 DEF IsRank
      <4> QED BY <4>1
    <3>3. PICK k, p : PathTo(k, p, q, ef, N, E, dur, gap)
      BY <1>2, <3>1, <3>2
    <3> DEFINE r == Extend(p, k, n)
    <3>4. k \in Nat /\ IsPath(p, k, N, E) /\ p[k] = q /\ Days(p, k, dur, gap) = ef[q]
      BY <3>3 DEF PathTo
    <3>5. /\ IsPath(r, k + 1, N, E) /\ r[k + 1] = n
          /\ Days(r, k + 1, dur, gap) = Days(p, k, dur, gap) + gap[<<p[k], n>>] + dur[n]
      BY <3>1, <3>4, PathGoesOn
    <3> HIDE DEF r
    <3>6. Days(r, k + 1, dur, gap) = ef[n]
      BY <2>3, <3>4, <3>5
    <3>7. PathTo(k + 1, r, n, ef, N, E, dur, gap)
      BY <3>4, <3>5, <3>6 DEF PathTo
    <3> QED BY <3>7
  <2> QED BY <2>1, <2>2, <2>3
<1> HIDE DEF S
<1>3. N \subseteq S
  BY <1>1, <1>2, RankInduction
<1> QED BY <1>3 DEF S

\* A path that goes on from another to the end of the project, by the
\* successors that leave its last activity no slack.
PathOn(l, q, k, p, ls, finish, N, E, dur, gap) ==
    /\ l \in Nat /\ l >= k /\ IsPath(q, l, N, E) /\ \A i \in 1..k : q[i] = p[i]
    /\ Days(q, l, dur, gap) = Days(p, k, dur, gap) - dur[p[k]] + finish - ls[p[k]]

PathsGoOn(t, ls, finish, N, E, dur, gap) ==
    \A k, p : IsPath(p, k, N, E) /\ p[k] = t =>
        \E l, q : PathOn(l, q, k, p, ls, finish, N, E, dur, gap)

LEMMA PathOnExists ==
    ASSUME NEW N, NEW E, NEW dur, NEW gap, Network(N, E, dur, gap),
           NEW m \in Nat, NEW rank, IsRank(rank, m, N, E),
           NEW finish, NEW ls, IsBackward(ls, N, finish, dur, gap)
    PROVE  \A t \in N : PathsGoOn(t, ls, finish, N, E, dur, gap)
<1> DEFINE S == {t \in N : PathsGoOn(t, ls, finish, N, E, dur, gap)}
           back == [n \in N |-> m - rank[n]]
<1>0. /\ IsFiniteSet(N) /\ E \in SUBSET (N \X N) /\ dur \in [N -> Int] /\ gap \in [E -> Int]
      /\ finish \in Int /\ ls \in [N -> Int] /\ \A n \in N : ls[n] = LsStep(ls, n, finish, dur, gap)
  BY DEF Network, IsBackward
<1>1. back \in [N -> Nat]
  BY DEF IsRank
<1>2. ASSUME NEW t \in N, \A s \in N : back[s] < back[t] => s \in S PROVE t \in S
  <2>0. /\ \A s \in Succs(t, E) : /\ <<t, s>> \in E /\ s \in N /\ ls[s] \in Int
                                   /\ ls[t] <= ls[s] - gap[<<t, s>>] - dur[t]
        /\ \/ ls[t] = finish - dur[t]
           \/ \E s \in Succs(t, E) : ls[t] = ls[s] - gap[<<t, s>>] - dur[t]
    <3> HIDE DEF S, back
    <3> QED BY BackwardStep
  <2>1. \/ ls[t] = finish - dur[t]
        \/ \E s \in Succs(t, E) : ls[t] = ls[s] - gap[<<t, s>>] - dur[t]
    BY <2>0
  <2> SUFFICES ASSUME NEW k, NEW p, IsPath(p, k, N, E), p[k] = t
               PROVE  \E l, q : PathOn(l, q, k, p, ls, finish, N, E, dur, gap)
    BY DEF PathsGoOn
  <2>2. /\ k \in Nat /\ k \in 1..k /\ Days(p, k, dur, gap) \in Int
        /\ dur[t] \in Int /\ ls[t] \in Int
    <3>1. k \in Nat /\ k \in 1..k /\ \A i \in 1..k : Days(p, i, dur, gap) \in Int
      BY PathNumbers
    <3> QED BY <1>0, <3>1
  <2>3. CASE ls[t] = finish - dur[t]
    <3>1. Days(p, k, dur, gap) = Days(p, k, dur, gap) - dur[t] + finish - ls[t]
      BY <1>0, <2>2, <2>3
    <3>2. PathOn(k, p, k, p, ls, finish, N, E, dur, gap)
      BY <2>2, <3>1 DEF PathOn
    <3> QED BY <3>2
  <2>4. ASSUME NEW s \in Succs(t, E), ls[t] = ls[s] - gap[<<t, s>>] - dur[t]
        PROVE  \E l, q : PathOn(l, q, k, p, ls, finish, N, E, dur, gap)
    <3>1. s \in N /\ <<t, s>> \in E
      BY <2>0
    <3>2. back[s] < back[t]
      <4>1. rank[<<t, s>>[1]] < rank[<<t, s>>[2]]
        BY <3>1 DEF IsRank
      <4>2. rank[t] \in Int /\ rank[s] \in Int
        BY <3>1 DEF IsRank
      <4>3. back[s] = m - rank[s] /\ back[t] = m - rank[t]
        BY <3>1
      <4> QED BY <4>1, <4>2, <4>3
    <3>3. PathsGoOn(s, ls, finish, N, E, dur, gap)
      BY <1>2, <3>1, <3>2
    <3> DEFINE r == Extend(p, k, s)
    <3>4. /\ IsPath(r, k + 1, N, E) /\ r[k + 1] = s /\ \A i \in 1..k : r[i] = p[i]
          /\ Days(r, k + 1, dur, gap) = Days(p, k, dur, gap) + gap[<<p[k], s>>] + dur[s]
      BY <3>1, PathGoesOn
    <3> HIDE DEF r
    <3>5. PICK l, q : PathOn(l, q, k + 1, r, ls, finish, N, E, dur, gap)
      BY <3>3, <3>4 DEF PathsGoOn
    <3>6. /\ l \in Nat /\ l >= k + 1 /\ IsPath(q, l, N, E) /\ \A i \in 1..(k + 1) : q[i] = r[i]
          /\ Days(q, l, dur, gap) = Days(r, k + 1, dur, gap) - dur[s] + finish - ls[s]
      BY <3>4, <3>5 DEF PathOn
    <3>7. l >= k /\ \A i \in 1..k : q[i] = p[i]
      <4>1. \A i \in 1..k : i \in 1..(k + 1)
        BY <2>2
      <4> QED BY <2>2, <3>4, <3>6, <4>1
    <3>8. Days(q, l, dur, gap) = Days(p, k, dur, gap) - dur[t] + finish - ls[t]
      <4>1. gap[<<t, s>>] \in Int /\ dur[s] \in Int /\ ls[s] \in Int /\ finish \in Int
        BY <1>0, <3>1
      <4>2. Days(q, l, dur, gap) = (Days(p, k, dur, gap) + gap[<<t, s>>] + dur[s]) - dur[s] + finish - ls[s]
        BY <3>4, <3>6
      <4> QED BY <2>2, <2>4, <4>1, <4>2
    <3>9. PathOn(l, q, k, p, ls, finish, N, E, dur, gap)
      BY <3>6, <3>7, <3>8 DEF PathOn
    <3> QED BY <3>9
  <2> QED BY <2>1, <2>3, <2>4
<1> HIDE DEF S, back
<1>3. N \subseteq S
  BY <1>1, <1>2, RankInduction
<1> QED BY <1>3 DEF S

\* Along a path the latest finish grows by what the path takes, or more.
LEMMA SlackAlongPath ==
    ASSUME NEW N, NEW E, NEW dur, NEW gap, Network(N, E, dur, gap),
           NEW finish, NEW ls, IsBackward(ls, N, finish, dur, gap), NEW k, NEW p, IsPath(p, k, N, E)
    PROVE  \A i \in 1..k : \A j \in 1..k : i <= j =>
              ls[p[i]] + dur[p[i]] - Days(p, i, dur, gap) <= ls[p[j]] + dur[p[j]] - Days(p, j, dur, gap)
<1> DEFINE late == [i \in 1..k |-> ls[p[i]] + dur[p[i]] - Days(p, i, dur, gap)]
<1>0. /\ IsFiniteSet(N) /\ E \in SUBSET (N \X N) /\ dur \in [N -> Int] /\ gap \in [E -> Int]
      /\ finish \in Int /\ ls \in [N -> Int] /\ \A n \in N : ls[n] = LsStep(ls, n, finish, dur, gap)
  BY DEF Network, IsBackward
<1>1. k \in Nat /\ \A i \in 1..k : p[i] \in N /\ dur[p[i]] \in Int /\ Days(p, i, dur, gap) \in Int
  BY PathNumbers
<1>2. \A i \in 1..k : ls[p[i]] \in Int
  BY <1>0, <1>1
<1>3. \A i \in 1..k : late[i] = ls[p[i]] + dur[p[i]] - Days(p, i, dur, gap) /\ late[i] \in Int
  BY <1>1, <1>2
<1> HIDE DEF late
<1>4. ASSUME NEW i \in 1..(k - 1) PROVE i \in 1..k /\ i + 1 \in 1..k /\ late[i] <= late[i + 1]
  <2>1. /\ i \in 1..k /\ i + 1 \in 1..k /\ p[i + 1] \in Succs(p[i], E)
        /\ gap[<<p[i], p[i + 1]>>] \in Int
        /\ Days(p, i + 1, dur, gap) = Days(p, i, dur, gap) + gap[<<p[i], p[i + 1]>>] + dur[p[i + 1]]
    BY PathNumbers
  <2>3. \A n \in N : \A s \in Succs(n, E) : ls[n] <= ls[s] - gap[<<n, s>>] - dur[n]
    BY BackwardStep
  <2>4. ls[p[i]] <= ls[p[i + 1]] - gap[<<p[i], p[i + 1]>>] - dur[p[i]]
    BY <1>1, <2>1, <2>3
  <2>5. /\ late[i] = ls[p[i]] + dur[p[i]] - Days(p, i, dur, gap)
        /\ late[i + 1] = ls[p[i + 1]] + dur[p[i + 1]] - Days(p, i + 1, dur, gap)
        /\ ls[p[i]] \in Int /\ dur[p[i]] \in Int /\ Days(p, i, dur, gap) \in Int
        /\ ls[p[i + 1]] \in Int /\ dur[p[i + 1]] \in Int
    BY <1>1, <1>2, <1>3, <2>1
  <2>6. late[i] <= late[i + 1]
    BY <2>1, <2>4, <2>5
  <2> QED BY <2>1, <2>6
<1>5. ASSUME NEW i \in 1..k PROVE \A j \in 1..k : i <= j => late[i] <= late[j]
  <2> DEFINE S == {j \in 1..k : i <= j => late[i] <= late[j]}
  <2>1. 1 \in S
    <3>1. 1 \in 1..k
      BY <1>1
    <3>2. i <= 1 => i = 1
      OBVIOUS
    <3> QED BY <1>3, <3>1, <3>2
  <2>2. ASSUME NEW j \in 1..(k - 1), j \in S PROVE j + 1 \in S
    <3>1. j \in 1..k /\ j + 1 \in 1..k /\ late[j] <= late[j + 1]
      BY <1>4
    <3>2. CASE i <= j
      <4>1. late[i] \in Int /\ late[j] \in Int /\ late[j + 1] \in Int /\ late[i] <= late[j]
        BY <1>3, <2>2, <3>1, <3>2
      <4>2. late[i] <= late[j + 1]
        BY <3>1, <4>1
      <4> QED BY <3>1, <4>2
    <3>3. CASE ~(i <= j)
      <4>1. i <= j + 1 => i = j + 1
        BY <3>3
      <4>2. late[j + 1] \in Int
        BY <1>3, <3>1
      <4> QED BY <3>1, <4>1, <4>2
    <3> QED BY <3>2, <3>3
  <2> HIDE DEF S
  <2>3. 1..k \subseteq S
    BY <1>1, <2>1, <2>2, PathInduction
  <2> QED BY <2>3 DEF S
<1> QED BY <1>3, <1>5

\* The passes of a sorted network.
Passes(ef, finish, ls, N, dur, gap) ==
    /\ ef = EarliestFinish(N, dur, gap) /\ finish = Max({ef[n] : n \in N})
    /\ ls = LatestStart(N, dur, gap, finish)

LEMMA PassesAre ==
    ASSUME NEW N, NEW E, NEW dur, NEW gap, Network(N, E, dur, gap), N # {},
           NEW m \in Nat, NEW rank, IsRank(rank, m, N, E),
           NEW ef, NEW finish, NEW ls, Passes(ef, finish, ls, N, dur, gap)
    PROVE  /\ IsForward(ef, N, dur, gap) /\ IsBackward(ls, N, finish, dur, gap)
           /\ finish \in Int /\ (\A n \in N : ef[n] <= finish) /\ \E n \in N : ef[n] = finish
<1>0. IsFiniteSet(N) /\ E \in SUBSET (N \X N) /\ dur \in [N -> Int] /\ gap \in [E -> Int]
  BY DEF Network
<1>1. ef \in [N -> Int] /\ \A n \in N : ef[n] = EfStep(ef, n, dur, gap)
  <2>1. ef = EarliestFinish(N, dur, gap)
    BY DEF Passes
  <2>2. /\ EarliestFinish(N, dur, gap) \in [N -> Int]
        /\ \A n \in N : EarliestFinish(N, dur, gap)[n] = EfStep(EarliestFinish(N, dur, gap), n, dur, gap)
    BY EarliestFinishExists
  <2> QED BY <2>1, <2>2
<1>2. finish = Max({ef[n] : n \in N})
  BY DEF Passes
<1>3. finish \in {ef[n] : n \in N} /\ finish \in Int /\ \A n \in N : ef[n] <= finish
  <2>1. IsFiniteSet(N) /\ ef \in [N -> Int]
    BY <1>0, <1>1
  <2> QED BY <1>2, <2>1, FinishIsLast
<1>4. ls \in [N -> Int] /\ \A n \in N : ls[n] = LsStep(ls, n, finish, dur, gap)
  <2>1. ls = LatestStart(N, dur, gap, finish) /\ finish \in Int
    BY <1>3 DEF Passes
  <2>2. /\ LatestStart(N, dur, gap, finish) \in [N -> Int]
        /\ \A n \in N : LatestStart(N, dur, gap, finish)[n] =
                           LsStep(LatestStart(N, dur, gap, finish), n, finish, dur, gap)
    BY <2>1, LatestStartExists
  <2> QED BY <2>1, <2>2
<1>5. \E n \in N : ef[n] = finish
  BY <1>3
<1>6. IsForward(ef, N, dur, gap)
  BY <1>1 DEF IsForward
<1>7. IsBackward(ls, N, finish, dur, gap)
  BY <1>3, <1>4 DEF IsBackward
<1> QED BY <1>3, <1>5, <1>6, <1>7

\* What has been computed is the longest path: forwards, a path to each
\* activity takes its earliest finish and none takes longer; backwards, an
\* activity without slack goes on to the end of the project by one that takes
\* all of it, and the slack of none grows along a path.
LEMMA SortedIsLongest ==
    ASSUME NEW N, NEW E, NEW dur, NEW gap, Network(N, E, dur, gap), N # {},
           NonNegative(E, gap), NonNegative(N, dur),
           NEW m \in Nat, NEW rank, IsRank(rank, m, N, E),
           NEW ef, NEW finish, NEW ls, Passes(ef, finish, ls, N, dur, gap)
    PROVE  [critical |-> {n \in N : ls[n] - (ef[n] - dur[n]) <= 0},
            duration |-> finish, cyclic |-> FALSE] = LongestPath(N, dur, gap)
<1> DEFINE P        == Paths(N, E)
           days     == Max({Length(p, dur, gap) : p \in P})
           critical == {n \in N : ls[n] - (ef[n] - dur[n]) <= 0}
           longest  == UNION {{p[i] : i \in DOMAIN p} : p \in {q \in P : Length(q, dur, gap) = days}}
<1>0. IsFiniteSet(N) /\ E \in SUBSET (N \X N) /\ dur \in [N -> Int] /\ gap \in [E -> Int] /\ DOMAIN gap = E
  BY DEF Network
<1>1. /\ IsForward(ef, N, dur, gap) /\ IsBackward(ls, N, finish, dur, gap)
      /\ finish \in Int /\ (\A n \in N : ef[n] <= finish) /\ \E n \in N : ef[n] = finish
  BY PassesAre
<1>2. \A n \in N : ef[n] \in Int /\ ls[n] \in Int /\ dur[n] \in Int
  BY <1>1, ForwardStep, BackwardStep
<1>3. ASSUME NEW k, NEW p, IsPath(p, k, N, E)
      PROVE  p \in P /\ Length(p, dur, gap) = Days(p, k, dur, gap)
  <2>1. k \in Nat
    BY <1>3, PathSize
  <2>2. p \in P
    BY <1>0, <1>3, <2>1, PathsArePaths
  <2> QED BY <1>3, <2>2, LengthIsDays
<1>4. ASSUME NEW p \in P
      PROVE  \E k \in Nat : IsPath(p, k, N, E)
  BY <1>0, PathsArePaths
<1>5. ASSUME NEW k, NEW p, IsPath(p, k, N, E)
      PROVE  Days(p, k, dur, gap) \in Int /\ Days(p, k, dur, gap) <= finish
  <2>1. k \in 1..k /\ p[k] \in N /\ Days(p, k, dur, gap) \in Int
    BY <1>5, PathNumbers
  <2>2. Days(p, k, dur, gap) <= ef[p[k]]
    BY <1>1, <1>5, <2>1, PathWithinFinish
  <2>3. ef[p[k]] <= finish /\ ef[p[k]] \in Int /\ finish \in Int
    BY <1>1, <1>2, <2>1
  <2> QED BY <2>1, <2>2, <2>3
<1>6. \A n \in N : \E k, p : PathTo(k, p, n, ef, N, E, dur, gap)
  BY <1>1, PathToExists
<1>7. days = finish
  <2> DEFINE L == {Length(p, dur, gap) : p \in P}
  <2>1. \A x \in L : x \in Int /\ x <= finish
    <3> SUFFICES ASSUME NEW p \in P PROVE Length(p, dur, gap) \in Int /\ Length(p, dur, gap) <= finish
      OBVIOUS
    <3>1. PICK k \in Nat : IsPath(p, k, N, E)
      BY <1>4
    <3> QED BY <1>3, <1>5, <3>1
  <2>2. finish \in L
    <3>1. PICK n \in N : ef[n] = finish
      BY <1>1
    <3>2. PICK k, p : PathTo(k, p, n, ef, N, E, dur, gap)
      BY <1>6
    <3>3. IsPath(p, k, N, E) /\ Days(p, k, dur, gap) = finish
      BY <3>1, <3>2 DEF PathTo
    <3>4. p \in P /\ Length(p, dur, gap) = finish
      BY <1>3, <3>3
    <3> QED BY <3>4
  <2> HIDE DEF L
  <2>3. Max(L) = finish
    BY <2>1, <2>2, MaxIs
  <2> QED BY <2>3 DEF L
<1> HIDE DEF days, P
<1>8. ASSUME NEW n \in critical PROVE n \in longest
  <2>1. n \in N /\ ls[n] - (ef[n] - dur[n]) <= 0
    OBVIOUS
  <2>2. PICK k, p : PathTo(k, p, n, ef, N, E, dur, gap)
    BY <1>6, <2>1
  <2>3. k \in Nat /\ IsPath(p, k, N, E) /\ p[k] = n /\ Days(p, k, dur, gap) = ef[n] /\ k >= 1
    BY <2>2, PathSize DEF PathTo
  <2>4. PathsGoOn(n, ls, finish, N, E, dur, gap)
    BY <1>1, <2>1, PathOnExists
  <2>5. PICK l, q : PathOn(l, q, k, p, ls, finish, N, E, dur, gap)
    BY <2>3, <2>4 DEF PathsGoOn
  <2>6. /\ l \in Nat /\ l >= k /\ IsPath(q, l, N, E) /\ q[k] = n
        /\ Days(q, l, dur, gap) = ef[n] - dur[n] + finish - ls[n]
    <3>1. k \in 1..k
      BY <2>3
    <3> QED BY <2>3, <2>5, <3>1 DEF PathOn
  <2>7. Days(q, l, dur, gap) = finish
    <3>1. Days(q, l, dur, gap) <= finish
      BY <1>5, <2>6
    <3>2. ef[n] \in Int /\ ls[n] \in Int /\ dur[n] \in Int /\ finish \in Int
      BY <1>1, <1>2, <2>1
    <3> QED BY <2>1, <2>6, <3>1, <3>2
  <2>8. q \in P /\ Length(q, dur, gap) = days
    BY <1>3, <1>7, <2>6, <2>7
  <2>9. k \in DOMAIN q
    BY <2>3, <2>6, PathSize
  <2> HIDE DEF critical
  <2> QED BY <2>6, <2>8, <2>9
<1>9. ASSUME NEW n \in longest PROVE n \in critical
  <2>1. PICK p \in P : Length(p, dur, gap) = days /\ \E i \in DOMAIN p : n = p[i]
    OBVIOUS
  <2>2. PICK k \in Nat : IsPath(p, k, N, E)
    BY <1>4 DEF P
  <2>3. PICK i \in 1..k : n = p[i]
    BY <2>1, <2>2, PathSize
  <2>4. Days(p, k, dur, gap) = finish
    BY <1>3, <1>7, <2>1, <2>2
  <2>5. k \in 1..k /\ i <= k /\ p[i] \in N /\ p[k] \in N /\ Days(p, i, dur, gap) \in Int
    BY <2>2, <2>3, PathNumbers
  <2>6. ls[p[i]] + dur[p[i]] - Days(p, i, dur, gap) <= ls[p[k]] + dur[p[k]] - Days(p, k, dur, gap)
    BY <1>1, <2>2, <2>3, <2>5, SlackAlongPath
  <2>7. Days(p, i, dur, gap) <= ef[p[i]]
    BY <1>1, <2>2, <2>3, PathWithinFinish
  <2>8. ls[p[k]] + dur[p[k]] <= finish
    <3>1. finish \in Int /\ ls \in [N -> Int] /\ \A x \in N : ls[x] = LsStep(ls, x, finish, dur, gap)
      BY <1>1 DEF IsBackward
    <3>2. gap \in [E -> Nat]
      <4>1. \A e \in E : gap[e] \in Nat
        BY <1>0 DEF NonNegative
      <4> QED BY <1>0, <4>1
    <3>3. \A x \in N : ls[x] + dur[x] <= finish
      BY <1>0, <3>1, <3>2, LatestEndsInTime
    <3> QED BY <2>5, <3>3
  <2>9. /\ ef[p[i]] \in Int /\ ls[p[i]] \in Int /\ dur[p[i]] \in Int
        /\ ls[p[k]] \in Int /\ dur[p[k]] \in Int /\ finish \in Int
    BY <1>1, <1>2, <2>5
  <2>10. ls[p[i]] - (ef[p[i]] - dur[p[i]]) <= 0
    BY <2>4, <2>5, <2>6, <2>7, <2>8, <2>9
  <2> HIDE DEF longest
  <2> QED BY <2>3, <2>5, <2>10
<1>10. critical = longest
  <2> HIDE DEF critical, longest
  <2> QED BY <1>8, <1>9
<1>11. LongestPath(N, dur, gap) = [critical |-> longest, duration |-> days, cyclic |-> FALSE]
  BY <1>0 DEF LongestPath, days, P
<1> QED BY <1>7, <1>10, <1>11

\* compute_critical_path on any network, with or without a cycle.
LEMMA ComputesLongestPath ==
    ASSUME NEW N, NEW E, NEW dur, NEW all, NEW gap, Network(N, E, dur, gap),
           NonNegative(E, gap), NonNegative(N, dur),
           gap = Known(N, all), N \subseteq Activities, N # {}
    PROVE  ComputeCriticalPath(N, dur, all) = IF HasCycle(N, E) THEN Nothing(TRUE) ELSE LongestPath(N, dur, gap)
<1>1. /\ N \in SUBSET Activities /\ IsFiniteSet(N) /\ E \in SUBSET (N \X N) /\ E = DOMAIN gap
      /\ dur \in [N -> Int] /\ gap \in [E -> Int]
  BY DEF Network
<1>2. CASE Sorted(N, E) # N
  <2>1. HasCycle(N, E)
    BY <1>1, <1>2, UnsortedHasCycle
  <2> QED BY <1>1, <1>2, <2>1 DEF ComputeCriticalPath
<1>3. CASE Sorted(N, E) = N
  <2>1. PICK m, rank : m \in Nat /\ IsRank(rank, m, N, E)
    BY <1>1, <1>3, SortedHasRank
  <2>2. ~HasCycle(N, E)
    BY <1>1, <2>1, RankedHasNoCycle
  <2> DEFINE ef     == EarliestFinish(N, dur, gap)
             finish == Max({ef[n] : n \in N})
             ls     == LatestStart(N, dur, gap, finish)
  <2>4. Passes(ef, finish, ls, N, dur, gap)
    BY DEF Passes
  <2>5. ComputeCriticalPath(N, dur, all) =
           [critical |-> {n \in N : ls[n] - (ef[n] - dur[n]) <= 0},
            duration |-> finish, cyclic |-> FALSE]
    BY <1>1, <1>3 DEF ComputeCriticalPath
  <2> HIDE DEF ef, finish, ls
  <2>6. [critical |-> {n \in N : ls[n] - (ef[n] - dur[n]) <= 0},
         duration |-> finish, cyclic |-> FALSE] = LongestPath(N, dur, gap)
    BY <1>1, <2>1, <2>4, SortedIsLongest
  <2> QED BY <2>2, <2>5, <2>6
<1> QED BY <1>2, <1>3

\* What is computed, leads or not.
LEMMA ComputesResult ==
    ASSUME NEW N, IsFiniteSet(N), NEW dur \in [N -> Int], NEW all, NEW gap,
           gap = Known(N, all), NEW E, E = DOMAIN gap, gap \in [E -> Int]
    PROVE  ComputeCriticalPath(N, dur, all) \in [critical : SUBSET N, duration : Int, cyclic : BOOLEAN]
<1>1. E \in SUBSET (N \X N)
  BY DEF Known
<1>2. CASE N = {} \/ Sorted(N, E) # N
  BY <1>2 DEF ComputeCriticalPath, Nothing
<1>3. CASE N # {} /\ Sorted(N, E) = N
  <2>1. PICK m, rank : m \in Nat /\ IsRank(rank, m, N, E)
    BY <1>1, <1>3, SortedHasRank
  <2>2. Network(N, E, dur, gap)
    BY <1>1 DEF Network
  <2> DEFINE ef     == EarliestFinish(N, dur, gap)
             finish == Max({ef[n] : n \in N})
             ls     == LatestStart(N, dur, gap, finish)
  <2>3. Passes(ef, finish, ls, N, dur, gap)
    BY DEF Passes
  <2>4. ComputeCriticalPath(N, dur, all) =
           [critical |-> {n \in N : ls[n] - (ef[n] - dur[n]) <= 0},
            duration |-> finish, cyclic |-> FALSE]
    BY <1>3 DEF ComputeCriticalPath
  <2> HIDE DEF ef, finish, ls
  <2>5. finish \in Int
    BY <1>3, <2>1, <2>2, <2>3, PassesAre
  <2> QED BY <2>4, <2>5
<1> QED BY <1>2, <1>3

-----------------------------------------------------------------------------
(* The inductive invariant.                                                *)

Checked == [at : {"checked"}, edge : Pairs, overtaken : BOOLEAN]

Shape ==
    /\ Deps \in SUBSET Pairs
    /\ creating \in [Workers -> {Idle} \cup Checked]
    /\ outrun \in BOOLEAN

\* A check that no insert has overtaken still holds.
ChecksHold ==
    \A w \in Workers : creating[w] # Idle /\ ~creating[w].overtaken =>
        LET e == creating[w].edge IN e[1] # e[2] /\ e[1] \notin Descendants(e[2], Deps)

EdgesOfTwo == \A w \in Workers : creating[w] # Idle => creating[w].edge[1] # creating[w].edge[2]

\* Before the answer there is no result.
Assessed ==
    \/ assessing = Idle
    \/ assessing.at = "activities" /\ DOMAIN assessing.dur \in SUBSET Activities
    \/ assessing.at = "computed" /\ (assessing.result.cyclic => outrun)

IInv == Shape /\ ChecksHold /\ EdgesOfTwo /\ CycleOnlyByRace /\ Assessed /\ CycleReportedOnlyByRace

LEMMA CheckedFields ==
    ASSUME Shape, NEW w \in Workers, creating[w] # Idle
    PROVE  /\ creating[w] \in Checked /\ creating[w].edge \in Pairs
           /\ creating[w].overtaken \in BOOLEAN /\ creating[w].at = "checked"
BY DEF Shape, Checked

LEMMA InitIInv == Init => IInv
<1> SUFFICES ASSUME Init PROVE IInv
  OBVIOUS
<1>1. Deps = {}
  BY DEF Init, Deps
<1>2. Acyclic(Deps)
  <2>1. ASSUME NEW a \in Activities PROVE Descendants(a, Deps) = {}
    <3>1. Closed({}, a, Deps)
      BY <1>1 DEF Closed
    <3> QED BY <3>1, DescendantsLeast
  <2> QED BY <2>1 DEF Acyclic
<1>3. Shape /\ ChecksHold /\ EdgesOfTwo /\ Assessed /\ CycleReportedOnlyByRace
  BY <1>1 DEF Init, Shape, ChecksHold, EdgesOfTwo, Assessed, CycleReportedOnlyByRace
<1> QED BY <1>2, <1>3 DEF IInv, CycleOnlyByRace

\* Deletions, of dependencies and with them of activities.
LEMMA DeleteStep ==
    ASSUME IInv, Deps' \in SUBSET Deps, UNCHANGED <<creating, assessing, latest, outrun>>
    PROVE  IInv'
<1>1. Shape'
  BY DEF IInv, Shape
<1>2. ChecksHold'
  <2> SUFFICES ASSUME NEW w \in Workers, creating[w] # Idle, ~creating[w].overtaken
               PROVE  /\ creating[w].edge[1] # creating[w].edge[2]
                      /\ creating[w].edge[1] \notin Descendants(creating[w].edge[2], Deps')
    BY DEF ChecksHold
  <2>1. /\ creating[w].edge[1] # creating[w].edge[2]
        /\ creating[w].edge[1] \notin Descendants(creating[w].edge[2], Deps)
    BY DEF IInv, ChecksHold
  <2> QED BY <2>1, DescendantsMonotone DEF IInv, Shape
<1>3. CycleOnlyByRace'
  BY AcyclicSubset DEF IInv, Shape, CycleOnlyByRace
<1>4. EdgesOfTwo' /\ Assessed' /\ CycleReportedOnlyByRace'
  BY DEF IInv, EdgesOfTwo, Assessed, CycleReportedOnlyByRace
<1> QED BY <1>1, <1>2, <1>3, <1>4 DEF IInv

LEMMA CheckStep ==
    ASSUME IInv, NEW w \in Workers, NEW p \in Activities, NEW s \in Activities, CheckDependency(w, p, s)
    PROVE  IInv'
<1>1. /\ Deps' = Deps /\ UNCHANGED <<assessing, latest, outrun>>
      /\ creating' = [creating EXCEPT ![w] = [at |-> "checked", edge |-> <<p, s>>, overtaken |-> FALSE]]
      /\ p # s /\ p \notin Descendants(s, Deps)
  BY DEF CheckDependency, Deps
<1>2. Shape'
  BY <1>1 DEF IInv, Shape, Checked, Pairs
<1>3. \A v \in Workers : v # w => creating'[v] = creating[v]
  BY <1>1 DEF IInv, Shape
<1>4. creating'[w].edge[1] = p /\ creating'[w].edge[2] = s
  BY <1>1 DEF IInv, Shape
<1>5. ChecksHold' /\ EdgesOfTwo'
  BY <1>1, <1>3, <1>4 DEF IInv, ChecksHold, EdgesOfTwo
<1>6. CycleOnlyByRace' /\ Assessed' /\ CycleReportedOnlyByRace'
  BY <1>1 DEF IInv, CycleOnlyByRace, Assessed, CycleReportedOnlyByRace
<1> QED BY <1>2, <1>5, <1>6 DEF IInv

LEMMA InsertStep ==
    ASSUME IInv, NEW w \in Workers, NEW l \in Lags, InsertDependency(w, l)
    PROVE  IInv'
<1> DEFINE e == creating[w].edge
<1>1. /\ creating[w] # Idle /\ Deps' = Deps \cup {e} /\ UNCHANGED <<assessing, latest>>
      /\ (outrun' <=> (outrun \/ (creating[w].overtaken /\ e[1] \in Descendants(e[2], Deps))))
  BY DEF InsertDependency, Deps, IInv, Shape
<1>2. creating' = [v \in Workers |-> IF v = w \/ creating[v] = Idle THEN Idle
                                     ELSE [creating[v] EXCEPT !.overtaken = TRUE]]
  BY DEF InsertDependency
<1>3. PICK p \in Activities, s \in Activities : e = <<p, s>>
  BY <1>1, CheckedFields DEF IInv, Pairs
<1>4. ASSUME NEW v \in Workers, creating'[v] # Idle
      PROVE  /\ creating[v] # Idle /\ creating'[v] \in Checked
             /\ creating'[v].overtaken = TRUE /\ creating'[v].edge = creating[v].edge
  <2>1. creating[v] # Idle /\ creating'[v] = [creating[v] EXCEPT !.overtaken = TRUE]
    BY <1>2, <1>4
  <2>2. creating[v] \in Checked
    BY <2>1, CheckedFields DEF IInv
  <2> QED BY <2>1, <2>2 DEF Checked
<1>5. Shape'
  <2>1. creating' \in [Workers -> {Idle} \cup Checked]
    <3>1. \A v \in Workers : creating'[v] \in {Idle} \cup Checked
      BY <1>4
    <3>2. creating' = [v \in Workers |-> creating'[v]]
      BY <1>2
    <3> QED BY <3>1, <3>2
  <2>2. Deps' \in SUBSET Pairs
    BY <1>1, <1>3 DEF IInv, Shape, Pairs
  <2>3. outrun' \in BOOLEAN
    BY DEF InsertDependency, IInv, Shape
  <2> QED BY <2>1, <2>2, <2>3 DEF Shape
<1>6. ChecksHold' /\ EdgesOfTwo'
  BY <1>4 DEF IInv, ChecksHold, EdgesOfTwo
<1>7. CycleOnlyByRace'
  <2> SUFFICES ASSUME ~outrun' PROVE Acyclic(Deps')
    BY DEF CycleOnlyByRace
  <2>1. Acyclic(Deps) /\ ~outrun
    BY <1>1 DEF IInv, CycleOnlyByRace
  <2>2. e[1] = p /\ e[2] = s
    BY <1>3
  <2>3. p # s
    BY <1>1, <2>2 DEF IInv, EdgesOfTwo
  <2>4. p \notin Descendants(s, Deps)
    BY <1>1, <2>2 DEF IInv, ChecksHold
  <2>5. Deps' = Deps \cup {<<p, s>>} /\ Deps \in SUBSET Pairs
    BY <1>1, <1>3 DEF IInv, Shape
  <2> QED BY <2>1, <2>3, <2>4, <2>5, AcyclicInsert
<1>8. Assessed' /\ CycleReportedOnlyByRace'
  BY <1>1 DEF IInv, Assessed, CycleReportedOnlyByRace
<1> QED BY <1>5, <1>6, <1>7, <1>8 DEF IInv

LEMMA AbandonStep ==
    ASSUME IInv, NEW w \in Workers, AbandonDependency(w)
    PROVE  IInv'
<1>1. /\ Deps' = Deps /\ UNCHANGED <<assessing, latest, outrun>>
      /\ creating' = [creating EXCEPT ![w] = Idle]
  BY DEF AbandonDependency, Deps
<1>2. Shape'
  BY <1>1 DEF IInv, Shape
<1>3. \A v \in Workers : creating'[v] # Idle => creating'[v] = creating[v]
  BY <1>1 DEF IInv, Shape
<1>4. ChecksHold' /\ EdgesOfTwo'
  BY <1>1, <1>3 DEF IInv, ChecksHold, EdgesOfTwo
<1>5. CycleOnlyByRace' /\ Assessed' /\ CycleReportedOnlyByRace'
  BY <1>1 DEF IInv, CycleOnlyByRace, Assessed, CycleReportedOnlyByRace
<1> QED BY <1>2, <1>4, <1>5 DEF IInv

\* The assessment leaves the network alone.
LEMMA AssessStep ==
    ASSUME IInv, ReadActivities \/ ReadDependencies \/ StoreAssessment \/ AbandonAssessment
    PROVE  IInv'
<1>1. Deps' = Deps /\ UNCHANGED <<lag, creating, outrun>>
  BY DEF ReadActivities, ReadDependencies, StoreAssessment, AbandonAssessment, Deps
<1>2. Shape' /\ ChecksHold' /\ EdgesOfTwo' /\ CycleOnlyByRace'
  BY <1>1 DEF IInv, Shape, ChecksHold, EdgesOfTwo, CycleOnlyByRace
<1>3. CASE ReadActivities
  <2>1. /\ assessing'.at = "activities" /\ latest' = latest
        /\ DOMAIN assessing'.dur = Live \ Outside
    BY <1>3 DEF ReadActivities
  <2> QED BY <1>1, <1>2, <2>1 DEF IInv, Assessed, CycleReportedOnlyByRace, Live
<1>4. CASE ReadDependencies
  <2> DEFINE N == DOMAIN assessing.dur
             R == ComputeCriticalPath(N, assessing.dur, ScheduleDeps)
  <2>1. assessing.at = "activities" /\ assessing' = [at |-> "computed", result |-> R] /\ latest' = latest
    BY <1>4 DEF ReadDependencies
  <2>2. N \in SUBSET Activities /\ IsFiniteSet(N)
    <3>1. N \in SUBSET Activities
      BY <2>1 DEF IInv, Assessed, Idle
    <3> QED BY <3>1, ScheduleAssumption, FS_Subset
  <2>3. DOMAIN ScheduleDeps \in SUBSET Deps
    BY DEF ScheduleDeps
  <2>4. R.cyclic => outrun
    <3> SUFFICES ASSUME ~outrun PROVE ~R.cyclic
      BY DEF IInv, Shape
    <3>1. Acyclic(Deps)
      BY DEF IInv, CycleOnlyByRace
    <3>2. Acyclic(DOMAIN ScheduleDeps) /\ DOMAIN ScheduleDeps \in SUBSET Pairs
      BY <2>3, <3>1, AcyclicSubset DEF IInv, Shape
    <3> QED BY <2>2, <3>2, ReportedCycleIsOne
  <2> HIDE DEF N, R
  <2>5. assessing'.at = "computed" /\ assessing'.result = R
    BY <2>1
  <2> QED BY <1>1, <1>2, <2>1, <2>4, <2>5 DEF IInv, Assessed, CycleReportedOnlyByRace
<1>5. CASE StoreAssessment
  <2>1. assessing.at = "computed" /\ assessing' = Idle /\ (latest' = "cycle" => assessing.result.cyclic)
    BY <1>5 DEF StoreAssessment
  <2>2. assessing.result.cyclic => outrun
    BY <2>1 DEF IInv, Assessed, Idle
  <2> QED BY <1>1, <1>2, <2>1, <2>2 DEF IInv, Assessed, CycleReportedOnlyByRace
<1>6. CASE AbandonAssessment
  BY <1>1, <1>2, <1>6 DEF AbandonAssessment, IInv, Assessed, CycleReportedOnlyByRace
<1> QED BY <1>3, <1>4, <1>5, <1>6

LEMMA NextIInv == IInv /\ [Next]_vars => IInv'
<1> SUFFICES ASSUME IInv, [Next]_vars PROVE IInv'
  OBVIOUS
<1>1. ASSUME NEW a \in Activities, NEW d \in Durations, CreateActivity(a, d) \/ UpdateActivity(a, d)
      PROVE  IInv'
  BY <1>1, DeleteStep DEF CreateActivity, UpdateActivity, Deps
<1>2. ASSUME NEW a \in Activities, DeleteActivity(a) PROVE IInv'
  BY <1>2, DeleteStep DEF DeleteActivity, Deps
<1>3. ASSUME NEW e \in Pairs, DeleteDependency(e) PROVE IInv'
  BY <1>3, DeleteStep DEF DeleteDependency, Deps
<1>4. CASE UNCHANGED vars
  BY <1>4, DeleteStep DEF vars, Deps
<1> QED BY <1>1, <1>2, <1>3, <1>4, CheckStep, InsertStep, AbandonStep, AssessStep DEF Next

-----------------------------------------------------------------------------
(* The theorems.                                                           *)

\* What the cycle check of a pending insert has found still holds, or another
\* insert has overtaken it.
THEOREM ScheduleInvariant == Spec => []IInv
<1> QED BY InitIInv, NextIInv, PTL DEF Spec

\* A network of any size has no cycle before an insert has overtaken the
\* check of another, whatever is deleted in between.
THEOREM CycleNeedsRace == Spec => []CycleOnlyByRace
<1>1. IInv => CycleOnlyByRace
  BY DEF IInv
<1> QED BY <1>1, ScheduleInvariant, PTL

\* No assessment of a network of any size reports a cycle before that.
THEOREM ReportNeedsRace == Spec => []CycleReportedOnlyByRace
<1>1. IInv => CycleReportedOnlyByRace
  BY DEF IInv
<1> QED BY <1>1, ScheduleInvariant, PTL

-----------------------------------------------------------------------------
(* The types, and what an assessment reads.                                *)

LEMMA InitTypeOK == Init => TypeOK
<1> SUFFICES ASSUME Init PROVE TypeOK
  OBVIOUS
<1>1. Deps = {} /\ lag \in [Deps -> Lags]
  BY DEF Init, Deps
<1>2. activity \in [Activities -> Durations \cup NoRow]
  BY DEF Init, NoRow
<1> QED BY <1>1, <1>2 DEF Init, TypeOK

\* The rows of activities, whose ids are none of the durations.
LEMMA LiveIs ==
    ASSUME NEW a \in Activities, activity \in [Activities -> Durations \cup NoRow]
    PROVE  a \in Live <=> activity[a] \in Durations
BY ScheduleAssumption DEF Live, NoRow

AssessingOK ==
    \/ assessing = Idle
    \/ assessing.at = "activities" /\ assessing.dur \in DurationsRead
    \/ assessing.at = "computed" /\ assessing.result \in Results

LEMMA ActivityTypeOK ==
    ASSUME TypeOK, NEW a \in Activities, NEW d \in Durations, CreateActivity(a, d) \/ UpdateActivity(a, d)
    PROVE  TypeOK'
<1>1. activity' = [activity EXCEPT ![a] = d] /\ UNCHANGED <<lag, creating, assessing, latest, outrun>>
  BY DEF CreateActivity, UpdateActivity
<1>2. activity \in [Activities -> Durations \cup NoRow] /\ activity' \in [Activities -> Durations \cup NoRow]
  BY <1>1 DEF TypeOK
<1>3. Live \subseteq Live'
  <2>1. \A b \in Activities : b \in Live <=> activity[b] \in Durations
    BY <1>2, LiveIs
  <2>2. \A b \in Activities : activity[b] \in Durations => activity'[b] \in Durations
    BY <1>1, <1>2
  <2>3. \A b \in Activities : activity'[b] \in Durations => b \in Live'
    BY ScheduleAssumption DEF Live, NoRow
  <2>4. Live \subseteq Activities
    BY DEF Live
  <2> QED BY <2>1, <2>2, <2>3, <2>4
<1>4. Deps' = Deps /\ Deps \subseteq Live \X Live /\ lag \in [Deps -> Lags]
  BY <1>1 DEF Deps, TypeOK
<1>5. Deps' \subseteq Live' \X Live' /\ lag' \in [Deps' -> Lags]
  BY <1>1, <1>3, <1>4
<1> QED BY <1>1, <1>2, <1>5 DEF TypeOK

LEMMA DeleteTypeOK ==
    ASSUME TypeOK, NEW a \in Activities, DeleteActivity(a)
    PROVE  TypeOK'
<1>1. /\ activity' = [activity EXCEPT ![a] = Deleted]
      /\ lag' = [e \in {d \in Deps : a \notin {d[1], d[2]}} |-> lag[e]]
      /\ UNCHANGED <<creating, assessing, latest, outrun>>
  BY DEF DeleteActivity
<1>2. activity \in [Activities -> Durations \cup NoRow] /\ activity' \in [Activities -> Durations \cup NoRow]
  BY <1>1 DEF TypeOK, NoRow
<1>3. \A b \in Live : b # a => b \in Live'
  BY <1>1, <1>2 DEF Live
<1>4. Deps \subseteq Live \X Live /\ lag \in [Deps -> Lags]
  BY DEF TypeOK
<1>5. Deps' = {d \in Deps : a \notin {d[1], d[2]}}
  BY <1>1 DEF Deps
<1>6. Deps' \subseteq Live' \X Live'
  BY <1>3, <1>4, <1>5
<1>7. lag' \in [Deps' -> Lags]
  BY <1>1, <1>4, <1>5
<1> QED BY <1>1, <1>2, <1>6, <1>7 DEF TypeOK

LEMMA DependencyTypeOK ==
    ASSUME TypeOK, NEW w \in Workers,
           \/ \E p, s \in Activities : CheckDependency(w, p, s)
           \/ AbandonDependency(w)
           \/ \E l \in Lags : InsertDependency(w, l)
    PROVE  TypeOK'
<1>0. creating \in [Workers -> {Idle} \cup Checked]
  BY DEF TypeOK, Checked
<1>1. ASSUME NEW p \in Activities, NEW s \in Activities, CheckDependency(w, p, s) PROVE TypeOK'
  <2>1. /\ creating' = [creating EXCEPT ![w] = [at |-> "checked", edge |-> <<p, s>>, overtaken |-> FALSE]]
        /\ UNCHANGED <<activity, lag, assessing, latest, outrun>>
    BY <1>1 DEF CheckDependency
  <2>2. creating' \in [Workers -> {Idle} \cup Checked]
    BY <1>0, <2>1 DEF Checked, Pairs
  <2> QED BY <2>1, <2>2 DEF TypeOK, Deps, Live, Checked
<1>2. CASE AbandonDependency(w)
  <2>1. creating' = [creating EXCEPT ![w] = Idle] /\ UNCHANGED <<activity, lag, assessing, latest, outrun>>
    BY <1>2 DEF AbandonDependency
  <2>2. creating' \in [Workers -> {Idle} \cup Checked]
    BY <1>0, <2>1
  <2> QED BY <2>1, <2>2 DEF TypeOK, Deps, Live, Checked
<1>3. ASSUME NEW l \in Lags, InsertDependency(w, l) PROVE TypeOK'
  <2> DEFINE e == creating[w].edge
  <2>1. /\ e \in Live \X Live
        /\ lag' = [d \in Deps \cup {e} |-> IF d = e THEN l ELSE lag[d]]
        /\ creating' = [v \in Workers |-> IF v = w \/ creating[v] = Idle THEN Idle
                                          ELSE [creating[v] EXCEPT !.overtaken = TRUE]]
        /\ outrun' = (outrun \/ (creating[w].overtaken /\ e[1] \in Descendants(e[2], Deps)))
        /\ UNCHANGED <<activity, assessing, latest>>
    BY <1>3 DEF InsertDependency
  <2>2. creating' \in [Workers -> {Idle} \cup Checked]
    <3>1. ASSUME NEW v \in Workers, creating[v] # Idle
          PROVE  [creating[v] EXCEPT !.overtaken = TRUE] \in Checked
      <4>1. creating[v] \in Checked
        BY <1>0, <3>1
      <4> QED BY <4>1 DEF Checked
    <3> QED BY <2>1, <3>1
  <2>3. Deps \subseteq Live \X Live /\ lag \in [Deps -> Lags]
    BY DEF TypeOK
  <2> HIDE DEF e
  <2>4. Deps' = Deps \cup {e} /\ lag' \in [Deps' -> Lags]
    BY <2>1, <2>3 DEF Deps
  <2>5. Live' = Live
    BY <2>1 DEF Live
  <2>6. Deps' \subseteq Live' \X Live'
    BY <2>1, <2>3, <2>4, <2>5
  <2>7. outrun' \in BOOLEAN
    BY <2>1 DEF TypeOK
  <2>8. activity' \in [Activities -> Durations \cup NoRow] /\ AssessingOK' /\ latest' \in {"none", "path", "cycle"}
    BY <2>1 DEF TypeOK, AssessingOK
  <2> QED BY <2>2, <2>4, <2>6, <2>7, <2>8 DEF TypeOK, AssessingOK, Checked
<1> QED BY <1>1, <1>2, <1>3

LEMMA DeleteDependencyTypeOK ==
    ASSUME TypeOK, NEW e \in Pairs, DeleteDependency(e)
    PROVE  TypeOK'
<1>1. lag' = [d \in Deps \ {e} |-> lag[d]] /\ UNCHANGED <<activity, creating, assessing, latest, outrun>>
  BY DEF DeleteDependency
<1>2. Deps \subseteq Live \X Live /\ lag \in [Deps -> Lags]
  BY DEF TypeOK
<1>3. Deps' = Deps \ {e} /\ lag' \in [Deps' -> Lags] /\ Live' = Live
  BY <1>1, <1>2 DEF Deps, Live
<1>4. Deps' \subseteq Live' \X Live'
  BY <1>2, <1>3
<1> QED BY <1>1, <1>3, <1>4 DEF TypeOK

\* What ReadDependencies works on.
LEMMA ReadNetwork ==
    ASSUME TypeOK, assessing.at = "activities"
    PROVE  \E N \in SUBSET (Activities \ Outside) :
              /\ IsFiniteSet(N) /\ DOMAIN assessing.dur = N /\ assessing.dur \in [N -> Int]
              /\ Known(N, ScheduleDeps) \in [DOMAIN Known(N, ScheduleDeps) -> Int]
<1>1. assessing.dur \in DurationsRead
  BY DEF TypeOK, Idle
<1>2. PICK N \in SUBSET (Activities \ Outside) : assessing.dur \in [N -> Durations]
  BY <1>1 DEF DurationsRead
<1>3. IsFiniteSet(N)
  BY <1>2, ScheduleAssumption, FS_Subset
<1>4. DOMAIN assessing.dur = N /\ assessing.dur \in [N -> Int]
  BY <1>2, ScheduleAssumption
<1>5. \A e \in Deps : lag[e] \in Int
  BY ScheduleAssumption DEF TypeOK
<1>6. DOMAIN ScheduleDeps \subseteq Deps /\ \A e \in DOMAIN ScheduleDeps : ScheduleDeps[e] = lag[e]
  BY DEF ScheduleDeps
<1>7. \A e \in DOMAIN ScheduleDeps : ScheduleDeps[e] \in Int
  BY <1>5, <1>6
<1>8. Known(N, ScheduleDeps) \in [DOMAIN Known(N, ScheduleDeps) -> Int]
  BY <1>7 DEF Known
<1> QED BY <1>3, <1>4, <1>8

LEMMA AssessTypeOK ==
    ASSUME TypeOK, ReadActivities \/ ReadDependencies \/ StoreAssessment \/ AbandonAssessment
    PROVE  TypeOK'
<1>1. UNCHANGED <<activity, lag, creating, outrun>>
  BY DEF ReadActivities, ReadDependencies, StoreAssessment, AbandonAssessment
<1>2. AssessingOK' /\ latest' \in {"none", "path", "cycle"}
  <2>0. latest \in {"none", "path", "cycle"}
    BY DEF TypeOK
  <2>1. CASE ReadActivities
    <3> DEFINE f == [a \in Live \ Outside |-> activity[a]]
    <3>1. assessing' = [at |-> "activities", dur |-> f] /\ latest' = latest
      BY <2>1 DEF ReadActivities
    <3>2. \A a \in Live : a \in Activities /\ activity[a] \in Durations
      BY LiveIs DEF TypeOK, Live
    <3>3. f \in [Live \ Outside -> Durations] /\ Live \ Outside \in SUBSET (Activities \ Outside)
      BY <3>2
    <3>4. f \in DurationsRead
      BY <3>3 DEF DurationsRead
    <3> HIDE DEF f
    <3>5. assessing'.at = "activities" /\ assessing'.dur \in DurationsRead
      BY <3>1, <3>4
    <3> QED BY <2>0, <3>1, <3>5 DEF AssessingOK
  <2>2. CASE ReadDependencies
    <3> DEFINE R == ComputeCriticalPath(DOMAIN assessing.dur, assessing.dur, ScheduleDeps)
    <3>1. assessing.at = "activities" /\ assessing' = [at |-> "computed", result |-> R] /\ latest' = latest
      BY <2>2 DEF ReadDependencies
    <3>2. PICK N \in SUBSET (Activities \ Outside) :
              /\ IsFiniteSet(N) /\ DOMAIN assessing.dur = N /\ assessing.dur \in [N -> Int]
              /\ Known(N, ScheduleDeps) \in [DOMAIN Known(N, ScheduleDeps) -> Int]
      BY <3>1, ReadNetwork
    <3>3. R \in [critical : SUBSET N, duration : Int, cyclic : BOOLEAN]
      BY <3>2, ComputesResult
    <3>4. R \in Results
      BY <3>3 DEF Results
    <3> HIDE DEF R
    <3>5. assessing'.at = "computed" /\ assessing'.result \in Results
      BY <3>1, <3>4
    <3> QED BY <2>0, <3>1, <3>5 DEF AssessingOK
  <2>3. CASE StoreAssessment \/ AbandonAssessment
    BY <2>0, <2>3 DEF StoreAssessment, AbandonAssessment, AssessingOK
  <2> QED BY <2>1, <2>2, <2>3
<1> QED BY <1>1, <1>2 DEF TypeOK, AssessingOK, Deps, Live

LEMMA NextTypeOK == TypeOK /\ [Next]_vars => TypeOK'
<1> SUFFICES ASSUME TypeOK, [Next]_vars PROVE TypeOK'
  OBVIOUS
<1>1. CASE UNCHANGED vars
  BY <1>1 DEF vars, TypeOK, Deps, Live
<1> QED BY <1>1, ActivityTypeOK, DeleteTypeOK, DependencyTypeOK, DeleteDependencyTypeOK, AssessTypeOK DEF Next

\* Durations, lags and edges keep their types and every dependency joins two
\* rows that are there, whatever is deleted.  What is computed from the rows
\* that two statements read is a set of the schedule's activities and a number
\* of days, for negative durations and lags too.
THEOREM ScheduleTypeOK == Spec => []TypeOK
<1> QED BY InitTypeOK, NextTypeOK, PTL DEF Spec

\* On every network that an assessment reads, of any size, without a negative
\* duration or lag, Kahn's order and the two passes find exactly the activities
\* on a longest path and its length, or report a cycle and there is one.
THEOREM AssessmentIsLongestPath == Spec => CriticalPathIsLongest
<1> DEFINE A == ReadDependencies =>
                    LET N == DOMAIN assessing.dur
                        L == Known(N, ScheduleDeps)
                    IN N # {} /\ (\A n \in N : assessing.dur[n] >= 0) /\ (\A e \in DOMAIN L : L[e] >= 0) =>
                          assessing'.result = IF HasCycle(N, DOMAIN L) THEN Nothing(TRUE)
                                              ELSE LongestPath(N, assessing.dur, L)
<1>1. ASSUME TypeOK, ReadDependencies, NEW N, NEW dur, NEW all, NEW L, NEW E,
             dur = assessing.dur, N = DOMAIN dur, all = ScheduleDeps, L = Known(N, all), E = DOMAIN L,
             N # {}, \A n \in N : dur[n] >= 0, \A e \in E : L[e] >= 0
      PROVE  assessing'.result = IF HasCycle(N, E) THEN Nothing(TRUE) ELSE LongestPath(N, dur, L)
  <2>1. assessing.at = "activities" /\ assessing'.result = ComputeCriticalPath(N, dur, all)
    BY <1>1 DEF ReadDependencies
  <2>2. N \in SUBSET Activities /\ IsFiniteSet(N) /\ dur \in [N -> Int] /\ L \in [E -> Int]
    <3>1. PICK M \in SUBSET (Activities \ Outside) :
              /\ IsFiniteSet(M) /\ DOMAIN assessing.dur = M /\ assessing.dur \in [M -> Int]
              /\ Known(M, ScheduleDeps) \in [DOMAIN Known(M, ScheduleDeps) -> Int]
      BY <1>1, <2>1, ReadNetwork
    <3>2. M = N
      BY <1>1, <3>1
    <3> QED BY <1>1, <3>1, <3>2
  <2>3. NonNegative(E, L) /\ NonNegative(N, dur)
    BY <1>1 DEF NonNegative
  <2>4. Network(N, E, dur, L)
    <3>1. E \subseteq N \X N
      BY <1>1 DEF Known
    <3> QED BY <2>2, <3>1 DEF Network
  <2>5. L = Known(N, all) /\ N \subseteq Activities /\ N # {}
    BY <1>1, <2>2
  <2>6. ComputeCriticalPath(N, dur, all) = IF HasCycle(N, E) THEN Nothing(TRUE) ELSE LongestPath(N, dur, L)
    BY <2>3, <2>4, <2>5, ComputesLongestPath
  <2> QED BY <2>1, <2>6
<1>2. [][A]_vars <=> CriticalPathIsLongest
  BY DEF CriticalPathIsLongest
<1> HIDE DEF A
<1>3. TypeOK => [A]_vars
  <2>1. TypeOK => A
    BY <1>1 DEF A
  <2> QED BY <2>1
<1> QED BY <1>2, <1>3, ScheduleTypeOK, PTL
=============================================================================
