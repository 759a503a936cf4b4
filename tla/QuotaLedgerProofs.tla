-------------------------- MODULE QuotaLedgerProofs --------------------------
(***************************************************************************)
(* The properties of QuotaLedger for any users, routes, weights, limits,   *)
(* requests and months.  Four invariants, each on its own group of         *)
(* variables: domains, the bound on what goes past a limit, the accounts,  *)
(* and the messages with the locks that keep them single.                  *)
(***************************************************************************)
EXTENDS QuotaLedger, FiniteLemmas

-----------------------------------------------------------------------------
(* Helpers.                                                                *)

LEMMA OneMoreIs ==
    \A n \in 0..2 : OneMore(n) = IF n = 2 THEN 2 ELSE n + 1
<1> SUFFICES ASSUME NEW n \in 0..2 PROVE OneMore(n) = IF n = 2 THEN 2 ELSE n + 1
  OBVIOUS
<1> DEFINE S == {2, n + 1}
           m == IF n = 2 THEN 2 ELSE n + 1
<1>1. m \in S /\ \A y \in S : m <= y
  OBVIOUS
<1>2. \A x \in S : (\A y \in S : x <= y) => x = m
  OBVIOUS
<1>3. Min(S) = m
  BY <1>1, <1>2 DEF Min
<1> QED BY <1>3 DEF OneMore

LEMMA MaxOfBands ==
    \A B \in SUBSET Bands : B # {} => Max(B) \in B
<1> SUFFICES ASSUME NEW B \in SUBSET Bands, B # {} PROVE Max(B) \in B
  OBVIOUS
<1>1. IsFiniteSet(Bands)
  <2>1. IsFiniteSet({80}) /\ Bands = {80} \cup {95}
    <3>1. Bands = {80} \cup {95}
      BY DEF Bands
    <3> QED BY <3>1, FS_Singleton
  <2> QED BY <2>1, FS_AddElement
<1>2. IsFiniteSet(B)
  BY <1>1, FS_Subset
<1>3. B \subseteq Int
  BY DEF Bands
<1> QED BY <1>2, <1>3, MaxOfFinite

LEMMA HigherIs ==
    \A a, b \in Limit : /\ Higher(a, b) \in Limit
                        /\ Higher(a, b) # Unlimited => /\ a # Unlimited /\ b # Unlimited
                                                       /\ a <= Higher(a, b) /\ b <= Higher(a, b)
<1> SUFFICES ASSUME NEW a \in Limits, NEW b \in Limits
             PROVE  Max({a, b}) \in {a, b} /\ a <= Max({a, b}) /\ b <= Max({a, b})
  BY DataAssumption DEF Higher, Limit
<1>1. IsFiniteSet({a, b})
  <2>1. IsFiniteSet({a}) /\ {a, b} = {a} \cup {b}
    BY FS_Singleton
  <2> QED BY <2>1, FS_AddElement
<1>2. {a, b} \subseteq Int
  BY DataAssumption
<1> QED BY <1>1, <1>2, MaxOfFinite

Costs == {Cost(n, r) : n \in Tokens, r \in Routes} \cup {0}

LEMMA CostIsNat == \A n \in Tokens, r \in Routes : Cost(n, r) \in Nat
<1> SUFFICES ASSUME NEW n \in Tokens, NEW r \in Routes PROVE Cost(n, r) \in Nat
  OBVIOUS
<1>1. n \in Nat /\ Weight[r] \in Nat
  BY DataAssumption
<1> QED BY <1>1 DEF Cost

LEMMA MaxCostIs ==
    MaxCost \in Nat /\ \A n \in Tokens, r \in Routes : Cost(n, r) <= MaxCost
<1> DEFINE C == {Cost(n, r) : n \in Tokens, r \in Routes}
           f == [x \in Tokens \X Routes |-> Cost(x[1], x[2])]
<1>1. IsFiniteSet(C)
  <2>1. f \in Surjection(Tokens \X Routes, C)
    <3>1. ASSUME NEW c \in C PROVE \E x \in Tokens \X Routes : f[x] = c
      <4>1. PICK n \in Tokens, r \in Routes : c = Cost(n, r)
        OBVIOUS
      <4>2. <<n, r>> \in Tokens \X Routes /\ f[<<n, r>>] = c
        BY <4>1
      <4> QED BY <4>2
    <3>2. f \in [Tokens \X Routes -> C]
      OBVIOUS
    <3> QED BY <3>1, <3>2 DEF Surjection
  <2>2. IsFiniteSet(Tokens \X Routes)
    BY DataAssumption, FS_Product
  <2> QED BY <2>1, <2>2, FS_Surjection
<1>2. IsFiniteSet(C \cup {0})
  BY <1>1, FS_AddElement
<1>3. C \cup {0} \subseteq Nat
  BY CostIsNat
<1>4. \A n \in Tokens, r \in Routes : Cost(n, r) \in C \cup {0}
  OBVIOUS
<1>5. MaxCost = Max(C \cup {0})
  BY DEF MaxCost
<1> HIDE DEF C
<1>6. Max(C \cup {0}) \in C \cup {0} /\ \A x \in C \cup {0} : x <= Max(C \cup {0})
  BY <1>2, <1>3, MaxOfFinite
<1> QED BY <1>3, <1>4, <1>5, <1>6

LEMMA CrossedBands == \A t, l : Crossed(t, l) \subseteq Bands
BY DEF Crossed

LEMMA RequestFields ==
    ASSUME NEW q \in Requests
    PROVE  /\ q.at \in {"idle", "calling", "recorded"}
           /\ q.at = "idle" <=> q = Idle
           /\ q.at # "idle" => q.user \in Users /\ q.month \in Months
           /\ q.at = "calling" => q.route \in Routes
           /\ q.at = "recorded" => /\ q.cost \in Nat /\ q.ok \in BOOLEAN /\ q.limit \in Limit
                                   /\ q.todo \subseteq Bands /\ q.won \subseteq Bands
BY DEF Requests, Idle

-----------------------------------------------------------------------------
(* The domains of the columns.                                             *)

LEMMA InitType == Init => TypeOK
<1> SUFFICES ASSUME Init PROVE TypeOK
  OBVIOUS
<1>1. 1 \in Months
  BY BoundAssumption DEF Months
<1>2. req \in [Workers -> Requests] /\ ops \in OpsStates
  BY <1>1 DEF Init, Requests, OpsStates, OpsIdle
<1>3. /\ month \in Months /\ limit \in Limit /\ sent \subseteq Bands \X Months
      /\ streamed \subseteq Months /\ forgotten \in BOOLEAN
  BY <1>1 DEF Init
<1>4. calls \in 0..MaxCalls
  BY BoundAssumption DEF Init
<1>5. /\ used \in [Months -> Nat] /\ user_used \in [Months -> [Users -> Nat]]
      /\ answered \in [Months -> Nat] /\ refunded \in [Months -> Nat]
      /\ ceiling \in [Months -> Limit] /\ mails \in [Bands \X Months -> 0..2]
  BY DEF Init
<1> QED BY <1>2, <1>3, <1>4, <1>5 DEF TypeOK

LEMMA TypeOfRequest ==
    ASSUME TypeOK, NEW w \in Workers,
           \/ \E u \in Users, r \in Routes : CheckQuota(w, u, r)
           \/ StreamAnswer(w) \/ EndFree(w) \/ RollbackRequest(w)
    PROVE  TypeOK'
<1>1. req' \in [Workers -> Requests]
  <2>1. req \in [Workers -> Requests] /\ month \in Months
    BY DEF TypeOK
  <2>2. \/ Become(w, Idle)
        \/ \E u \in Users, r \in Routes :
              Become(w, [at |-> "calling", user |-> u, route |-> r, month |-> month])
    BY DEF CheckQuota, StreamAnswer, EndFree, RollbackRequest
  <2> QED BY <2>1, <2>2 DEF Become, Requests
<1>2. UNCHANGED <<month, limit, used, user_used, sent, ops, answered, ceiling, mails, refunded>>
  BY DEF CheckQuota, StreamAnswer, EndFree, RollbackRequest, tables, ghosts
<1>3. streamed' \subseteq Months
  <2>1. req[w] \in Requests /\ streamed \subseteq Months
    BY DEF TypeOK
  <2>2. streamed' = streamed \/ (req[w].at = "calling" /\ streamed' = streamed \cup {req[w].month})
    BY DEF CheckQuota, StreamAnswer, EndFree, RollbackRequest, ghosts
  <2> QED BY <2>1, <2>2, RequestFields
<1>4. calls' \in 0..MaxCalls
  <2>1. calls \in 0..MaxCalls /\ MaxCalls \in Nat
    BY BoundAssumption DEF TypeOK
  <2>2. calls' = calls \/ (calls < MaxCalls /\ calls' = calls + 1)
    BY DEF CheckQuota, StreamAnswer, EndFree, RollbackRequest, ghosts
  <2> QED BY <2>1, <2>2
<1>5. forgotten' \in BOOLEAN
  BY DEF TypeOK, CheckQuota, StreamAnswer, EndFree, RollbackRequest, ghosts
<1> QED BY <1>1, <1>2, <1>3, <1>4, <1>5 DEF TypeOK

LEMMA TypeOfCommit ==
    ASSUME TypeOK, NEW w \in Workers, CommitRequest(w)
    PROVE  TypeOK'
<1> DEFINE q == req[w]
           B == {<<b, q.month>> : b \in q.won}
<1>1. /\ q \in Requests /\ q.month \in Months /\ q.user \in Users /\ q.cost \in Nat
      /\ B \subseteq Bands \X Months
  BY RequestFields DEF TypeOK, CommitRequest
<1>2. /\ used' = [used EXCEPT ![q.month] = @ + q.cost]
      /\ user_used' = [user_used EXCEPT ![q.month][q.user] = @ + q.cost]
      /\ answered' = [answered EXCEPT ![q.month] = @ + q.cost]
      /\ sent' = sent \cup B
      /\ req' = [req EXCEPT ![w] = Idle]
      /\ UNCHANGED <<month, limit, ops, calls, streamed, refunded, ceiling, mails, forgotten>>
  BY DEF CommitRequest, Become
<1> HIDE DEF q, B
<1>3. used' \in [Months -> Nat] /\ answered' \in [Months -> Nat]
  BY <1>1, <1>2 DEF TypeOK
<1>4. user_used' \in [Months -> [Users -> Nat]]
  BY <1>1, <1>2 DEF TypeOK
<1>5. req' \in [Workers -> Requests]
  BY <1>2 DEF TypeOK, Requests
<1> QED BY <1>1, <1>2, <1>3, <1>4, <1>5 DEF TypeOK

LEMMA TypeOfRecord ==
    ASSUME TypeOK, NEW w \in Workers,
           \/ \E n \in Tokens, ok \in BOOLEAN : RecordUsage(w, n, ok)
           \/ NotifyBand(w)
    PROVE  TypeOK'
<1> USE DEF TypeOK, tables, ghosts
<1>1. ASSUME NEW n \in Tokens, NEW ok \in BOOLEAN, RecordUsage(w, n, ok) PROVE TypeOK'
  <2>1. req[w].user \in Users /\ req[w].month \in Months /\ req[w].route \in Routes
    BY <1>1, RequestFields DEF RecordUsage
  <2>2. Cost(n, req[w].route) \in Nat
    BY <2>1, CostIsNat
  <2> DEFINE B == Unsent(Crossed(used[req[w].month] + Cost(n, req[w].route), limit), req[w].month)
  <2>3. B \subseteq Bands
    BY CrossedBands DEF Unsent
  <2> DEFINE q == [at |-> "recorded", user |-> req[w].user, month |-> req[w].month,
                   cost |-> Cost(n, req[w].route), ok |-> ok, limit |-> limit, todo |-> B, won |-> {}]
  <2>4. req' = [req EXCEPT ![w] = q] /\ UNCHANGED <<month, tables, ops, ghosts>>
    BY <1>1 DEF RecordUsage, Become
  <2> HIDE DEF B
  <2>5. q \in Requests
    BY <2>1, <2>2, <2>3 DEF Requests
  <2> QED BY <2>4, <2>5
<1>2. CASE NotifyBand(w)
  <2> DEFINE q == req[w]
             b == Max(q.todo)
  <2>1. q \in Requests /\ q.at = "recorded" /\ q.month \in Months /\ b \in Bands
    BY <1>2, RequestFields, MaxOfBands DEF NotifyBand
  <2>2. /\ \/ req' = [req EXCEPT ![w] = [q EXCEPT !.todo = @ \ {b}]] /\ UNCHANGED mails
           \/ /\ req' = [req EXCEPT ![w] = [q EXCEPT !.todo = @ \ {b}, !.won = @ \cup {b}]]
              /\ mails' = [mails EXCEPT ![<<b, q.month>>] = OneMore(@)]
        /\ UNCHANGED <<month, tables, ops, calls, answered, streamed, refunded, ceiling, forgotten>>
    BY <1>2 DEF NotifyBand, Become
  <2> HIDE DEF q, b
  <2>3. /\ [q EXCEPT !.todo = @ \ {b}] \in Requests
        /\ [q EXCEPT !.todo = @ \ {b}, !.won = @ \cup {b}] \in Requests
    BY <2>1 DEF Requests, Idle
  <2>4. req' \in [Workers -> Requests]
    BY <2>2, <2>3
  <2>5. mails' \in [Bands \X Months -> 0..2]
    <3>1. <<b, q.month>> \in Bands \X Months /\ mails \in [Bands \X Months -> 0..2]
      BY <2>1
    <3>2. mails[<<b, q.month>>] \in 0..2
      BY <3>1
    <3>3. OneMore(mails[<<b, q.month>>]) \in 0..2
      BY <3>2, OneMoreIs
    <3> QED BY <2>2, <3>1, <3>3
  <2> QED BY <2>2, <2>4, <2>5
<1> QED BY <1>1, <1>2

LEMMA TypeOfOperation ==
    ASSUME TypeOK, Operate \/ NewMonth
    PROVE  TypeOK'
<1> USE DEF TypeOK, tables, ghosts
<1>1. ASSUME NEW l \in Limit, SetLimit(l) PROVE TypeOK'
  <2>1. ceiling' \in [Months -> Limit]
    BY <1>1, HigherIs DEF SetLimit
  <2> QED BY <1>1, <2>1 DEF SetLimit, OpsStates
<1>2. CASE ReadAfterSet
  <2> DEFINE B == Unsent(Crossed(used[month], limit), month)
  <2>1. B \subseteq Bands
    BY CrossedBands DEF Unsent
  <2>2. ops' = [at |-> "notify", month |-> month, won |-> {}, todo |-> B] /\ UNCHANGED <<month, tables, req, ghosts>>
    BY <1>2 DEF ReadAfterSet
  <2> HIDE DEF B
  <2> QED BY <2>1, <2>2 DEF OpsStates
<1>3. CASE NotifyAfterSet
  <2> DEFINE b == Max(ops.todo)
  <2>1. ops \in OpsStates /\ ops.month \in Months /\ b \in Bands
    BY <1>3, MaxOfBands DEF NotifyAfterSet, OpsStates
  <2>2. /\ \/ ops' = [ops EXCEPT !.todo = @ \ {b}] /\ UNCHANGED mails
           \/ /\ ops' = [ops EXCEPT !.todo = @ \ {b}, !.won = @ \cup {b}]
              /\ mails' = [mails EXCEPT ![<<b, ops.month>>] = OneMore(@)]
        /\ UNCHANGED <<month, tables, req, calls, answered, streamed, refunded, ceiling, forgotten>>
    BY <1>3 DEF NotifyAfterSet
  <2> HIDE DEF b
  <2>3. /\ [ops EXCEPT !.todo = @ \ {b}] \in OpsStates
        /\ [ops EXCEPT !.todo = @ \ {b}, !.won = @ \cup {b}] \in OpsStates
    BY <2>1 DEF OpsStates
  <2>4. mails' \in [Bands \X Months -> 0..2]
    <3>1. <<b, ops.month>> \in Bands \X Months /\ mails \in [Bands \X Months -> 0..2]
      BY <2>1
    <3>2. mails[<<b, ops.month>>] \in 0..2
      BY <3>1
    <3>3. OneMore(mails[<<b, ops.month>>]) \in 0..2
      BY <3>2, OneMoreIs
    <3> QED BY <2>2, <3>1, <3>3
  <2> QED BY <2>2, <2>3, <2>4
<1>4. CASE EndSet
  <2>1. OpsIdle \in OpsStates
    BY BoundAssumption DEF OpsIdle, OpsStates, Months
  <2> QED BY <1>4, <2>1 DEF EndSet
<1>5. CASE ResetUsage
  BY <1>5 DEF ResetUsage
<1>6. CASE NewMonth
  <2>1. month' \in Months
    BY <1>6, BoundAssumption DEF NewMonth, Months
  <2> QED BY <1>6, <2>1 DEF NewMonth
<1> QED BY <1>1, <1>2, <1>3, <1>4, <1>5, <1>6 DEF Operate

LEMMA NextType == TypeOK /\ [Next]_vars => TypeOK'
<1>1. ASSUME TypeOK, UNCHANGED vars PROVE TypeOK'
  BY <1>1 DEF TypeOK, vars, tables, ghosts
<1> QED BY <1>1, TypeOfRequest, TypeOfCommit, TypeOfRecord, TypeOfOperation DEF Next, Serve

\* Usage rows, requests and the operator's command keep their types, whatever
\* is recorded, rolled back and reset beside each other.
THEOREM QuotaType == Spec => []TypeOK
<1> QED BY InitType, NextType, PTL DEF Spec

-----------------------------------------------------------------------------
(* How far usage goes past a limit.  A request in flight counts with the   *)
(* most that it may cost: the check lets it in below the limit, and its    *)
(* commit only turns what it counts for into usage.                        *)

InFlight(m) == {w \in Workers : req[w].at # "idle" /\ req[w].month = m}

Load(m) == used[m] + MaxCost * Cardinality(InFlight(m))

Within(m) ==
    \/ ceiling[m] = Unlimited
    \/ Load(m) < ceiling[m] + MaxCost * Cardinality(Workers)
    \/ (used[m] = 0 /\ InFlight(m) = {})

CeilingIsAbove ==
    \A m \in Months : m >= month /\ ceiling[m] # Unlimited => limit # Unlimited /\ limit <= ceiling[m]

FutureIsFree == \A m \in Months : m > month => used[m] = 0 /\ InFlight(m) = {}

CostsAreBounded == \A w \in Workers : req[w].at = "recorded" => req[w].cost <= MaxCost

BoundInv ==
    /\ CeilingIsAbove
    /\ FutureIsFree
    /\ CostsAreBounded
    /\ \A m \in Months : Within(m)

LEMMA Product ==
    ASSUME NEW k \in Nat, NEW n \in Nat
    PROVE  /\ k * n \in Nat
           /\ k * (n + 1) = k * n + k
           /\ \A p \in Nat : n <= p => k * n <= k * p
OBVIOUS

LEMMA MonthsAreNat == Months \subseteq Nat
BY DEF Months

LEMMA InFlightIsFinite ==
    \A m : /\ IsFiniteSet(InFlight(m)) /\ Cardinality(InFlight(m)) \in Nat
           /\ Cardinality(InFlight(m)) <= Cardinality(Workers) /\ Cardinality(Workers) \in Nat
<1> SUFFICES ASSUME NEW m
             PROVE  /\ IsFiniteSet(InFlight(m)) /\ Cardinality(InFlight(m)) \in Nat
                    /\ Cardinality(InFlight(m)) <= Cardinality(Workers) /\ Cardinality(Workers) \in Nat
  OBVIOUS
<1>1. IsFiniteSet(Workers) /\ InFlight(m) \in SUBSET Workers
  BY DataAssumption DEF InFlight
<1> QED BY <1>1, FS_Subset, FS_CardinalityType

LEMMA InitBound == Init => BoundInv
<1> SUFFICES ASSUME Init PROVE BoundInv
  OBVIOUS
<1>1. \A m \in Months : used[m] = 0 /\ InFlight(m) = {}
  BY DEF Init, InFlight, Idle
<1>2. CeilingIsAbove
  BY DataAssumption DEF Init, CeilingIsAbove, Limit
<1>3. CostsAreBounded
  BY DEF Init, CostsAreBounded, Idle
<1> QED BY <1>1, <1>2, <1>3 DEF BoundInv, FutureIsFree, Within

\* Neither usage nor the set of requests in flight changes.
LEMMA BoundOfQuiet ==
    ASSUME BoundInv, UNCHANGED <<month, limit, used, ceiling>>,
           \A w \in Workers : /\ req'[w].at # "idle" <=> req[w].at # "idle"
                              /\ req[w].at # "idle" => req'[w].month = req[w].month,
           CostsAreBounded'
    PROVE  BoundInv'
<1>1. \A m : InFlight(m)' = InFlight(m)
  BY DEF InFlight
<1>2. \A m \in Months : Within(m)'
  BY <1>1 DEF BoundInv, Within, Load
<1>3. CeilingIsAbove' /\ FutureIsFree'
  BY <1>1 DEF BoundInv, CeilingIsAbove, FutureIsFree
<1> QED BY <1>2, <1>3 DEF BoundInv

LEMMA BoundOfCheck ==
    ASSUME TypeOK, BoundInv, NEW w \in Workers, NEW u \in Users, NEW r \in Routes, CheckQuota(w, u, r)
    PROVE  BoundInv'
<1>1. /\ req' = [req EXCEPT ![w] = [at |-> "calling", user |-> u, route |-> r, month |-> month]]
      /\ req[w] = Idle
      /\ limit # Unlimited => used[month] < limit
      /\ UNCHANGED <<month, limit, used, ceiling>>
  BY DEF CheckQuota, Become, tables
<1>2. /\ InFlight(month)' = InFlight(month) \cup {w}
      /\ \A m \in Months \ {month} : InFlight(m)' = InFlight(m)
  BY <1>1 DEF InFlight, TypeOK, Idle
<1>3. \A m \in Months \ {month} : Within(m)'
  BY <1>1, <1>2 DEF BoundInv, Within, Load
<1>4. Within(month)'
  <2>1. CASE ceiling[month] = Unlimited
    BY <1>1, <2>1 DEF Within
  <2>2. CASE ceiling[month] # Unlimited
    <3>1. used[month] < limit /\ limit <= ceiling[month] /\ limit \in Nat /\ ceiling[month] \in Nat
          /\ used[month] \in Nat
      <4>1. month \in Months /\ month >= month /\ used[month] \in Nat
            /\ limit \in Limit /\ ceiling[month] \in Limit
        BY MonthsAreNat DEF TypeOK
      <4>2. limit # Unlimited /\ limit <= ceiling[month]
        BY <2>2, <4>1 DEF BoundInv, CeilingIsAbove
      <4> QED BY <1>1, <2>2, <4>1, <4>2, DataAssumption DEF Limit
    <3> DEFINE n == Cardinality(InFlight(month)')
               p == Cardinality(Workers)
    <3>2. n \in Nat /\ n <= p /\ p \in Nat
      <4>1. InFlight(month)' \in SUBSET Workers /\ IsFiniteSet(Workers)
        BY DataAssumption DEF InFlight
      <4> QED BY <4>1, FS_Subset, FS_CardinalityType
    <3> HIDE DEF n, p
    <3>3. MaxCost * n \in Nat /\ MaxCost * p \in Nat /\ MaxCost * n <= MaxCost * p
      BY <3>2, MaxCostIs, Product
    <3>4. used[month] + MaxCost * n < ceiling[month] + MaxCost * p
      BY <3>1, <3>3
    <3> QED BY <1>1, <3>4 DEF Within, Load, n, p
  <2> QED BY <2>1, <2>2
<1>5. CeilingIsAbove' /\ CostsAreBounded'
  BY <1>1 DEF BoundInv, CeilingIsAbove, CostsAreBounded, TypeOK
<1>6. FutureIsFree'
  <2> SUFFICES ASSUME NEW m \in Months, m > month PROVE used[m] = 0 /\ InFlight(m)' = {}
    BY <1>1 DEF FutureIsFree
  <2>1. m # month
    BY MonthsAreNat DEF TypeOK
  <2>2. used[m] = 0 /\ InFlight(m) = {}
    BY DEF BoundInv, FutureIsFree
  <2>3. InFlight(m)' = InFlight(m)
    BY <1>2, <2>1
  <2> QED BY <2>2, <2>3
<1>7. \A m \in Months : Within(m)'
  <2> SUFFICES ASSUME NEW m \in Months, m = month PROVE Within(m)'
    BY <1>3
  <2>1. m = month'
    BY <1>1
  <2> QED BY <1>1, <1>4, <2>1 DEF Within, Load, InFlight
<1> QED BY <1>5, <1>6, <1>7 DEF BoundInv

\* A request leaves, and adds at most MaxCost to the usage of its month.
LEMMA BoundOfLeave ==
    ASSUME TypeOK, BoundInv, NEW w \in Workers, req[w].at # "idle", req' = [req EXCEPT ![w] = Idle],
           UNCHANGED <<month, limit, ceiling>>,
           NEW t \in Months, t = req[w].month,
           NEW c \in Nat, c <= MaxCost, used' = [used EXCEPT ![t] = @ + c]
    PROVE  BoundInv'
<1>2. \A m : InFlight(m)' = InFlight(m) \ {w}
  BY DEF InFlight, TypeOK, Idle
<1>3. w \in InFlight(t) /\ \A m : m # t => w \notin InFlight(m)
  BY DEF InFlight
<1>4. \A m \in Months \ {t} : used'[m] = used[m] /\ InFlight(m)' = InFlight(m)
  <2> SUFFICES ASSUME NEW m \in Months \ {t} PROVE used'[m] = used[m] /\ InFlight(m)' = InFlight(m)
    OBVIOUS
  <2>1. InFlight(m)' = InFlight(m) \ {w} /\ w \notin InFlight(m)
    BY <1>2, <1>3
  <2>2. used'[m] = used[m]
    BY DEF TypeOK
  <2> QED BY <2>1, <2>2
<1>5. \A m \in Months \ {t} : Within(m)'
  BY <1>4 DEF BoundInv, Within, Load
<1>6. Within(t)'
  <2>1. CASE ceiling[t] = Unlimited
    BY <2>1 DEF Within
  <2>2. CASE ceiling[t] # Unlimited
    <3> DEFINE n == Cardinality(InFlight(t))
               p == Cardinality(Workers)
    <3>1. used[t] + MaxCost * n < ceiling[t] + MaxCost * p
      BY <1>3, <2>2 DEF BoundInv, Within, Load
    <3>2. Cardinality(InFlight(t)') = n - 1 /\ n \in Nat /\ n - 1 \in Nat /\ p \in Nat
      <4>1. IsFiniteSet(InFlight(t)) /\ n \in Nat /\ p \in Nat
        BY InFlightIsFinite
      <4>2. IsFiniteSet(InFlight(t) \ {w}) /\ Cardinality(InFlight(t) \ {w}) = n - 1
        BY <1>3, <4>1, FS_RemoveElement
      <4>3. Cardinality(InFlight(t) \ {w}) \in Nat
        BY <4>2, FS_CardinalityType
      <4>4. InFlight(t)' = InFlight(t) \ {w}
        BY <1>2
      <4> QED BY <4>1, <4>2, <4>3, <4>4
    <3>3. used'[t] = used[t] + c /\ used[t] \in Nat /\ ceiling[t] \in Nat
      BY <2>2, DataAssumption DEF TypeOK, Limit
    <3> HIDE DEF n, p
    <3>4. MaxCost * n = MaxCost * (n - 1) + MaxCost /\ MaxCost * n \in Nat /\ MaxCost * (n - 1) \in Nat
          /\ MaxCost * p \in Nat
      <4>1. \A i \in Nat : i + 1 = n => MaxCost * n = MaxCost * i + MaxCost
        BY MaxCostIs, Product
      <4>2. (n - 1) + 1 = n
        BY <3>2
      <4> QED BY <3>2, <4>1, <4>2, MaxCostIs, Product
    <3>5. used'[t] + MaxCost * (n - 1) < ceiling[t] + MaxCost * p
      BY <3>1, <3>3, <3>4, MaxCostIs
    <3> QED BY <3>2, <3>5 DEF Within, Load, n, p
  <2> QED BY <2>1, <2>2
<1>7. CeilingIsAbove' /\ CostsAreBounded'
  BY DEF BoundInv, CeilingIsAbove, CostsAreBounded, TypeOK, Idle
<1>8. FutureIsFree'
  <2> SUFFICES ASSUME NEW m \in Months, m > month PROVE used'[m] = 0 /\ InFlight(m)' = {}
    BY DEF FutureIsFree
  <2>1. InFlight(m) = {} /\ used[m] = 0
    BY DEF BoundInv, FutureIsFree
  <2>2. m # t
    BY <1>3, <2>1
  <2> QED BY <1>4, <2>1, <2>2
<1> QED BY <1>5, <1>6, <1>7, <1>8 DEF BoundInv

LEMMA BoundOfSet ==
    ASSUME TypeOK, BoundInv, NEW l \in Limit, SetLimit(l)
    PROVE  BoundInv'
<1>1. /\ limit' = l
      /\ ceiling' = [m \in Months |->
                      IF m = month THEN Higher(ceiling[m], l) ELSE IF m > month THEN l ELSE ceiling[m]]
      /\ UNCHANGED <<month, used, req>>
  BY DEF SetLimit
<1>2. ceiling[month] \in Limit /\ month \in Months
  BY DEF TypeOK
<1>3. \A m : InFlight(m)' = InFlight(m)
  BY <1>1 DEF InFlight
<1>4. ASSUME NEW m \in Months PROVE Within(m)'
  <2>1. CASE m > month
    BY <1>1, <1>3, <2>1 DEF BoundInv, FutureIsFree, Within
  <2>2. CASE m < month
    <3>1. ceiling'[m] = ceiling[m]
      BY <1>1, <1>2, <2>2 DEF Months
    <3> QED BY <1>1, <1>3, <3>1 DEF BoundInv, Within, Load
  <2>3. CASE m = month
    <3>1. ceiling'[m] = Higher(ceiling[m], l)
      BY <1>1, <2>3
    <3>2. CASE ceiling'[m] = Unlimited
      BY <3>2 DEF Within
    <3>3. CASE ceiling'[m] # Unlimited
      <4>1. ceiling[m] # Unlimited /\ ceiling[m] <= ceiling'[m] /\ ceiling[m] \in Nat /\ ceiling'[m] \in Nat
        <5>1. ceiling[m] \in Limit /\ Higher(ceiling[m], l) \in Limit /\ Higher(ceiling[m], l) # Unlimited
          BY <1>2, <2>3, <3>1, <3>3, HigherIs
        <5>2. ceiling[m] # Unlimited /\ ceiling[m] <= Higher(ceiling[m], l)
          BY <5>1, HigherIs
        <5> QED BY <3>1, <5>1, <5>2, DataAssumption DEF Limit
      <4> DEFINE k == MaxCost * Cardinality(InFlight(m))
                 p == MaxCost * Cardinality(Workers)
      <4>2. k \in Nat /\ p \in Nat /\ used[m] \in Nat
        BY InFlightIsFinite, MaxCostIs, Product DEF TypeOK
      <4>3. used[m] + k < ceiling[m] + p \/ (used[m] = 0 /\ InFlight(m) = {})
        BY <4>1 DEF BoundInv, Within, Load
      <4> HIDE DEF k, p
      <4>4. used[m] + k < ceiling'[m] + p \/ (used[m] = 0 /\ InFlight(m) = {})
        BY <4>1, <4>2, <4>3
      <4> QED BY <1>1, <1>3, <4>4 DEF Within, Load, k, p
    <3> QED BY <3>2, <3>3
  <2> QED BY <1>2, <2>1, <2>2, <2>3 DEF Months
<1>5. CeilingIsAbove'
  <2> SUFFICES ASSUME NEW m \in Months, m >= month, ceiling'[m] # Unlimited
               PROVE  l # Unlimited /\ l <= ceiling'[m]
    BY <1>1 DEF CeilingIsAbove
  <2>1. CASE m = month
    <3>1. ceiling'[m] = Higher(ceiling[month], l)
      BY <1>1, <2>1
    <3>2. ceiling[month] \in Limit /\ Higher(ceiling[month], l) # Unlimited
      BY <1>2, <3>1
    <3>3. l # Unlimited /\ l <= Higher(ceiling[month], l)
      BY <3>2, HigherIs
    <3> QED BY <3>1, <3>3
  <2>2. CASE m > month
    <3>1. m # month
      BY <1>2, <2>2, MonthsAreNat
    <3>2. ceiling'[m] = l
      BY <1>1, <2>2, <3>1
    <3> QED BY <3>2, DataAssumption DEF Limit
  <2> QED BY <1>2, <2>1, <2>2 DEF Months
<1>6. FutureIsFree' /\ CostsAreBounded'
  BY <1>1, <1>3 DEF BoundInv, FutureIsFree, CostsAreBounded
<1> QED BY <1>4, <1>5, <1>6 DEF BoundInv

LEMMA BoundOfReset ==
    ASSUME TypeOK, BoundInv, ResetUsage
    PROVE  BoundInv'
<1>1. /\ used' = [used EXCEPT ![month] = 0]
      /\ UNCHANGED <<month, limit, ceiling, req>>
  BY DEF ResetUsage
<1>2. \A m : InFlight(m)' = InFlight(m)
  BY <1>1 DEF InFlight
<1>3. ASSUME NEW m \in Months PROVE Within(m)'
  <2>1. used'[m] = used[m] \/ used'[m] = 0
    BY <1>1 DEF TypeOK
  <2>2. CASE ceiling[m] = Unlimited
    BY <1>1, <2>2 DEF Within
  <2>3. CASE ceiling[m] # Unlimited
    <3> DEFINE k == MaxCost * Cardinality(InFlight(m))
               p == MaxCost * Cardinality(Workers)
    <3>1. k \in Nat /\ p \in Nat /\ used[m] \in Nat /\ ceiling[m] \in Nat
      BY <2>3, InFlightIsFinite, MaxCostIs, Product, DataAssumption DEF TypeOK, Limit
    <3>2. used[m] + k < ceiling[m] + p \/ (used[m] = 0 /\ InFlight(m) = {})
      BY <2>3 DEF BoundInv, Within, Load
    <3> HIDE DEF k, p
    <3>3. used'[m] + k < ceiling[m] + p \/ (used'[m] = 0 /\ InFlight(m) = {})
      BY <2>1, <3>1, <3>2
    <3> QED BY <1>1, <1>2, <3>3 DEF Within, Load, k, p
  <2> QED BY <2>2, <2>3
<1>4. CeilingIsAbove' /\ CostsAreBounded'
  BY <1>1 DEF BoundInv, CeilingIsAbove, CostsAreBounded
<1>5. FutureIsFree'
  BY <1>1, <1>2 DEF BoundInv, FutureIsFree, TypeOK, Months
<1> QED BY <1>3, <1>4, <1>5 DEF BoundInv

LEMMA BoundOfMonth ==
    ASSUME TypeOK, BoundInv, NewMonth
    PROVE  BoundInv'
<1>1. month' = month + 1 /\ UNCHANGED <<limit, used, ceiling, req>> /\ month \in Int
  BY DEF NewMonth, tables, ghosts, TypeOK, Months
<1>2. \A m : InFlight(m)' = InFlight(m)
  BY <1>1 DEF InFlight
<1>3. \A m \in Months : Within(m)'
  BY <1>1, <1>2 DEF BoundInv, Within, Load
<1>4. CeilingIsAbove' /\ FutureIsFree' /\ CostsAreBounded'
  BY <1>1, <1>2 DEF BoundInv, CeilingIsAbove, FutureIsFree, CostsAreBounded, Months
<1> QED BY <1>3, <1>4 DEF BoundInv

LEMMA NextBound == TypeOK /\ BoundInv /\ [Next]_vars => BoundInv'
<1> SUFFICES ASSUME TypeOK, BoundInv, [Next]_vars PROVE BoundInv'
  OBVIOUS
<1>1. ASSUME NEW w \in Workers, StreamAnswer(w) \/ EndFree(w) \/ RollbackRequest(w) PROVE BoundInv'
  <2>1. /\ req[w].at # "idle" /\ req' = [req EXCEPT ![w] = Idle]
        /\ UNCHANGED <<month, limit, ceiling, used>>
    BY <1>1 DEF StreamAnswer, EndFree, RollbackRequest, Become, tables, ghosts
  <2>2. PICK t \in Months : t = req[w].month
    BY <2>1, RequestFields DEF TypeOK
  <2>3. used' = [used EXCEPT ![t] = @ + 0]
    <3>1. used[t] \in Nat /\ used[t] + 0 = used[t] /\ used \in [Months -> Nat]
      BY DEF TypeOK
    <3> QED BY <2>1, <3>1
  <2>4. 0 \in Nat /\ 0 <= MaxCost
    BY MaxCostIs
  <2> QED BY <2>1, <2>2, <2>3, <2>4, BoundOfLeave
<1>2. ASSUME NEW w \in Workers, CommitRequest(w) PROVE BoundInv'
  <2>1. PICK t \in Months, c \in Nat : t = req[w].month /\ c = req[w].cost
    BY <1>2, RequestFields DEF CommitRequest, TypeOK
  <2>2. /\ req[w].at # "idle" /\ req' = [req EXCEPT ![w] = Idle]
        /\ UNCHANGED <<month, limit, ceiling>>
        /\ used' = [used EXCEPT ![t] = @ + c] /\ c <= MaxCost
    BY <1>2, <2>1 DEF CommitRequest, Become, BoundInv, CostsAreBounded
  <2> QED BY <2>1, <2>2, BoundOfLeave
<1>3. ASSUME NEW w \in Workers, NEW n \in Tokens, NEW ok \in BOOLEAN, RecordUsage(w, n, ok) PROVE BoundInv'
  <2>1. /\ req' = [req EXCEPT ![w] = req'[w]] /\ req[w].at = "calling"
        /\ req'[w].at = "recorded" /\ req'[w].month = req[w].month /\ req'[w].cost = Cost(n, req[w].route)
        /\ UNCHANGED <<month, limit, used, ceiling>>
    BY <1>3 DEF RecordUsage, Become, tables, ghosts, TypeOK
  <2>2. Cost(n, req[w].route) <= MaxCost
    BY <2>1, MaxCostIs, RequestFields DEF TypeOK
  <2>3. CostsAreBounded'
    BY <2>1, <2>2 DEF BoundInv, CostsAreBounded, TypeOK
  <2> QED BY <2>1, <2>3, BoundOfQuiet DEF TypeOK
<1>4. ASSUME NEW w \in Workers, NotifyBand(w) PROVE BoundInv'
  <2>1. /\ req[w].at = "recorded" /\ req[w] \in Requests
        /\ \/ req' = [req EXCEPT ![w] = [req[w] EXCEPT !.todo = @ \ {Max(req[w].todo)}]]
           \/ req' = [req EXCEPT ![w] = [req[w] EXCEPT !.todo = @ \ {Max(req[w].todo)},
                                                       !.won = @ \cup {Max(req[w].todo)}]]
        /\ UNCHANGED <<month, limit, used, ceiling>>
    BY <1>4 DEF NotifyBand, Become, tables, ghosts, TypeOK
  <2> DEFINE b == Max(req[w].todo)
  <2>2. \A q \in Requests : q.at = "recorded" =>
           LET q1 == [q EXCEPT !.todo = @ \ {b}]
               q2 == [q EXCEPT !.todo = @ \ {b}, !.won = @ \cup {b}]
           IN /\ q1.at = "recorded" /\ q1.month = q.month /\ q1.cost = q.cost
              /\ q2.at = "recorded" /\ q2.month = q.month /\ q2.cost = q.cost
    BY DEF Requests, Idle
  <2> HIDE DEF b
  <2>3. /\ req'[w].at = "recorded" /\ req'[w].month = req[w].month /\ req'[w].cost = req[w].cost
        /\ \A v \in Workers \ {w} : req'[v] = req[v]
    BY <2>1, <2>2 DEF TypeOK, b
  <2>4. CostsAreBounded'
    BY <2>1, <2>3 DEF BoundInv, CostsAreBounded
  <2> QED BY <2>1, <2>3, <2>4, BoundOfQuiet
<1>5. CASE \/ ReadAfterSet \/ NotifyAfterSet \/ EndSet
           \/ UNCHANGED vars
  <2>1. UNCHANGED <<month, limit, used, ceiling, req>>
    BY <1>5 DEF ReadAfterSet, NotifyAfterSet, EndSet, vars, tables, ghosts
  <2>2. CostsAreBounded'
    BY <2>1 DEF BoundInv, CostsAreBounded
  <2> QED BY <2>1, <2>2, BoundOfQuiet
<1> QED BY <1>1, <1>2, <1>3, <1>4, <1>5, BoundOfCheck, BoundOfSet, BoundOfReset, BoundOfMonth
        DEF Next, Serve, Operate

\* Whatever the weights, limits, resets and the number of requests, a month
\* exceeds its highest limit by less than a request per worker.
THEOREM OvershootIsBounded == Spec => []OvershootBounded
<1>1. TypeOK /\ BoundInv => OvershootBounded
  <2> SUFFICES ASSUME TypeOK, BoundInv, NEW m \in Months, ceiling[m] # Unlimited
               PROVE  used[m] < ceiling[m] + Cardinality(Workers) * MaxCost \/ used[m] = 0
    BY DEF OvershootBounded
  <2> DEFINE k == MaxCost * Cardinality(InFlight(m))
             p == MaxCost * Cardinality(Workers)
  <2>1. k \in Nat /\ p \in Nat /\ used[m] \in Nat /\ ceiling[m] \in Nat
    BY InFlightIsFinite, MaxCostIs, Product, DataAssumption DEF TypeOK, Limit
  <2>2. used[m] + k < ceiling[m] + p \/ used[m] = 0
    BY DEF BoundInv, Within, Load
  <2>3. p = Cardinality(Workers) * MaxCost
    BY MaxCostIs, InFlightIsFinite
  <2> HIDE DEF k, p
  <2> QED BY <2>1, <2>2, <2>3
<1> QED BY <1>1, InitBound, NextBound, QuotaType, PTL DEF Spec

-----------------------------------------------------------------------------
(* The accounts.  Only a commit and a reset write them.                    *)

LEMMA AccountsOfCommit ==
    ASSUME TypeOK, AccountsAgree, NEW w \in Workers, CommitRequest(w)
    PROVE  AccountsAgree'
<1>1. PICK t \in Months, u \in Users, c \in Nat : t = req[w].month /\ u = req[w].user /\ c = req[w].cost
  BY RequestFields DEF CommitRequest, TypeOK
<1>2. /\ used' = [used EXCEPT ![t] = @ + c]
      /\ user_used' = [user_used EXCEPT ![t][u] = @ + c]
      /\ answered' = [answered EXCEPT ![t] = @ + c]
      /\ refunded' = refunded
  BY <1>1 DEF CommitRequest
<1>3. ASSUME NEW m \in Months \ {t}
      PROVE  used'[m] + refunded'[m] = UserTotal(m)' /\ used'[m] + refunded'[m] = answered'[m]
  <2>1. user_used'[m] = user_used[m] /\ used'[m] = used[m] /\ answered'[m] = answered[m]
    BY <1>2 DEF TypeOK
  <2> QED BY <1>2, <2>1 DEF AccountsAgree, UserTotal
<1>4. used'[t] + refunded'[t] = UserTotal(t)' /\ used'[t] + refunded'[t] = answered'[t]
  <2> DEFINE f == user_used[t]
             h == user_used'[t]
  <2>1. /\ \A x \in Users : f[x] \in Int /\ h[x] \in Int
        /\ \A x \in Users \ {u} : h[x] = f[x]
        /\ h[u] = f[u] + c /\ f[u] \in Int
    BY <1>2 DEF TypeOK
  <2> HIDE DEF f, h
  <2>2. SumFunctionOnSet(h, Users) = SumFunctionOnSet(f, Users) + h[u] - f[u]
    BY <2>1, DataAssumption, SumOfChanged
  <2>3. used'[t] = used[t] + c /\ answered'[t] = answered[t] + c
    BY <1>2 DEF TypeOK
  <2>4. used[t] + refunded[t] = SumFunctionOnSet(f, Users) /\ used[t] + refunded[t] = answered[t]
    BY DEF AccountsAgree, UserTotal, f
  <2>5. used[t] \in Nat /\ refunded[t] \in Nat /\ answered[t] \in Nat
    BY DEF TypeOK
  <2>6. used'[t] + refunded'[t] = SumFunctionOnSet(h, Users)
    BY <1>2, <2>1, <2>2, <2>3, <2>4, <2>5
  <2>7. used'[t] + refunded'[t] = answered'[t]
    BY <1>2, <2>3, <2>4, <2>5
  <2> QED BY <2>6, <2>7 DEF UserTotal, h
<1> QED BY <1>3, <1>4 DEF AccountsAgree

LEMMA NextAccounts == TypeOK /\ AccountsAgree /\ [Next]_vars => AccountsAgree'
<1> SUFFICES ASSUME TypeOK, AccountsAgree, [Next]_vars PROVE AccountsAgree'
  OBVIOUS
<1>1. CASE ResetUsage
  <2>1. /\ used' = [used EXCEPT ![month] = 0]
        /\ refunded' = [refunded EXCEPT ![month] = @ + used[month]]
        /\ UNCHANGED <<user_used, answered>>
    BY <1>1 DEF ResetUsage
  <2>2. ASSUME NEW m \in Months PROVE used'[m] + refunded'[m] = used[m] + refunded[m]
    BY <2>1 DEF TypeOK
  <2> QED BY <2>1, <2>2 DEF AccountsAgree, UserTotal
<1>2. CASE UNCHANGED <<used, user_used, refunded, answered>>
  BY <1>2 DEF AccountsAgree, UserTotal
<1>3. ASSUME NEW w \in Workers, Serve(w), ~CommitRequest(w) PROVE UNCHANGED <<used, user_used, refunded, answered>>
  BY <1>3 DEF Serve, CheckQuota, StreamAnswer, RecordUsage, NotifyBand, RollbackRequest, EndFree, tables, ghosts
<1>4. ASSUME Operate \/ NewMonth, ~ResetUsage PROVE UNCHANGED <<used, user_used, refunded, answered>>
  BY <1>4 DEF Operate, NewMonth, SetLimit, ReadAfterSet, NotifyAfterSet, EndSet, tables, ghosts
<1>5. CASE UNCHANGED vars
  BY <1>2, <1>5 DEF vars, tables, ghosts
<1> QED BY <1>1, <1>2, <1>3, <1>4, <1>5, AccountsOfCommit DEF Next

\* The organisation's row, its users' rows and the answers tell one story,
\* for any users, weights, failures and resets.
THEOREM AccountsAlwaysAgree == Spec => []AccountsAgree
<1>1. Init => AccountsAgree
  <2> SUFFICES ASSUME Init, NEW m \in Months
               PROVE  used[m] + refunded[m] = UserTotal(m) /\ used[m] + refunded[m] = answered[m]
    BY DEF AccountsAgree
  <2>1. user_used[m] = [u \in Users |-> 0]
    BY DEF Init
  <2>2. SumFunctionOnSet([u \in Users |-> 0], Users) = 0
    BY DataAssumption, SumOfZeros
  <2>3. UserTotal(m) = 0
    BY <2>1, <2>2 DEF UserTotal
  <2>4. used[m] = 0 /\ refunded[m] = 0 /\ answered[m] = 0
    BY DEF Init
  <2> QED BY <2>3, <2>4
<1> QED BY <1>1, NextAccounts, QuotaType, PTL DEF Spec

-----------------------------------------------------------------------------
(* The messages.  Who holds a band holds it alone, because a month's usage *)
(* row has one writer at a time and a notification's key one inserter.     *)

WonBy(w, b, m) == req[w].at = "recorded" /\ req[w].month = m /\ b \in req[w].won
OpsWon(b, m) == ops.month = m /\ b \in ops.won

\* What is sent, or about to be, was mailed; and nothing else, and once,
\* unless a rollback has forgotten a message.
MailOf(b, m) ==
    /\ \A v, w \in Workers : WonBy(v, b, m) /\ WonBy(w, b, m) => v = w
    /\ \A w \in Workers : ~(WonBy(w, b, m) /\ OpsWon(b, m))
    /\ BandLocked(b, m) => <<b, m>> \notin sent
    /\ BandLocked(b, m) \/ <<b, m>> \in sent => mails[<<b, m>>] > 0
    /\ ~forgotten => \/ mails[<<b, m>>] = 0
                     \/ (mails[<<b, m>>] = 1 /\ (BandLocked(b, m) \/ <<b, m>> \in sent))

UsageAlone ==
    \A v, w \in Workers :
        req[v].at = "recorded" /\ req[w].at = "recorded" /\ req[v].month = req[w].month => v = w

OpsWinsOnlyNotifying == ops.at # "notify" => ops.won = {}

\* Every band that a request's usage reaches is on its list, or was dealt with.
Considered(w) ==
    req[w].at = "recorded" =>
        LET q == req[w] IN
        \A b \in Crossed(used[q.month] + q.cost, q.limit) :
            b \in q.todo \cup q.won \/ <<b, q.month>> \in sent

MailInv ==
    /\ UsageAlone
    /\ OpsWinsOnlyNotifying
    /\ \A b \in Bands, m \in Months : MailOf(b, m)
    /\ \A w \in Workers : Considered(w)

LEMMA BandLockedIs ==
    \A b, m : BandLocked(b, m) <=> (\E w \in Workers : WonBy(w, b, m)) \/ OpsWon(b, m)
BY DEF BandLocked, WonBy, OpsWon

LEMMA InitMail == Init => MailInv
<1> SUFFICES ASSUME Init PROVE MailInv
  OBVIOUS
<1>1. UsageAlone /\ OpsWinsOnlyNotifying /\ \A w \in Workers : Considered(w)
  BY DEF Init, UsageAlone, OpsWinsOnlyNotifying, Considered, Idle, OpsIdle
<1>2. ASSUME NEW b \in Bands, NEW m \in Months PROVE MailOf(b, m)
  <2>1. ~BandLocked(b, m) /\ <<b, m>> \notin sent /\ mails[<<b, m>>] = 0
    BY DEF Init, BandLocked, Idle, OpsIdle
  <2>2. \A w \in Workers : ~WonBy(w, b, m)
    BY DEF Init, WonBy, Idle
  <2> QED BY <2>1, <2>2 DEF MailOf
<1> QED BY <1>1, <1>2 DEF MailInv

\* Nothing about a band and month changes, except that a rollback elsewhere
\* may be forgotten.
LEMMA MailOfQuiet ==
    ASSUME NEW b, NEW m, MailOf(b, m),
           \A w \in Workers : WonBy(w, b, m)' <=> WonBy(w, b, m),
           OpsWon(b, m)' <=> OpsWon(b, m),
           <<b, m>> \in sent' <=> <<b, m>> \in sent,
           mails'[<<b, m>>] = mails[<<b, m>>],
           ~forgotten' => ~forgotten
    PROVE  MailOf(b, m)'
<1>1. BandLocked(b, m)' <=> BandLocked(b, m)
  BY BandLockedIs DEF BandLocked, WonBy, OpsWon
<1> QED BY <1>1 DEF MailOf

\* Where rows and requests stay as they are.
LEMMA ConsideredOfQuiet ==
    ASSUME NEW w \in Workers, Considered(w), req'[w] = req[w],
           req[w].at = "recorded" => used'[req[w].month] = used[req[w].month],
           sent \subseteq sent'
    PROVE  Considered(w)'
BY DEF Considered

\* A request without a row of its own, before and after.
LEMMA MailOfPlain ==
    ASSUME TypeOK, MailInv, NEW w \in Workers,
           \/ \E u \in Users, r \in Routes : CheckQuota(w, u, r)
           \/ StreamAnswer(w) \/ EndFree(w)
    PROVE  MailInv'
<1>1. /\ req[w].at # "recorded" /\ req'[w].at # "recorded"
      /\ \A v \in Workers \ {w} : req'[v] = req[v]
      /\ UNCHANGED <<used, sent, ops, mails, forgotten>>
  BY DEF CheckQuota, StreamAnswer, EndFree, Become, Idle, tables, ghosts, TypeOK
<1>2. UsageAlone' /\ OpsWinsOnlyNotifying'
  BY <1>1 DEF MailInv, UsageAlone, OpsWinsOnlyNotifying
<1>3. ASSUME NEW b \in Bands, NEW m \in Months PROVE MailOf(b, m)'
  <2>1. \A v \in Workers : WonBy(v, b, m)' <=> WonBy(v, b, m)
    BY <1>1 DEF WonBy
  <2>2. OpsWon(b, m)' <=> OpsWon(b, m)
    BY <1>1 DEF OpsWon
  <2> QED BY <1>1, <2>1, <2>2, MailOfQuiet DEF MailInv
<1>4. ASSUME NEW v \in Workers PROVE Considered(v)'
  BY <1>1 DEF MailInv, Considered
<1> QED BY <1>2, <1>3, <1>4 DEF MailInv

LEMMA MailOfRecord ==
    ASSUME TypeOK, MailInv, NEW w \in Workers, NEW n \in Tokens, NEW ok \in BOOLEAN, RecordUsage(w, n, ok)
    PROVE  MailInv'
<1> DEFINE c == Cost(n, req[w].route)
           B == Unsent(Crossed(used[req[w].month] + c, limit), req[w].month)
<1>1. /\ req[w].at = "calling"
      /\ \A v \in Workers : req[v].at = "recorded" => req[v].month # req[w].month
      /\ req' = [req EXCEPT ![w] =
                   [at |-> "recorded", user |-> req[w].user, month |-> req[w].month, cost |-> c, ok |-> ok,
                    limit |-> limit, todo |-> B, won |-> {}]]
      /\ UNCHANGED <<used, sent, ops, mails, forgotten>>
  BY DEF RecordUsage, Become, UsageLocked, tables, ghosts
<1> HIDE DEF c
<1>2. /\ req'[w].at = "recorded" /\ req'[w].month = req[w].month /\ req'[w].won = {} /\ req'[w].todo = B
      /\ req'[w].cost = c /\ req'[w].limit = limit
      /\ \A v \in Workers \ {w} : req'[v] = req[v]
  BY <1>1 DEF TypeOK
<1>3. UsageAlone' /\ OpsWinsOnlyNotifying'
  BY <1>1, <1>2 DEF MailInv, UsageAlone, OpsWinsOnlyNotifying
<1>4. ASSUME NEW b \in Bands, NEW m \in Months PROVE MailOf(b, m)'
  <2>1. \A v \in Workers : WonBy(v, b, m)' <=> WonBy(v, b, m)
    BY <1>1, <1>2 DEF WonBy
  <2>2. OpsWon(b, m)' <=> OpsWon(b, m)
    BY <1>1 DEF OpsWon
  <2> QED BY <1>1, <2>1, <2>2, MailOfQuiet DEF MailInv
<1>5. ASSUME NEW v \in Workers PROVE Considered(v)'
  <2>1. CASE v = w
    <3>1. \A b \in Crossed(used[req[w].month] + c, limit) : b \in B \/ <<b, req[w].month>> \in sent
      BY DEF Unsent
    <3> HIDE DEF B
    <3> QED BY <1>1, <1>2, <2>1, <3>1 DEF Considered
  <2>2. CASE v # w
    BY <1>1, <1>2, <2>2 DEF MailInv, Considered
  <2> QED BY <2>1, <2>2
<1> QED BY <1>3, <1>4, <1>5 DEF MailInv

\* One more holder of a band that has none and was not sent.
LEMMA MailOfWinner ==
    ASSUME TypeOK, NEW b \in Bands, NEW m \in Months, MailOf(b, m),
           ~BandLocked(b, m), <<b, m>> \notin sent, sent' = sent, forgotten' = forgotten,
           mails'[<<b, m>>] = OneMore(mails[<<b, m>>]),
           \/ \E w \in Workers : /\ WonBy(w, b, m)' /\ ~OpsWon(b, m)'
                                 /\ \A v \in Workers \ {w} : ~WonBy(v, b, m)'
           \/ OpsWon(b, m)' /\ \A v \in Workers : ~WonBy(v, b, m)'
    PROVE  MailOf(b, m)'
<1>1. mails[<<b, m>>] \in 0..2 /\ (~forgotten => mails[<<b, m>>] = 0)
  BY DEF TypeOK, MailOf
<1>2. mails'[<<b, m>>] > 0 /\ (~forgotten => mails'[<<b, m>>] = 1)
  BY <1>1, OneMoreIs
<1>3. BandLocked(b, m)'
  BY BandLockedIs DEF BandLocked, WonBy, OpsWon
<1>4. \A v, w \in Workers : WonBy(v, b, m)' /\ WonBy(w, b, m)' => v = w
  OBVIOUS
<1>5. \A w \in Workers : ~(WonBy(w, b, m)' /\ OpsWon(b, m)')
  OBVIOUS
<1> QED BY <1>2, <1>3, <1>4, <1>5 DEF MailOf

LEMMA MailOfNotify ==
    ASSUME TypeOK, MailInv, NEW w \in Workers, NotifyBand(w)
    PROVE  MailInv'
<1>1. PICK b \in Bands, t \in Months : b = Max(req[w].todo) /\ t = req[w].month
  BY RequestFields, MaxOfBands DEF NotifyBand, TypeOK
<1>2. /\ req[w].at = "recorded" /\ ~BandLocked(b, t)
      /\ \/ /\ <<b, t>> \in sent
            /\ req' = [req EXCEPT ![w] = [req[w] EXCEPT !.todo = @ \ {b}]]
            /\ mails' = mails
         \/ /\ <<b, t>> \notin sent
            /\ req' = [req EXCEPT ![w] = [req[w] EXCEPT !.todo = @ \ {b}, !.won = @ \cup {b}]]
            /\ mails' = [mails EXCEPT ![<<b, t>>] = OneMore(@)]
      /\ UNCHANGED <<used, sent, ops, forgotten>>
  BY <1>1 DEF NotifyBand, Become, tables
<1>3. \A q \in Requests : q.at = "recorded" =>
         LET q1 == [q EXCEPT !.todo = @ \ {b}]
             q2 == [q EXCEPT !.todo = @ \ {b}, !.won = @ \cup {b}]
         IN /\ q1.at = "recorded" /\ q1.month = q.month /\ q1.cost = q.cost /\ q1.limit = q.limit
            /\ q1.todo = q.todo \ {b} /\ q1.won = q.won
            /\ q2.at = "recorded" /\ q2.month = q.month /\ q2.cost = q.cost /\ q2.limit = q.limit
            /\ q2.todo = q.todo \ {b} /\ q2.won = q.won \cup {b}
  BY DEF Requests, Idle
<1>4. /\ req'[w].at = "recorded" /\ req'[w].month = t /\ req'[w].cost = req[w].cost /\ req'[w].limit = req[w].limit
      /\ req'[w].todo = req[w].todo \ {b}
      /\ \A v \in Workers \ {w} : req'[v] = req[v]
      /\ \/ <<b, t>> \in sent /\ req'[w].won = req[w].won /\ mails' = mails
         \/ /\ <<b, t>> \notin sent /\ req'[w].won = req[w].won \cup {b}
            /\ mails' = [mails EXCEPT ![<<b, t>>] = OneMore(@)]
  <2>1. req[w] \in Requests /\ req \in [Workers -> Requests]
    BY DEF TypeOK
  <2> DEFINE q1 == [req[w] EXCEPT !.todo = @ \ {b}]
             q2 == [req[w] EXCEPT !.todo = @ \ {b}, !.won = @ \cup {b}]
  <2>2. /\ q1.at = "recorded" /\ q1.month = t /\ q1.cost = req[w].cost /\ q1.limit = req[w].limit
        /\ q1.todo = req[w].todo \ {b} /\ q1.won = req[w].won
        /\ q2.at = "recorded" /\ q2.month = t /\ q2.cost = req[w].cost /\ q2.limit = req[w].limit
        /\ q2.todo = req[w].todo \ {b} /\ q2.won = req[w].won \cup {b}
    BY <1>1, <1>2, <1>3, <2>1
  <2> HIDE DEF q1, q2
  <2>3. \/ <<b, t>> \in sent /\ req' = [req EXCEPT ![w] = q1] /\ mails' = mails
        \/ /\ <<b, t>> \notin sent /\ req' = [req EXCEPT ![w] = q2]
           /\ mails' = [mails EXCEPT ![<<b, t>>] = OneMore(@)]
    BY <1>2 DEF q1, q2
  <2> QED BY <2>1, <2>2, <2>3
<1>5. UsageAlone' /\ OpsWinsOnlyNotifying'
  BY <1>1, <1>2, <1>4 DEF MailInv, UsageAlone, OpsWinsOnlyNotifying
<1>6. ASSUME NEW a \in Bands, NEW m \in Months PROVE MailOf(a, m)'
  <2>1. OpsWon(a, m)' <=> OpsWon(a, m)
    BY <1>2 DEF OpsWon
  <2>2. CASE <<a, m>> # <<b, t>> \/ <<b, t>> \in sent
    <3>1. \A v \in Workers : WonBy(v, a, m)' <=> WonBy(v, a, m)
      BY <1>1, <1>2, <1>4, <2>2 DEF WonBy
    <3>2. mails'[<<a, m>>] = mails[<<a, m>>]
      BY <1>4, <2>2 DEF TypeOK
    <3> QED BY <1>2, <2>1, <3>1, <3>2, MailOfQuiet DEF MailInv
  <2>3. CASE a = b /\ m = t /\ <<b, t>> \notin sent
    <3>1. ~BandLocked(a, m)
      BY <1>2, <2>3
    <3>2. ~OpsWon(a, m)' /\ \A v \in Workers \ {w} : ~WonBy(v, a, m)'
      <4>1. ~OpsWon(a, m) /\ \A v \in Workers : ~WonBy(v, a, m)
        BY <3>1, BandLockedIs
      <4> QED BY <1>4, <2>1, <4>1 DEF WonBy
    <3>3. WonBy(w, a, m)'
      BY <1>4, <2>3 DEF WonBy
    <3>4. mails'[<<a, m>>] = OneMore(mails[<<a, m>>])
      BY <1>4, <2>3 DEF TypeOK
    <3> QED BY <1>2, <2>3, <3>1, <3>2, <3>3, <3>4, MailOfWinner DEF MailInv
  <2> QED BY <2>2, <2>3
<1>7. ASSUME NEW v \in Workers PROVE Considered(v)'
  BY <1>1, <1>2, <1>4 DEF MailInv, Considered
<1> QED BY <1>5, <1>6, <1>7 DEF MailInv

LEMMA MailOfCommit ==
    ASSUME TypeOK, MailInv, NEW w \in Workers, CommitRequest(w)
    PROVE  MailInv'
<1>1. PICK t \in Months, c \in Nat : t = req[w].month /\ c = req[w].cost
  BY RequestFields DEF CommitRequest, TypeOK
<1>2. /\ req[w].at = "recorded" /\ req'[w].at = "idle"
      /\ \A v \in Workers \ {w} : req'[v] = req[v]
      /\ used' = [used EXCEPT ![t] = @ + c]
      /\ sent' = sent \cup {<<b, t>> : b \in req[w].won}
      /\ UNCHANGED <<ops, mails, forgotten>>
  BY <1>1 DEF CommitRequest, Become, Idle, TypeOK
<1>3. \A v \in Workers \ {w} : req[v].at = "recorded" => req[v].month # t
  BY <1>1, <1>2 DEF MailInv, UsageAlone
<1>4. UsageAlone' /\ OpsWinsOnlyNotifying'
  BY <1>2 DEF MailInv, UsageAlone, OpsWinsOnlyNotifying
<1>5. ASSUME NEW b \in Bands, NEW m \in Months PROVE MailOf(b, m)'
  <2>1. OpsWon(b, m)' <=> OpsWon(b, m)
    BY <1>2 DEF OpsWon
  <2>2. CASE ~WonBy(w, b, m)
    <3>1. \A v \in Workers : WonBy(v, b, m)' <=> WonBy(v, b, m)
      BY <1>2, <2>2 DEF WonBy
    <3>2. <<b, m>> \in sent' <=> <<b, m>> \in sent
      BY <1>1, <1>2, <2>2 DEF WonBy
    <3> QED BY <1>2, <2>1, <3>1, <3>2, MailOfQuiet DEF MailInv
  <2>3. CASE WonBy(w, b, m)
    <3>1. MailOf(b, m) /\ BandLocked(b, m)
      BY <2>3, BandLockedIs DEF MailInv
    <3>2. \A v \in Workers : ~WonBy(v, b, m)'
      BY <1>2, <2>3, <3>1 DEF WonBy, MailOf
    <3>3. ~OpsWon(b, m)'
      BY <2>1, <2>3, <3>1 DEF MailOf
    <3>4. ~BandLocked(b, m)'
      BY <3>2, <3>3 DEF BandLocked, WonBy, OpsWon
    <3>5. <<b, m>> \in sent'
      BY <1>1, <1>2, <2>3 DEF WonBy
    <3> QED BY <1>2, <3>1, <3>2, <3>4, <3>5 DEF MailOf
  <2> QED BY <2>2, <2>3
<1>6. ASSUME NEW v \in Workers PROVE Considered(v)'
  <2>1. CASE v = w
    BY <1>2, <2>1 DEF Considered
  <2>2. CASE v # w
    <3>1. req[v].at = "recorded" => used'[req[v].month] = used[req[v].month]
      <4>1. req[v].at = "recorded" => req[v].month \in Months /\ req[v].month # t
        BY <1>3, <2>2, RequestFields DEF TypeOK
      <4> QED BY <1>2, <4>1 DEF TypeOK
    <3> QED BY <1>2, <2>2, <3>1, ConsideredOfQuiet DEF MailInv
  <2> QED BY <2>1, <2>2
<1> QED BY <1>4, <1>5, <1>6 DEF MailInv

\* The messages of a transaction that rolls back are forgotten.
LEMMA MailOfRollback ==
    ASSUME TypeOK, MailInv, NEW w \in Workers, RollbackRequest(w)
    PROVE  MailInv'
<1>1. /\ req[w].at = "recorded" /\ req'[w].at = "idle"
      /\ \A v \in Workers \ {w} : req'[v] = req[v]
      /\ forgotten' = (forgotten \/ req[w].won # {})
      /\ UNCHANGED <<used, sent, ops, mails>>
  BY DEF RollbackRequest, Become, Idle, TypeOK, tables
<1>2. UsageAlone' /\ OpsWinsOnlyNotifying'
  BY <1>1 DEF MailInv, UsageAlone, OpsWinsOnlyNotifying
<1>3. ASSUME NEW b \in Bands, NEW m \in Months PROVE MailOf(b, m)'
  <2>1. OpsWon(b, m)' <=> OpsWon(b, m)
    BY <1>1 DEF OpsWon
  <2>2. \A v \in Workers : WonBy(v, b, m)' => WonBy(v, b, m)
    BY <1>1 DEF WonBy
  <2>3. BandLocked(b, m)' => BandLocked(b, m)
    BY <2>1, <2>2, BandLockedIs DEF BandLocked, WonBy, OpsWon
  <2>4. CASE forgotten'
    BY <1>1, <2>1, <2>2, <2>3, <2>4 DEF MailInv, MailOf
  <2>5. CASE ~forgotten'
    <3>1. \A v \in Workers : WonBy(v, b, m)' <=> WonBy(v, b, m)
      BY <1>1, <2>5 DEF WonBy
    <3> QED BY <1>1, <2>1, <2>5, <3>1, MailOfQuiet DEF MailInv
  <2> QED BY <2>4, <2>5
<1>4. ASSUME NEW v \in Workers PROVE Considered(v)'
  BY <1>1 DEF MailInv, Considered
<1> QED BY <1>2, <1>3, <1>4 DEF MailInv

\* The operator's command.
LEMMA MailOfSet ==
    ASSUME TypeOK, MailInv,
           \/ \E l \in Limit : SetLimit(l)
           \/ ReadAfterSet \/ EndSet
    PROVE  MailInv'
<1>1. /\ ops'.won = {} /\ (forgotten' <=> (forgotten \/ (ops.won # {})))
      /\ UNCHANGED <<used, sent, req, mails>>
  <2>1. ASSUME NEW l \in Limit, SetLimit(l)
        PROVE  /\ ops'.won = {} /\ ops.won = {} /\ (forgotten' <=> forgotten)
               /\ UNCHANGED <<used, sent, req, mails>>
    BY <2>1 DEF SetLimit, MailInv, OpsWinsOnlyNotifying, TypeOK
  <2>2. ASSUME ReadAfterSet
        PROVE  /\ ops'.won = {} /\ ops.won = {} /\ (forgotten' <=> forgotten)
               /\ UNCHANGED <<used, sent, req, mails>>
    BY <2>2 DEF ReadAfterSet, tables, ghosts, MailInv, OpsWinsOnlyNotifying
  <2>3. ASSUME EndSet
        PROVE  /\ ops'.won = {} /\ (forgotten' <=> (forgotten \/ (ops.won # {})))
               /\ UNCHANGED <<used, sent, req, mails>>
    BY <2>3 DEF EndSet, OpsIdle, tables
  <2> QED BY <2>1, <2>2, <2>3
<1>2. UsageAlone' /\ OpsWinsOnlyNotifying'
  BY <1>1 DEF MailInv, UsageAlone, OpsWinsOnlyNotifying
<1>3. ASSUME NEW b \in Bands, NEW m \in Months PROVE MailOf(b, m)'
  <2>1. ~OpsWon(b, m)' /\ \A v \in Workers : WonBy(v, b, m)' <=> WonBy(v, b, m)
    BY <1>1 DEF OpsWon, WonBy
  <2>2. BandLocked(b, m)' => BandLocked(b, m)
    BY <2>1, BandLockedIs DEF BandLocked, WonBy, OpsWon
  <2>3. CASE OpsWon(b, m)
    BY <1>1, <2>1, <2>2, <2>3 DEF MailInv, MailOf, OpsWon
  <2>4. CASE ~OpsWon(b, m)
    BY <1>1, <2>1, <2>4, MailOfQuiet DEF MailInv
  <2> QED BY <2>3, <2>4
<1>4. ASSUME NEW v \in Workers PROVE Considered(v)'
  BY <1>1 DEF MailInv, Considered
<1> QED BY <1>2, <1>3, <1>4 DEF MailInv

LEMMA MailOfNotifySet ==
    ASSUME TypeOK, MailInv, NotifyAfterSet
    PROVE  MailInv'
<1>1. PICK b \in Bands, t \in Months : b = Max(ops.todo) /\ t = ops.month
  BY MaxOfBands DEF NotifyAfterSet, TypeOK, OpsStates
<1>2. /\ ops.at = "notify" /\ ~BandLocked(b, t)
      /\ \/ /\ <<b, t>> \in sent
            /\ ops' = [ops EXCEPT !.todo = @ \ {b}]
            /\ mails' = mails
         \/ /\ <<b, t>> \notin sent
            /\ ops' = [ops EXCEPT !.todo = @ \ {b}, !.won = @ \cup {b}]
            /\ mails' = [mails EXCEPT ![<<b, t>>] = OneMore(@)]
      /\ UNCHANGED <<used, sent, req, forgotten>>
  BY <1>1 DEF NotifyAfterSet, tables
<1>3. /\ ops'.at = "notify" /\ ops'.month = t
      /\ \/ <<b, t>> \in sent /\ ops'.won = ops.won /\ mails' = mails
         \/ /\ <<b, t>> \notin sent /\ ops'.won = ops.won \cup {b}
            /\ mails' = [mails EXCEPT ![<<b, t>>] = OneMore(@)]
  BY <1>1, <1>2 DEF TypeOK, OpsStates
<1>4. UsageAlone' /\ OpsWinsOnlyNotifying'
  BY <1>2, <1>3 DEF MailInv, UsageAlone, OpsWinsOnlyNotifying
<1>5. ASSUME NEW a \in Bands, NEW m \in Months PROVE MailOf(a, m)'
  <2>1. \A v \in Workers : WonBy(v, a, m)' <=> WonBy(v, a, m)
    BY <1>2 DEF WonBy
  <2>2. CASE <<a, m>> # <<b, t>> \/ <<b, t>> \in sent
    <3>1. OpsWon(a, m)' <=> OpsWon(a, m)
      BY <1>1, <1>3, <2>2 DEF OpsWon
    <3>2. mails'[<<a, m>>] = mails[<<a, m>>]
      BY <1>3, <2>2 DEF TypeOK
    <3> QED BY <1>2, <2>1, <3>1, <3>2, MailOfQuiet DEF MailInv
  <2>3. CASE a = b /\ m = t /\ <<b, t>> \notin sent
    <3>1. ~BandLocked(a, m)
      BY <1>2, <2>3
    <3>2. \A v \in Workers : ~WonBy(v, a, m)'
      BY <2>1, <3>1, BandLockedIs
    <3>3. OpsWon(a, m)'
      BY <1>3, <2>3 DEF OpsWon
    <3>4. mails'[<<a, m>>] = OneMore(mails[<<a, m>>])
      BY <1>3, <2>3 DEF TypeOK
    <3> QED BY <1>2, <2>3, <3>1, <3>2, <3>3, <3>4, MailOfWinner DEF MailInv
  <2> QED BY <2>2, <2>3
<1>6. ASSUME NEW v \in Workers PROVE Considered(v)'
  BY <1>2 DEF MailInv, Considered
<1> QED BY <1>4, <1>5, <1>6 DEF MailInv

LEMMA MailOfReset ==
    ASSUME TypeOK, MailInv, ResetUsage
    PROVE  MailInv'
<1>1. /\ used' = [used EXCEPT ![month] = 0]
      /\ \A v \in Workers : req[v].at = "recorded" => req[v].month # month
      /\ UNCHANGED <<sent, req, ops, mails, forgotten>>
  BY DEF ResetUsage, UsageLocked
<1>2. UsageAlone' /\ OpsWinsOnlyNotifying'
  BY <1>1 DEF MailInv, UsageAlone, OpsWinsOnlyNotifying
<1>3. ASSUME NEW b \in Bands, NEW m \in Months PROVE MailOf(b, m)'
  BY <1>1, MailOfQuiet DEF MailInv, WonBy, OpsWon
<1>4. ASSUME NEW v \in Workers PROVE Considered(v)'
  <2>1. req[v].at = "recorded" => used'[req[v].month] = used[req[v].month]
    BY <1>1, RequestFields DEF TypeOK
  <2> QED BY <1>1, <2>1, ConsideredOfQuiet DEF MailInv
<1> QED BY <1>2, <1>3, <1>4 DEF MailInv

LEMMA NextMail == TypeOK /\ MailInv /\ [Next]_vars => MailInv'
<1> SUFFICES ASSUME TypeOK, MailInv, [Next]_vars PROVE MailInv'
  OBVIOUS
<1>1. CASE NewMonth \/ UNCHANGED vars
  <2>1. UNCHANGED <<used, sent, req, ops, mails, forgotten>>
    BY <1>1 DEF NewMonth, vars, tables, ghosts
  <2>2. UsageAlone' /\ OpsWinsOnlyNotifying'
    BY <2>1 DEF MailInv, UsageAlone, OpsWinsOnlyNotifying
  <2>3. ASSUME NEW b \in Bands, NEW m \in Months PROVE MailOf(b, m)'
    BY <2>1, MailOfQuiet DEF MailInv, WonBy, OpsWon
  <2>4. ASSUME NEW v \in Workers PROVE Considered(v)'
    BY <2>1 DEF MailInv, Considered
  <2> QED BY <2>2, <2>3, <2>4 DEF MailInv
<1> QED BY <1>1, MailOfPlain, MailOfRecord, MailOfNotify, MailOfCommit, MailOfRollback, MailOfSet,
           MailOfNotifySet, MailOfReset DEF Next, Serve, Operate

\* A band that was announced is in the table, or held by the one transaction
\* that announced it, or was forgotten by a rollback.
THEOREM MessagesInvariant == Spec => []MailInv
<1> QED BY InitMail, NextMail, QuotaType, PTL DEF Spec

\* A band is notified once a month for any limits, requests and operators,
\* unless a rollback has forgotten a message.
THEOREM OneMailPerBand == Spec => []OneMailUnlessForgotten
<1>1. MailInv => OneMailUnlessForgotten
  <2> SUFFICES ASSUME MailInv, ~forgotten, NEW b \in Bands, NEW m \in Months
               PROVE  mails[<<b, m>>] <= 1
    BY DEF OneMailUnlessForgotten
  <2>1. MailOf(b, m)
    BY DEF MailInv
  <2> QED BY <2>1 DEF MailOf
<1> QED BY <1>1, MessagesInvariant, PTL

\* No request commits usage that crosses a band of the limit it has read
\* before that band was notified.
THEOREM WarnedFirst == Spec => WarnedBeforeCommit
<1> DEFINE Warned ==
          \A w \in Workers :
             LET q == req[w] IN
             CommitRequest(w) /\ q.limit = limit /\ limit \notin {Unlimited, 0} =>
                 \A b \in Bands : 100 * used'[q.month] >= b * limit => mails[<<b, q.month>>] > 0
<1>1. TypeOK /\ MailInv => Warned
  <2> SUFFICES ASSUME TypeOK, MailInv, NEW w \in Workers, CommitRequest(w), req[w].limit = limit,
                      limit \notin {Unlimited, 0}, NEW b \in Bands,
                      100 * used'[req[w].month] >= b * limit
               PROVE  mails[<<b, req[w].month>>] > 0
    OBVIOUS
  <2>1. PICK t \in Months, c \in Nat : t = req[w].month /\ c = req[w].cost
    BY RequestFields DEF CommitRequest, TypeOK
  <2>2. req[w].at = "recorded" /\ req[w].todo = {} /\ used'[t] = used[t] + c
    BY <2>1 DEF CommitRequest, TypeOK
  <2>3. b \in Crossed(used[t] + c, req[w].limit)
    BY <2>1, <2>2 DEF Crossed
  <2>4. WonBy(w, b, t) \/ <<b, t>> \in sent
    BY <2>1, <2>2, <2>3 DEF MailInv, Considered, WonBy
  <2>5. BandLocked(b, t) \/ <<b, t>> \in sent
    BY <2>4, BandLockedIs
  <2>6. mails[<<b, t>>] > 0
    BY <2>5 DEF MailInv, MailOf
  <2> QED BY <2>1, <2>6
<1>2. TypeOK /\ MailInv => [Warned]_vars
  BY <1>1
<1>3. Spec => [][Warned]_vars
  BY <1>2, QuotaType, MessagesInvariant, PTL
<1> QED BY <1>3 DEF WarnedBeforeCommit
=============================================================================
