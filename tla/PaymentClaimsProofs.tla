------------------------- MODULE PaymentClaimsProofs -------------------------
(***************************************************************************)
(* The properties of PaymentClaims for any claims, items, amounts, rates   *)
(* and requests.  Three hold always: the owner's approval, an approval for *)
(* each payment, and the parts that add up.  The others hold as long as no *)
(* request acts on a stale read (ReadsHold), so that a row lock is enough  *)
(* for each of them.                                                       *)
(***************************************************************************)
EXTENDS PaymentClaims, FiniteLemmas

-----------------------------------------------------------------------------
(* The arithmetic of a claim.                                              *)

\* The quotient of a division.
LEMMA Quotient ==
    ASSUME NEW y \in Nat, NEW d \in Nat \ {0}, NEW q, q = y \div d
    PROVE  q \in Nat /\ d * q <= y /\ y < d * q + d
OBVIOUS

\* A rounding error is at most one half, and one half goes away from zero.
LEMMA RoundError ==
    ASSUME NEW u \in Nat \ {0}, NEW x \in Int, NEW m, m = RoundVnd(x, u)
    PROVE  /\ m \in Int
           /\ 2 * x - u <= 2 * (u * m) /\ 2 * (u * m) <= 2 * x + u
           /\ x >= 0 => 2 * x - u < 2 * (u * m) /\ m >= 0
           /\ x < 0 => 2 * (u * m) < 2 * x + u /\ m <= 0
<1>1. CASE x >= 0
  <2>1. m = (2 * x + u) \div (2 * u)
    BY <1>1 DEF RoundVnd
  <2>2. 2 * x + u \in Nat /\ 2 * u \in Nat \ {0}
    BY <1>1
  <2>3. m \in Nat /\ (2 * u) * m <= 2 * x + u /\ 2 * x + u < (2 * u) * m + 2 * u
    BY <2>1, <2>2, Quotient
  <2>4. (2 * u) * m = 2 * (u * m) /\ u * m \in Int
    BY <2>3
  <2> QED BY <1>1, <2>3, <2>4
<1>2. CASE x < 0
  <2> DEFINE k == (u - 2 * x) \div (2 * u)
  <2>1. m = -k
    BY <1>2 DEF RoundVnd
  <2>2. u - 2 * x \in Nat /\ 2 * u \in Nat \ {0}
    BY <1>2
  <2>3. k \in Nat /\ (2 * u) * k <= u - 2 * x /\ u - 2 * x < (2 * u) * k + 2 * u
    BY <2>2, Quotient
  <2> HIDE DEF k
  <2>4. (2 * u) * k = 2 * (u * k) /\ u * (-k) = -(u * k) /\ u * k \in Int
    BY <2>3
  <2> QED BY <1>2, <2>1, <2>3, <2>4
<1> QED BY <1>1, <1>2

\* A multiple of a unit that is small is a small multiple.
LEMMA FewUnits ==
    ASSUME NEW u \in Nat \ {0}, NEW k \in Int
    PROVE  /\ u * k \in Int
           /\ u * k < 2 * u => k <= 1
           /\ -(2 * u) < u * k => k >= -1
           /\ u * k < u => k <= 0
           /\ -u < u * k => k >= 0
OBVIOUS

\* The gross amount is the subtotal, a whole number, and the VAT.
LEMMA GrossAddsUp ==
    ASSUME NEW u \in Nat \ {0}, NEW s \in Nat, NEW x \in Int, NEW G, NEW V,
           G = RoundVnd(s * u + x, u), V = RoundVnd(x, u), V >= 0
    PROVE  G = s + V
<1> DEFINE g == s * u + x
<1>1. g \in Int /\ g = u * s + x /\ u * s \in Nat
  OBVIOUS
<1> HIDE DEF g
<1>2. /\ G \in Int
      /\ 2 * g - u <= 2 * (u * G) /\ 2 * (u * G) <= 2 * g + u
      /\ g >= 0 => 2 * g - u < 2 * (u * G)
  BY <1>1, RoundError DEF g
<1>3. /\ V \in Int
      /\ 2 * x - u <= 2 * (u * V) /\ 2 * (u * V) <= 2 * x + u
      /\ x >= 0 => 2 * x - u < 2 * (u * V)
      /\ x < 0 => 2 * (u * V) < 2 * x + u /\ V <= 0
  BY RoundError
<1>4. u * G \in Int /\ u * V \in Int /\ G - s - V \in Int /\ u * (G - s - V) = u * G - u * s - u * V
  BY <1>2, <1>3
<1>5. -u < u * (G - s - V) /\ u * (G - s - V) < u
  <2>1. CASE x >= 0
    BY <1>1, <1>2, <1>3, <1>4, <2>1
  <2>2. CASE x < 0
    <3>1. V = 0 /\ u * V = 0
      BY <1>3, <2>2
    <3> QED BY <1>1, <1>2, <1>3, <1>4, <2>2, <3>1
  <2> QED BY <2>1, <2>2
<1>6. G - s - V = 0
  BY <1>4, <1>5, FewUnits
<1> QED BY <1>2, <1>3, <1>6

\* Four rounding errors are less than two dong.
LEMMA NetAddsUp ==
    ASSUME NEW u \in Nat \ {0}, NEW g \in Int, NEW a \in Int, NEW b \in Int, NEW n \in Int, n = g - a - b,
           NEW G, NEW A, NEW B, NEW N,
           G = RoundVnd(g, u), A = RoundVnd(a, u), B = RoundVnd(b, u), N = RoundVnd(n, u)
    PROVE  G - A - B - N \in -1..1
<1>1. /\ G \in Int /\ 2 * g - u <= 2 * (u * G) /\ 2 * (u * G) <= 2 * g + u
      /\ g >= 0 => 2 * g - u < 2 * (u * G)
      /\ g < 0 => 2 * (u * G) < 2 * g + u
  BY RoundError
<1>2. /\ A \in Int /\ 2 * a - u <= 2 * (u * A) /\ 2 * (u * A) <= 2 * a + u
      /\ a >= 0 => 2 * a - u < 2 * (u * A)
      /\ a < 0 => 2 * (u * A) < 2 * a + u
  BY RoundError
<1>3. /\ B \in Int /\ 2 * b - u <= 2 * (u * B) /\ 2 * (u * B) <= 2 * b + u
      /\ b >= 0 => 2 * b - u < 2 * (u * B)
      /\ b < 0 => 2 * (u * B) < 2 * b + u
  BY RoundError
<1>4. /\ N \in Int /\ 2 * n - u <= 2 * (u * N) /\ 2 * (u * N) <= 2 * n + u
      /\ n >= 0 => 2 * n - u < 2 * (u * N)
      /\ n < 0 => 2 * (u * N) < 2 * n + u
  BY RoundError
<1> DEFINE k == G - A - B - N
<1>5. /\ u * G \in Int /\ u * A \in Int /\ u * B \in Int /\ u * N \in Int
      /\ k \in Int /\ u * k = u * G - u * A - u * B - u * N
  BY <1>1, <1>2, <1>3, <1>4
<1> HIDE DEF k
<1>6. u * k < 2 * u /\ -(2 * u) < u * k
  <2> DEFINE G1 == u * G
             A1 == u * A
             B1 == u * B
             N1 == u * N
             k1 == u * k
  <2>1. /\ G1 \in Int /\ A1 \in Int /\ B1 \in Int /\ N1 \in Int /\ k1 = G1 - A1 - B1 - N1
        /\ 2 * g - u <= 2 * G1 /\ 2 * G1 <= 2 * g + u
        /\ g >= 0 => 2 * g - u < 2 * G1
        /\ g < 0 => 2 * G1 < 2 * g + u
    BY <1>1, <1>5
  <2>2. /\ 2 * a - u <= 2 * A1 /\ 2 * A1 <= 2 * a + u
        /\ a >= 0 => 2 * a - u < 2 * A1
        /\ a < 0 => 2 * A1 < 2 * a + u
    BY <1>2
  <2>3. /\ 2 * b - u <= 2 * B1 /\ 2 * B1 <= 2 * b + u
        /\ b >= 0 => 2 * b - u < 2 * B1
        /\ b < 0 => 2 * B1 < 2 * b + u
    BY <1>3
  <2>4. /\ 2 * n - u <= 2 * N1 /\ 2 * N1 <= 2 * n + u
        /\ n >= 0 => 2 * n - u < 2 * N1
        /\ n < 0 => 2 * N1 < 2 * n + u
    BY <1>4
  <2> HIDE DEF G1, A1, B1, N1, k1
  <2>5. k1 < 2 * u /\ -(2 * u) < k1
    <3>1. CASE g >= 0
      <4>1. a >= 0 \/ b >= 0 \/ n >= 0
        BY <3>1
      <4> QED BY <2>1, <2>2, <2>3, <2>4, <3>1, <4>1
    <3>2. CASE g < 0
      <4>1. a < 0 \/ b < 0 \/ n < 0
        BY <3>2
      <4> QED BY <2>1, <2>2, <2>3, <2>4, <3>2, <4>1
    <3> QED BY <3>1, <3>2
  <2> QED BY <2>5 DEF k1
<1>7. k <= 1 /\ k >= -1
  BY <1>5, <1>6, FewUnits
<1>8. k \in -1..1
  BY <1>5, <1>7
<1> QED BY <1>8 DEF k

AnyRates == Rates \cup {NoRates}

LEMMA RateTypes ==
    One \in Nat \ {0} /\ \A r \in AnyRates : r.vat \in Int /\ r.retention \in Int /\ r.tndn \in Int
BY DataAssumption DEF AnyRates, NoRates

\* The totals of any lines and rates, if the table takes them.
LEMMA TotalsAddUp ==
    ASSUME NEW s \in Nat, NEW r \in AnyRates, Totals(s, r) \in TotalsSet
    PROVE  LET t == Totals(s, r) IN
           /\ t.gross = t.subtotal + t.vat
           /\ t.gross - t.retention - t.tndn - t.net \in -1..1
<1> DEFINE u == One * One
           x == s * One * r.vat
           g == s * u + x
           a == s * (One + r.vat) * r.retention
           b == s * One * r.tndn
           n == g - a - b
<1>1. u \in Nat \ {0} /\ x \in Int /\ g \in Int /\ a \in Int /\ b \in Int /\ n \in Int
  <2> DEFINE v == r.vat
             p == r.retention
             q == r.tndn
  <2>1. One \in Nat \ {0} /\ v \in Int /\ p \in Int /\ q \in Int
    BY RateTypes
  <2> HIDE DEF v, p, q
  <2>2. One * One \in Nat \ {0} /\ s * One * v \in Int /\ s * (One + v) * p \in Int /\ s * One * q \in Int
    BY <2>1
  <2> QED BY <2>2 DEF v, p, q
<1> DEFINE t == Totals(s, r)
           X == RoundVnd(x, u)
           G == RoundVnd(g, u)
           A == RoundVnd(a, u)
           B == RoundVnd(b, u)
           N == RoundVnd(n, u)
<1>2. t = [subtotal |-> s, vat |-> X, gross |-> G, retention |-> A, tndn |-> B, net |-> N]
  BY DEF Totals
<1>3. t.vat \in Nat
  BY DEF TotalsSet
<1> HIDE DEF t
<1>4. X \in Nat /\ t.subtotal = s /\ t.vat = X /\ t.gross = G /\ t.retention = A /\ t.tndn = B /\ t.net = N
  BY <1>2, <1>3
<1>5. G = s + X
  <2> HIDE DEF u, x
  <2> QED BY <1>1, <1>4, GrossAddsUp
<1>6. G - A - B - N \in -1..1
  <2> HIDE DEF g, a, b, u
  <2> QED BY <1>1, NetAddsUp
<1> HIDE DEF X, G, A, B, N
<1>7. t.gross = t.subtotal + t.vat /\ t.gross - t.retention - t.tndn - t.net \in -1..1
  BY <1>4, <1>5, <1>6
<1> QED BY <1>7 DEF t

LEMMA TotalsOfNothing == \A r \in AnyRates : Totals(0, r) = NoTotals
<1> SUFFICES ASSUME NEW r \in AnyRates PROVE Totals(0, r) = NoTotals
  OBVIOUS
<1>1. One \in Nat \ {0} /\ r.vat \in Int /\ r.retention \in Int /\ r.tndn \in Int
  BY RateTypes
<1> DEFINE u == One * One
<1>2. /\ 0 * One * r.vat = 0 /\ 0 * (One + r.vat) * r.retention = 0 /\ 0 * One * r.tndn = 0
      /\ u \in Nat \ {0} /\ 0 * u = 0 /\ 0 + 0 = 0 /\ 0 - 0 - 0 = 0
  BY <1>1
<1> HIDE DEF u
<1>3. RoundVnd(0, u) = 0
  <2>1. (2 * 0 + u) \div (2 * u) = 0
    <3>1. \A q \in Nat : (2 * u) * q <= u => q = 0
      BY <1>2
    <3>2. 2 * 0 + u = u /\ u \in Nat /\ 2 * u \in Nat \ {0}
      BY <1>2
    <3> DEFINE q == u \div (2 * u)
    <3>3. q \in Nat /\ (2 * u) * q <= u
      BY <3>2, Quotient
    <3> HIDE DEF q
    <3>4. q = 0
      BY <3>1, <3>3
    <3> QED BY <3>2, <3>4 DEF q
  <2> QED BY <2>1 DEF RoundVnd
<1> QED BY <1>2, <1>3 DEF Totals, NoTotals, u

NoLines == [i \in Items |-> NoLine]

LEMMA SubtotalType ==
    ASSUME NEW ls \in [Items -> Line]
    PROVE  Subtotal(ls) \in Nat
<1> DEFINE I == {i \in Items : ls[i] # NoLine}
<1>1. IsFiniteSet(I)
  BY DataAssumption, FS_Subset
<1>2. \A i \in I : ls[i] \in Nat
  BY DataAssumption DEF Line
<1> HIDE DEF I
<1>3. SumFunctionOnSet(ls, I) \in Nat
  BY <1>1, <1>2, SumOfNaturals
<1> QED BY <1>3 DEF Subtotal, I

LEMMA SubtotalOfNothing == Subtotal(NoLines) = 0
<1>1. {i \in Items : NoLines[i] # NoLine} = {}
  BY DEF NoLines
<1> QED BY <1>1, SumOfEmpty DEF Subtotal

-----------------------------------------------------------------------------
(* The inductive invariant.                                                *)

\* A request past its SELECT.
HasClaim(q) == q.at \in {"draft", "review", "line", "submit", "recompute"}

\* Rows that are still to come have no content, the others have rates.
RowsAreSound ==
    \A c \in Claims : IF claim[c].status = "absent" THEN claim[c] = Absent /\ lines[c] = NoLines
                                                    ELSE claim[c].rates \in Rates

\* No row goes away.
RequestsHaveRows ==
    \A w \in Workers : HasClaim(req[w]) => claim[req[w].claim].status # "absent"

AddsUp(t) ==
    /\ t.gross = t.subtotal + t.vat
    /\ t.gross - t.retention - t.tndn - t.net \in -1..1

IInv ==
    /\ TypeOK
    /\ RowsAreSound
    /\ RequestsHaveRows
    /\ ApprovedByOwner
    /\ PartsAddUp

LEMMA RequestFields ==
    ASSUME NEW q \in Requests
    PROVE  /\ q.at = "new" => q.sequence \in Nat
           /\ HasClaim(q) => q.claim \in Claims
           /\ q.at \in {"draft", "line", "submit", "recompute"} => q.rates \in Rates
           /\ q.at \in {"line", "submit", "recompute"} => q.subtotal \in Nat
           /\ q.at = "line" => q.item \in Items /\ q.amount \in Amounts
           /\ q.at = "review" => q.seen \in {"submitted", "in_review"}
BY DEF Requests, Idle, HasClaim

LEMMA InitIInv == Init => IInv
<1> SUFFICES ASSUME Init PROVE IInv
  OBVIOUS
<1>1. NoTotals \in TotalsSet /\ AddsUp(NoTotals)
  BY DEF NoTotals, TotalsSet, AddsUp
<1>2. Absent \in ClaimSet
  BY <1>1 DEF Absent, ClaimSet, ClaimStatuses
<1>3. TypeOK
  BY <1>2, BoundAssumption DEF Init, TypeOK, Line, Requests
<1>4. RowsAreSound /\ RequestsHaveRows /\ ApprovedByOwner
  BY DEF Init, RowsAreSound, RequestsHaveRows, ApprovedByOwner, NoLines, HasClaim, Idle, Absent
<1>5. PartsAddUp
  BY <1>1 DEF Init, PartsAddUp, AddsUp, Absent
<1> QED BY <1>3, <1>4, <1>5 DEF IInv

\* A step that only reads.
LEMMA ReadStep ==
    ASSUME IInv, NEW w \in Workers, NEW q \in Requests, Become(w, q),
           HasClaim(q) => claim[q.claim].status # "absent",
           UNCHANGED <<claim, lines, payments, approvals>>
    PROVE  IInv'
<1>1. TypeOK'
  BY DEF IInv, TypeOK, Become
<1>2. RowsAreSound' /\ ApprovedByOwner' /\ PartsAddUp'
  BY DEF IInv, RowsAreSound, ApprovedByOwner, PartsAddUp
<1>3. RequestsHaveRows'
  BY DEF IInv, TypeOK, RequestsHaveRows, Become
<1> QED BY <1>1, <1>2, <1>3 DEF IInv

\* A row that may be written.
Sound(k) ==
    /\ k \in ClaimSet /\ k.status # "absent" /\ k.rates \in Rates
    /\ k.status \in {"approved", "paid"} => k.cdt = "approve"
    /\ AddsUp(k.totals)

\* A step that writes a row, and perhaps its lines.
LEMMA WriteStep ==
    ASSUME IInv, NEW c \in Claims, NEW k, Sound(k),
           claim' = [claim EXCEPT ![c] = k],
           lines' \in [Claims -> [Items -> Line]],
           \A d \in Claims \ {c} : lines'[d] = lines[d],
           \/ req' = req
           \/ \E w \in Workers : Become(w, Idle),
           payments' \in [Claims -> 0..MaxPayments], approvals' \in [Claims -> 0..MaxPayments]
    PROVE  IInv'
<1> USE DEF Sound
<1>1. TypeOK'
  <2>1. req' \in [Workers -> Requests]
    BY DEF IInv, TypeOK, Become, Requests
  <2>2. claim' \in [Claims -> ClaimSet]
    BY DEF IInv, TypeOK
  <2> QED BY <2>1, <2>2 DEF TypeOK
<1>2. claim'[c] = k /\ \A d \in Claims \ {c} : claim'[d] = claim[d]
  BY DEF IInv, TypeOK
<1>3. RowsAreSound'
  BY <1>2 DEF IInv, RowsAreSound
<1>4. RequestsHaveRows'
  <2> SUFFICES ASSUME NEW w \in Workers, HasClaim(req'[w])
               PROVE  claim'[req'[w].claim].status # "absent"
    BY DEF RequestsHaveRows
  <2>1. req'[w] = req[w]
    BY DEF IInv, TypeOK, Become, Idle, HasClaim
  <2>2. req[w].claim \in Claims /\ claim[req[w].claim].status # "absent"
    BY <2>1, RequestFields DEF IInv, TypeOK, RequestsHaveRows
  <2> QED BY <1>2, <2>1, <2>2
<1>5. ApprovedByOwner'
  BY <1>2 DEF IInv, ApprovedByOwner
<1>6. PartsAddUp'
  BY <1>2 DEF IInv, PartsAddUp, AddsUp
<1> QED BY <1>1, <1>3, <1>4, <1>5, <1>6 DEF IInv

\* What can be said of a row that is there.
LEMMA LiveRow ==
    ASSUME IInv, NEW c \in Claims, claim[c].status # "absent"
    PROVE  /\ Sound(claim[c]) /\ claim[c].status \in ClaimStatuses
           /\ claim[c].sequence \in Nat /\ claim[c].totals \in TotalsSet
           /\ claim[c].cdt \in {"none", "approve", "reject"}
BY DEF IInv, TypeOK, RowsAreSound, ApprovedByOwner, PartsAddUp, ClaimSet, Sound, AddsUp, AnyRates

LEMMA NewTotals ==
    ASSUME NEW s \in Nat, NEW r \in Rates, Totals(s, r) \in TotalsSet
    PROVE  AddsUp(Totals(s, r))
<1>1. r \in AnyRates
  BY DEF AnyRates
<1> QED BY <1>1, TotalsAddUp DEF AddsUp

-----------------------------------------------------------------------------
(* The actions.                                                            *)

LEMMA NextSequenceType ==
    ASSUME TypeOK
    PROVE  NextSequence \in Nat \ {0} /\ \A c \in Claims : claim[c].sequence < NextSequence
<1> DEFINE S == {claim[c].sequence : c \in Claims} \cup {0}
<1>1. IsFiniteSet(S)
  <2> DEFINE f == [c \in Claims |-> claim[c].sequence]
             R == {claim[c].sequence : c \in Claims}
  <2>1. IsFiniteSet(R)
    <3>1. f \in Surjection(Claims, R)
      BY DEF Surjection
    <3> QED BY <3>1, DataAssumption, FS_Surjection
  <2> QED BY <2>1, FS_AddElement
<1>2. S \subseteq Nat /\ S # {} /\ 0 \in S /\ \A c \in Claims : claim[c].sequence \in S
  BY DEF TypeOK, ClaimSet
<1> HIDE DEF S
<1>3. S \subseteq Int
  BY <1>2
<1>4. Max(S) \in S /\ \A x \in S : x <= Max(S)
  BY <1>1, <1>2, <1>3, MaxOfFinite
<1>5. NextSequence = Max(S) + 1
  BY DEF NextSequence, S
<1>6. Max(S) \in Nat /\ \A c \in Claims : claim[c].sequence \in Nat /\ claim[c].sequence <= Max(S)
  BY <1>2, <1>4
<1> QED BY <1>5, <1>6

LEMMA CreateStep ==
    ASSUME IInv, NEW w \in Workers,
           ReadSequence(w) \/ \E c \in Claims, r \in Rates : InsertClaim(w, c, r)
    PROVE  IInv'
<1>1. CASE ReadSequence(w)
  <2>1. [at |-> "new", sequence |-> NextSequence] \in Requests
    BY NextSequenceType DEF IInv, Requests
  <2> QED BY <1>1, <2>1, ReadStep DEF ReadSequence, HasClaim
<1>2. ASSUME NEW c \in Claims, NEW r \in Rates, InsertClaim(w, c, r) PROVE IInv'
  <2> DEFINE k == [Absent EXCEPT !.status = "draft", !.sequence = req[w].sequence, !.rates = r]
  <2>1. req[w].sequence \in Nat
    BY <1>2, RequestFields DEF IInv, TypeOK, InsertClaim
  <2>2. NoTotals \in TotalsSet /\ AddsUp(NoTotals)
    BY DEF NoTotals, TotalsSet, AddsUp
  <2>3. Sound(k)
    BY <2>1, <2>2 DEF Sound, ClaimSet, Absent, ClaimStatuses
  <2>4. claim' = [claim EXCEPT ![c] = k] /\ Become(w, Idle) /\ lines' = lines
        /\ UNCHANGED <<payments, approvals>>
    BY <1>2 DEF InsertClaim
  <2> HIDE DEF k
  <2> QED BY <2>3, <2>4, WriteStep DEF IInv, TypeOK
<1> QED BY <1>1, <1>2

\* Reading a draft, and what is done with it.
LEMMA DraftStep ==
    ASSUME IInv, NEW w \in Workers,
           \/ \E c \in Followed : EnsureDraft(w, c)
           \/ \E r \in Rates : UpdateClaim(w, r)
           \/ \E op \in {"submit", "recompute"} : SumLines(w, op)
    PROVE  IInv'
<1>1. ASSUME NEW c \in Followed, EnsureDraft(w, c) PROVE IInv'
  <2> DEFINE q == [at |-> "draft", claim |-> c, rates |-> claim[c].rates]
  <2>1. c \in Claims /\ claim[c].status # "absent"
    BY <1>1, DataAssumption DEF EnsureDraft
  <2>2. claim[c].rates \in Rates
    BY <2>1 DEF IInv, RowsAreSound
  <2>3. q \in Requests
    BY <2>1, <2>2 DEF Requests
  <2> QED BY <1>1, <2>1, <2>3, ReadStep DEF EnsureDraft
<1>2. ASSUME NEW r \in Rates, UpdateClaim(w, r) PROVE IInv'
  <2> DEFINE c == req[w].claim
             t == Totals(Subtotal(lines[c]), r)
             k == [claim[c] EXCEPT !.rates = r, !.totals = t]
  <2>1. c \in Claims /\ claim[c].status # "absent"
    BY <1>2, RequestFields DEF UpdateClaim, IInv, TypeOK, RequestsHaveRows, HasClaim
  <2>2. t \in TotalsSet /\ AddsUp(t)
    <3>1. Subtotal(lines[c]) \in Nat
      BY <2>1, SubtotalType DEF IInv, TypeOK
    <3>2. t \in TotalsSet
      BY <1>2 DEF UpdateClaim
    <3> QED BY <3>1, <3>2, NewTotals
  <2>3. claim' = [claim EXCEPT ![c] = k] /\ Become(w, Idle) /\ lines' = lines
        /\ UNCHANGED <<payments, approvals>>
    BY <1>2 DEF UpdateClaim
  <2> HIDE DEF t, c
  <2>4. Sound(k)
    BY <2>1, <2>2, LiveRow DEF Sound, ClaimSet
  <2> HIDE DEF k
  <2> QED BY <2>1, <2>3, <2>4, WriteStep DEF IInv, TypeOK
<1>3. ASSUME NEW op \in {"submit", "recompute"}, SumLines(w, op) PROVE IInv'
  <2> DEFINE c == req[w].claim
             q == [at |-> op, claim |-> c, rates |-> req[w].rates, subtotal |-> Subtotal(lines[c])]
  <2>1. c \in Claims /\ req[w].rates \in Rates /\ claim[c].status # "absent"
    BY <1>3, RequestFields DEF SumLines, IInv, TypeOK, RequestsHaveRows, HasClaim
  <2>2. Subtotal(lines[c]) \in Nat
    BY <2>1, SubtotalType DEF IInv, TypeOK
  <2>3. Become(w, q) /\ UNCHANGED <<claim, lines, payments, approvals>>
    BY <1>3 DEF SumLines
  <2> HIDE DEF c
  <2>4. q \in Requests /\ q.claim = c
    BY <2>1, <2>2 DEF Requests
  <2> HIDE DEF q
  <2> QED BY <2>1, <2>3, <2>4, ReadStep
<1> QED BY <1>1, <1>2, <1>3

LEMMA LineStep ==
    ASSUME IInv, NEW w \in Workers,
           \/ \E i \in Items, amount \in Amounts : AddLine(w, i, amount) \/ UpdateLine(w, i, amount)
           \/ CommitLine(w)
    PROVE  IInv'
<1>1. ASSUME NEW i \in Items, NEW amount \in Amounts, AddLine(w, i, amount) \/ UpdateLine(w, i, amount)
      PROVE  IInv'
  <2> DEFINE c == req[w].claim
             ls == [lines[c] EXCEPT ![i] = amount]
             q(r) == [at |-> "line", claim |-> c, item |-> i, amount |-> amount, rates |-> r,
                      subtotal |-> Subtotal(ls)]
  <2>1. c \in Claims /\ req[w].rates \in Rates /\ claim[c].status # "absent"
    BY <1>1, RequestFields DEF AddLine, UpdateLine, IInv, TypeOK, RequestsHaveRows, HasClaim
  <2>2. claim[c].rates \in Rates
    BY <2>1 DEF IInv, RowsAreSound
  <2>3. Subtotal(ls) \in Nat
    <3>1. ls \in [Items -> Line]
      BY <2>1 DEF IInv, TypeOK, Line
    <3> QED BY <3>1, SubtotalType
  <2>4. PICK r \in Rates : Become(w, q(r)) /\ UNCHANGED <<claim, lines, payments, approvals>>
    BY <1>1, <2>1, <2>2 DEF AddLine, UpdateLine, WriteLine
  <2> HIDE DEF ls, c
  <2>5. q(r) \in Requests /\ q(r).claim = c
    BY <2>1, <2>3 DEF Requests
  <2> HIDE DEF q
  <2> QED BY <2>1, <2>4, <2>5, ReadStep
<1>2. CASE CommitLine(w)
  <2> DEFINE c == req[w].claim
             i == req[w].item
             t == Totals(req[w].subtotal, req[w].rates)
             k == [claim[c] EXCEPT !.totals = t]
  <2>1. /\ c \in Claims /\ claim[c].status # "absent" /\ i \in Items /\ req[w].amount \in Amounts
        /\ req[w].subtotal \in Nat /\ req[w].rates \in Rates
    BY <1>2, RequestFields DEF CommitLine, IInv, TypeOK, RequestsHaveRows, HasClaim
  <2>2. t \in TotalsSet /\ AddsUp(t)
    <3>1. t \in TotalsSet
      BY <1>2 DEF CommitLine
    <3> QED BY <2>1, <3>1, NewTotals
  <2>3. /\ claim' = [claim EXCEPT ![c] = k] /\ Become(w, Idle) /\ UNCHANGED <<payments, approvals>>
        /\ lines' = [lines EXCEPT ![c][i] = req[w].amount]
    BY <1>2 DEF CommitLine
  <2>4. lines' \in [Claims -> [Items -> Line]] /\ \A d \in Claims \ {c} : lines'[d] = lines[d]
    BY <2>1, <2>3 DEF IInv, TypeOK, Line
  <2> HIDE DEF t, c, i
  <2>5. Sound(k)
    BY <2>1, <2>2, LiveRow DEF Sound, ClaimSet
  <2> HIDE DEF k
  <2> QED BY <2>1, <2>3, <2>4, <2>5, WriteStep DEF IInv, TypeOK
<1> QED BY <1>1, <1>2

LEMMA HeaderStep ==
    ASSUME IInv, NEW w \in Workers, CommitRecompute(w) \/ CommitSubmit(w)
    PROVE  IInv'
<1> DEFINE c == req[w].claim
           t == Totals(req[w].subtotal, req[w].rates)
           k == [claim[c] EXCEPT !.totals = t]
           l == [claim[c] EXCEPT !.totals = t, !.status = "submitted"]
<1>1. /\ c \in Claims /\ claim[c].status # "absent"
      /\ req[w].subtotal \in Nat /\ req[w].rates \in Rates
  BY RequestFields DEF CommitRecompute, CommitSubmit, IInv, TypeOK, RequestsHaveRows, HasClaim
<1>2. t \in TotalsSet /\ AddsUp(t)
  <2>1. t \in TotalsSet
    BY DEF CommitRecompute, CommitSubmit
  <2> QED BY <1>1, <2>1, NewTotals
<1>3. /\ claim' = [claim EXCEPT ![c] = k] \/ claim' = [claim EXCEPT ![c] = l]
      /\ Become(w, Idle) /\ lines' = lines
        /\ UNCHANGED <<payments, approvals>>
  BY DEF CommitRecompute, CommitSubmit
<1> HIDE DEF t, c
<1>4. Sound(k) /\ Sound(l)
  BY <1>1, <1>2, LiveRow DEF Sound, ClaimSet, ClaimStatuses
<1> HIDE DEF k, l
<1>5. CASE claim' = [claim EXCEPT ![c] = k]
  BY <1>1, <1>3, <1>4, <1>5, WriteStep DEF IInv, TypeOK
<1>6. CASE claim' = [claim EXCEPT ![c] = l]
  BY <1>1, <1>3, <1>4, <1>6, WriteStep DEF IInv, TypeOK
<1> QED BY <1>3, <1>5, <1>6

LEMMA SignStep ==
    ASSUME IInv, NEW w \in Workers, Sign(w)
    PROVE  IInv'
<1>1. ASSUME NEW c \in Claims, EnsureInReview(w, c) PROVE IInv'
  <2> DEFINE q == [at |-> "review", claim |-> c, seen |-> claim[c].status]
  <2>1. q \in Requests /\ claim[c].status # "absent"
    BY <1>1 DEF EnsureInReview, Requests
  <2> QED BY <1>1, <2>1, ReadStep DEF EnsureInReview
<1> DEFINE c == req[w].claim
<1>2. ASSUME NEW decision \in {"approve", "reject"}, SignCdt(w, decision) PROVE IInv'
  <2> DEFINE k == [claim[c] EXCEPT !.cdt = decision,
                                   !.status = IF decision = "approve" THEN "approved" ELSE "rejected"]
  <2>1. c \in Claims /\ claim[c].status # "absent"
    BY <1>2, RequestFields DEF SignCdt, IInv, TypeOK, RequestsHaveRows, HasClaim
  <2>2. claim' = [claim EXCEPT ![c] = k] /\ Become(w, Idle) /\ lines' = lines /\ payments' = payments
    BY <1>2 DEF SignCdt
  <2>4. approvals' \in [Claims -> 0..MaxPayments]
    <3>1. approvals \in [Claims -> 0..MaxPayments]
      BY DEF IInv, TypeOK
    <3>2. \A n \in 0..MaxPayments : Min({MaxPayments, n + 1}) \in 0..MaxPayments
      BY BoundAssumption, MinOfTwo
    <3> QED BY <1>2, <3>1, <3>2 DEF SignCdt
  <2> HIDE DEF c
  <2>3. Sound(k)
    BY <2>1, LiveRow DEF Sound, ClaimSet, ClaimStatuses
  <2> HIDE DEF k
  <2> QED BY <2>1, <2>2, <2>3, <2>4, WriteStep DEF IInv, TypeOK
<1>3. CASE SignTvgs(w)
  <2> DEFINE k == IF req[w].seen = "submitted" THEN [claim[c] EXCEPT !.status = "in_review"] ELSE claim[c]
  <2>1. c \in Claims /\ claim[c].status # "absent"
    BY <1>3, RequestFields DEF SignTvgs, IInv, TypeOK, RequestsHaveRows, HasClaim
  <2>2. claim' = [claim EXCEPT ![c] = k] /\ Become(w, Idle) /\ lines' = lines
        /\ UNCHANGED <<payments, approvals>>
    BY <1>3 DEF SignTvgs, IInv, TypeOK
  <2> HIDE DEF c
  <2>3. Sound(k)
    BY <2>1, LiveRow DEF Sound, ClaimSet, ClaimStatuses
  <2> HIDE DEF k
  <2> QED BY <2>1, <2>2, <2>3, WriteStep DEF IInv, TypeOK
<1> QED BY <1>1, <1>2, <1>3 DEF Sign

LEMMA SettleStep ==
    ASSUME IInv, NEW c \in Claims, MarkPaid(c) \/ CancelClaim(c)
    PROVE  IInv'
<1> DEFINE k == [claim[c] EXCEPT !.status = "paid"]
           l == [claim[c] EXCEPT !.status = "cancelled"]
<1>1. claim[c].status # "absent" /\ (MarkPaid(c) => claim[c].cdt = "approve")
  BY DEF MarkPaid, CancelClaim, IInv, ApprovedByOwner
<1>2. (MarkPaid(c) => Sound(k)) /\ Sound(l)
  BY <1>1, LiveRow DEF Sound, ClaimSet, ClaimStatuses
<1>3. \/ MarkPaid(c) /\ claim' = [claim EXCEPT ![c] = k]
      \/ claim' = [claim EXCEPT ![c] = l]
  BY DEF MarkPaid, CancelClaim
<1>4. req' = req /\ lines' = lines /\ payments' \in [Claims -> 0..MaxPayments] /\ approvals' = approvals
  BY BoundAssumption DEF MarkPaid, CancelClaim, IInv, TypeOK
<1> HIDE DEF k, l
<1> QED BY <1>2, <1>3, <1>4, WriteStep DEF IInv, TypeOK

LEMMA NextIInv == IInv /\ [Next]_vars => IInv'
<1> SUFFICES ASSUME IInv, [Next]_vars PROVE IInv'
  OBVIOUS
<1>1. ASSUME NEW w \in Workers, Edit(w) PROVE IInv'
  BY <1>1, DraftStep, LineStep, HeaderStep DEF Edit
<1>2. ASSUME NEW w \in Workers, Drop(w) PROVE IInv'
  BY <1>2, ReadStep DEF Drop, Requests, Idle, HasClaim
<1>3. CASE UNCHANGED vars
  BY <1>3 DEF vars, IInv, TypeOK, RowsAreSound, RequestsHaveRows, ApprovedByOwner, PartsAddUp
<1> QED BY <1>1, <1>2, <1>3, CreateStep, SignStep, SettleStep DEF Next

-----------------------------------------------------------------------------
(* What holds as long as reads hold.                                       *)

\* A step that writes, if at all, one row whose header then fits its lines.
LEMMA HeaderOfOne ==
    ASSUME HeaderMatchesLines, NEW c \in Claims,
           \A d \in Claims \ {c} : claim'[d] = claim[d] /\ lines'[d] = lines[d],
           claim'[c].totals = Totals(Subtotal(lines'[c]), claim'[c].rates)
    PROVE  HeaderMatchesLines'
BY DEF HeaderMatchesLines

LEMMA HeaderStaysSame ==
    ASSUME HeaderMatchesLines, UNCHANGED lines, TypeOK, NEW c \in Claims, claim[c].status # "absent", NEW s, NEW t,
           \/ claim' = [claim EXCEPT ![c].status = s]
           \/ claim' = [claim EXCEPT ![c].cdt = t, ![c].status = s]
    PROVE  HeaderMatchesLines'
<1>1. \A d \in Claims \ {c} : claim'[d] = claim[d] /\ lines'[d] = lines[d]
  BY DEF TypeOK
<1>2. claim'[c].totals = claim[c].totals /\ claim'[c].rates = claim[c].rates /\ lines'[c] = lines[c]
  BY DEF TypeOK, ClaimSet
<1>3. claim[c].totals = Totals(Subtotal(lines[c]), claim[c].rates)
  BY DEF HeaderMatchesLines
<1> QED BY <1>1, <1>2, <1>3, HeaderOfOne

LEMMA HeaderKept ==
    ASSUME IInv, ReadsHold, HeaderMatchesLines, [Next]_vars
    PROVE  HeaderMatchesLines'
<1>1. ASSUME NEW w \in Workers, Edit(w) PROVE HeaderMatchesLines'
  <2> DEFINE q == req[w]
             c == req[w].claim
  <2>1. HasClaim(q) => c \in Claims
    BY RequestFields DEF IInv, TypeOK
  <2>2. ReadHolds(q)
    BY DEF ReadsHold
  <2>3. CASE UNCHANGED <<claim, lines>>
    BY <2>3 DEF HeaderMatchesLines
  <2>4. ASSUME NEW r \in Rates, UpdateClaim(w, r) PROVE HeaderMatchesLines'
    <3>1. c \in Claims /\ claim' = [claim EXCEPT ![c].rates = r, ![c].totals = Totals(Subtotal(lines[c]), r)]
      BY <2>1, <2>4 DEF UpdateClaim, HasClaim
    <3>2. claim'[c].totals = Totals(Subtotal(lines[c]), r) /\ claim'[c].rates = r /\ lines' = lines
      BY <2>4, <3>1 DEF UpdateClaim, IInv, TypeOK, ClaimSet
    <3>3. \A d \in Claims \ {c} : claim'[d] = claim[d]
      BY <3>1 DEF IInv, TypeOK
    <3> HIDE DEF c
    <3> QED BY <3>1, <3>2, <3>3, HeaderOfOne
  <2>5. CASE CommitLine(w)
    <3>1. /\ c \in Claims
          /\ claim' = [claim EXCEPT ![c].totals = Totals(q.subtotal, q.rates)]
          /\ lines' = [lines EXCEPT ![c][q.item] = q.amount]
      BY <2>1, <2>5 DEF CommitLine, HasClaim
    <3>2. q.subtotal = Subtotal([lines[c] EXCEPT ![q.item] = q.amount]) /\ q.rates = claim[c].rates
      BY <2>2, <2>5 DEF ReadHolds, CommitLine
    <3>3. lines'[c] = [lines[c] EXCEPT ![q.item] = q.amount]
      BY <3>1 DEF IInv, TypeOK
    <3>4. claim'[c].totals = Totals(q.subtotal, q.rates) /\ claim'[c].rates = claim[c].rates
      BY <3>1 DEF IInv, TypeOK, ClaimSet
    <3>5. \A d \in Claims \ {c} : claim'[d] = claim[d] /\ lines'[d] = lines[d]
      BY <3>1 DEF IInv, TypeOK
    <3> HIDE DEF c, q
    <3> QED BY <3>1, <3>2, <3>3, <3>4, <3>5, HeaderOfOne
  <2>6. CASE CommitRecompute(w) \/ CommitSubmit(w)
    <3>1. /\ c \in Claims
          /\ \/ claim' = [claim EXCEPT ![c].totals = Totals(q.subtotal, q.rates)]
             \/ claim' = [claim EXCEPT ![c].totals = Totals(q.subtotal, q.rates), ![c].status = "submitted"]
          /\ lines' = lines
      BY <2>1, <2>6 DEF CommitRecompute, CommitSubmit, HasClaim
    <3>2. q.subtotal = Subtotal(lines[c]) /\ q.rates = claim[c].rates
      BY <2>2, <2>6 DEF ReadHolds, CommitRecompute, CommitSubmit
    <3>3. claim'[c].totals = Totals(q.subtotal, q.rates) /\ claim'[c].rates = claim[c].rates
      BY <3>1 DEF IInv, TypeOK, ClaimSet
    <3>4. \A d \in Claims \ {c} : claim'[d] = claim[d] /\ lines'[d] = lines[d]
      BY <3>1 DEF IInv, TypeOK
    <3> HIDE DEF c, q
    <3> QED BY <3>1, <3>2, <3>3, <3>4, HeaderOfOne
  <2>7. \/ UNCHANGED <<claim, lines>>
        \/ \E r \in Rates : UpdateClaim(w, r)
        \/ CommitLine(w) \/ CommitRecompute(w) \/ CommitSubmit(w)
    BY <1>1 DEF Edit, EnsureDraft, AddLine, UpdateLine, WriteLine, SumLines
  <2> QED BY <2>3, <2>4, <2>5, <2>6, <2>7
<1>2. ASSUME NEW w \in Workers, Sign(w) PROVE HeaderMatchesLines'
  <2> DEFINE c == req[w].claim
  <2>1. CASE UNCHANGED <<claim, lines>>
    BY <2>1 DEF HeaderMatchesLines
  <2>2. CASE claim' # claim
    <3>1. req[w].at = "review" /\ lines' = lines
      BY <1>2, <2>2 DEF Sign, EnsureInReview, SignCdt, SignTvgs
    <3>2. c \in Claims /\ claim[c].status # "absent"
      BY <3>1, RequestFields DEF IInv, TypeOK, RequestsHaveRows, HasClaim
    <3>3. \/ \E s \in ClaimStatuses : claim' = [claim EXCEPT ![c].status = s]
          \/ \E s \in ClaimStatuses, t \in {"approve", "reject"} :
                claim' = [claim EXCEPT ![c].cdt = t, ![c].status = s]
      BY <1>2, <2>2 DEF Sign, EnsureInReview, SignCdt, SignTvgs, ClaimStatuses
    <3> HIDE DEF c
    <3> QED BY <3>1, <3>2, <3>3, HeaderStaysSame DEF IInv
  <2>3. lines' = lines
    BY <1>2 DEF Sign, EnsureInReview, SignCdt, SignTvgs
  <2> QED BY <2>1, <2>2, <2>3
<1>3. ASSUME NEW c \in Claims, MarkPaid(c) \/ CancelClaim(c) PROVE HeaderMatchesLines'
  <2>1. claim[c].status # "absent" /\ lines' = lines
    BY <1>3 DEF MarkPaid, CancelClaim
  <2>2. \E s \in ClaimStatuses : claim' = [claim EXCEPT ![c].status = s]
    BY <1>3 DEF MarkPaid, CancelClaim, ClaimStatuses
  <2> QED BY <2>1, <2>2, HeaderStaysSame DEF IInv
<1>4. ASSUME NEW w \in Workers, NEW c \in Claims, NEW r \in Rates, InsertClaim(w, c, r)
      PROVE  HeaderMatchesLines'
  <2>1. lines[c] = NoLines /\ lines' = lines
    BY <1>4 DEF InsertClaim, IInv, RowsAreSound, Absent
  <2>2. claim'[c].totals = NoTotals /\ claim'[c].rates = r /\ \A d \in Claims \ {c} : claim'[d] = claim[d]
    BY <1>4 DEF InsertClaim, IInv, TypeOK, Absent
  <2>3. NoTotals = Totals(Subtotal(lines'[c]), r)
    <3>1. r \in AnyRates
      BY DEF AnyRates
    <3> QED BY <2>1, <3>1, SubtotalOfNothing, TotalsOfNothing
  <2> QED BY <2>1, <2>2, <2>3, HeaderOfOne
<1>5. CASE UNCHANGED <<claim, lines>>
  BY <1>5 DEF HeaderMatchesLines
<1>6. ASSUME NEW w \in Workers, ReadSequence(w) \/ Drop(w) PROVE UNCHANGED <<claim, lines>>
  BY <1>6 DEF ReadSequence, Drop
<1>7. UNCHANGED vars => UNCHANGED <<claim, lines>>
  BY DEF vars
<1> QED BY <1>1, <1>2, <1>3, <1>4, <1>5, <1>6, <1>7 DEF Next

\* A claim that was paid is paid for good.
PaidForGood ==
    \A c \in Claims : payments[c] = 0 \/ (payments[c] = 1 /\ claim[c].status = "paid")

\* Rows are numbered from 1, each with a number of its own.
NumberedApart ==
    \A c \in Claims : claim[c].status # "absent" =>
        /\ claim[c].sequence >= 1
        /\ \A d \in Claims \ {c} : claim[d].status # "absent" => claim[c].sequence # claim[d].sequence

\* How a step may change the status of a claim when reads hold.
LEMMA StatusStep ==
    ASSUME IInv, ReadsHold, [Next]_vars, NEW c \in Claims
    PROVE  /\ \/ payments'[c] = payments[c]
              \/ payments'[c] = payments[c] + 1 /\ claim[c].status = "approved" /\ claim'[c].status = "paid"
           /\ claim[c].status = "paid" => claim'[c].status = "paid"
           /\ claim[c].status # "absent" =>
                 claim'[c].status # "absent" /\ claim'[c].sequence = claim[c].sequence
<1> DEFINE Goal ==
           /\ \/ payments'[c] = payments[c]
              \/ payments'[c] = payments[c] + 1 /\ claim[c].status = "approved" /\ claim'[c].status = "paid"
           /\ claim[c].status = "paid" => claim'[c].status = "paid"
           /\ claim[c].status # "absent" =>
                 claim'[c].status # "absent" /\ claim'[c].sequence = claim[c].sequence
<1>1. CASE UNCHANGED <<claim, lines, payments>>
  BY <1>1
<1>2. ASSUME NEW w \in Workers, NEW r \in Rates, UpdateClaim(w, r) PROVE Goal
  <2>1. req[w].claim \in Claims /\ claim[req[w].claim].status = "draft"
    BY <1>2, RequestFields DEF UpdateClaim, ReadsHold, ReadHolds, IInv, TypeOK, HasClaim
  <2> QED BY <1>2, <2>1 DEF UpdateClaim, IInv, TypeOK, ClaimSet
<1>3. ASSUME NEW w \in Workers, CommitLine(w) \/ CommitRecompute(w) \/ CommitSubmit(w) PROVE Goal
  <2>1. req[w].claim \in Claims /\ claim[req[w].claim].status = "draft"
    BY <1>3, RequestFields DEF CommitLine, CommitRecompute, CommitSubmit, ReadsHold, ReadHolds, IInv, TypeOK, HasClaim
  <2> DEFINE x == req[w].claim
             q == req[w]
  <2>2. /\ \/ claim' = [claim EXCEPT ![x].totals = Totals(q.subtotal, q.rates)]
           \/ claim' = [claim EXCEPT ![x].totals = Totals(q.subtotal, q.rates), ![x].status = "submitted"]
        /\ payments' = payments
        /\ lines' = lines \/ lines' = [lines EXCEPT ![x][q.item] = q.amount]
    BY <1>3 DEF CommitLine, CommitRecompute, CommitSubmit
  <2>3. claim \in [Claims -> ClaimSet] /\ lines \in [Claims -> [Items -> Line]]
    BY DEF IInv, TypeOK
  <2> HIDE DEF x, q
  <2>4. c # x => claim'[c] = claim[c] /\ lines'[c] = lines[c]
    BY <2>2, <2>3
  <2>5. c = x => claim'[c].status \in {"draft", "submitted"} /\ claim'[c].sequence = claim[c].sequence
    BY <2>1, <2>2, <2>3 DEF x, ClaimSet
  <2> QED BY <2>1, <2>2, <2>4, <2>5 DEF x
<1>4. ASSUME NEW w \in Workers, SignTvgs(w) \/ \E decision \in {"approve", "reject"} : SignCdt(w, decision)
      PROVE  Goal
  <2>1. req[w].claim \in Claims /\ claim[req[w].claim].status \in {"submitted", "in_review"}
    BY <1>4, RequestFields DEF SignTvgs, SignCdt, ReadsHold, ReadHolds, IInv, TypeOK, HasClaim
  <2> DEFINE x == req[w].claim
  <2>2. /\ \/ claim' = claim
           \/ claim' = [claim EXCEPT ![x].status = "in_review"]
           \/ \E decision \in {"approve", "reject"} :
                 claim' = [claim EXCEPT ![x].cdt = decision,
                                        ![x].status = IF decision = "approve" THEN "approved" ELSE "rejected"]
        /\ payments' = payments /\ lines' = lines
    BY <1>4 DEF SignTvgs, SignCdt
  <2>3. claim \in [Claims -> ClaimSet]
    BY DEF IInv, TypeOK
  <2> HIDE DEF x
  <2>4. c # x => claim'[c] = claim[c]
    BY <2>2, <2>3
  <2>5. c = x => /\ claim'[c].status \in {"in_review", "approved", "rejected", claim[c].status}
                 /\ claim'[c].sequence = claim[c].sequence /\ claim'[c].totals = claim[c].totals
    BY <2>1, <2>2, <2>3 DEF x, ClaimSet
  <2> QED BY <2>1, <2>2, <2>4, <2>5 DEF x
<1>5. ASSUME NEW d \in Claims, MarkPaid(d) \/ CancelClaim(d) PROVE Goal
  <2>1. claim \in [Claims -> ClaimSet] /\ payments \in [Claims -> 0..MaxPayments] /\ BoundAssumption
    BY BoundAssumption DEF IInv, TypeOK
  <2>2. lines' = lines /\ claim[d].status \notin {"absent", "paid"}
    BY <1>5 DEF MarkPaid, CancelClaim
  <2>3. c # d => claim'[c] = claim[c] /\ payments'[c] = payments[c]
    BY <1>5, <2>1 DEF MarkPaid, CancelClaim
  <2>4. claim'[d].sequence = claim[d].sequence /\ claim'[d].totals = claim[d].totals
    BY <1>5, <2>1 DEF MarkPaid, CancelClaim, ClaimSet
  <2>5. CASE MarkPaid(d)
    <3>1. claim[d].status = "approved" /\ claim'[d].status = "paid" /\ payments'[d] = payments[d] + 1
      BY <2>1, <2>5 DEF MarkPaid, ClaimSet
    <3> QED BY <2>2, <2>3, <2>4, <3>1
  <2>6. CASE CancelClaim(d)
    <3>1. claim'[d].status = "cancelled" /\ payments' = payments
      BY <2>1, <2>6 DEF CancelClaim, ClaimSet
    <3> QED BY <2>2, <2>3, <2>4, <3>1
  <2> QED BY <1>5, <2>5, <2>6
<1>6. ASSUME NEW w \in Workers, NEW d \in Claims, NEW r \in Rates, InsertClaim(w, d, r) PROVE Goal
  <2>1. claim[d].status = "absent"
    BY <1>6 DEF InsertClaim, Absent
  <2> QED BY <1>6, <2>1 DEF InsertClaim, IInv, TypeOK, ClaimSet
<1>7. ASSUME NEW w \in Workers, ReadSequence(w) \/ Drop(w) \/ (\E d \in Claims : EnsureInReview(w, d))
      PROVE  UNCHANGED <<claim, lines, payments>>
  BY <1>7 DEF ReadSequence, Drop, EnsureInReview
<1>8. ASSUME NEW w \in Workers, Edit(w)
      PROVE  \/ UNCHANGED <<claim, lines, payments>>
             \/ \E r \in Rates : UpdateClaim(w, r)
             \/ CommitLine(w) \/ CommitRecompute(w) \/ CommitSubmit(w)
  BY <1>8 DEF Edit, EnsureDraft, AddLine, UpdateLine, WriteLine, SumLines
<1>9. UNCHANGED vars => UNCHANGED <<claim, lines, payments>>
  BY DEF vars
<1> HIDE DEF Goal
<1>10. Goal
  BY <1>1, <1>2, <1>3, <1>4, <1>5, <1>6, <1>7, <1>8, <1>9 DEF Next, Sign, Goal
<1> QED BY <1>10 DEF Goal

LEMMA PaidForGoodKept ==
    ASSUME IInv, ReadsHold, PaidForGood, [Next]_vars
    PROVE  PaidForGood'
BY StatusStep DEF PaidForGood

LEMMA NumberedApartKept ==
    ASSUME IInv, ReadsHold, NumberedApart, [Next]_vars
    PROVE  NumberedApart'
<1>1. CASE \A c \in Claims : claim[c].status = "absent" => claim'[c] = claim[c]
  BY <1>1, StatusStep DEF NumberedApart
<1>2. ASSUME NEW c \in Claims, claim[c].status = "absent", claim'[c] # claim[c] PROVE NumberedApart'
  <2>1. PICK w \in Workers, r \in Rates : InsertClaim(w, c, r)
    <3>1. ASSUME NEW w \in Workers, Edit(w) \/ Sign(w) PROVE FALSE
      <4>1. claim'[c] = claim[c] \/ (HasClaim(req[w]) /\ req[w].claim = c)
        BY <1>2, <3>1 DEF Edit, Sign, EnsureDraft, UpdateClaim, AddLine, UpdateLine, WriteLine, SumLines,
           CommitLine, CommitRecompute, CommitSubmit, EnsureInReview, SignCdt, SignTvgs, HasClaim, IInv, TypeOK
      <4> QED BY <1>2, <4>1 DEF IInv, RequestsHaveRows
    <3>2. ASSUME NEW d \in Claims, MarkPaid(d) \/ CancelClaim(d) PROVE FALSE
      BY <1>2, <3>2 DEF MarkPaid, CancelClaim, IInv, TypeOK
    <3>3. ASSUME NEW w \in Workers, ReadSequence(w) \/ Drop(w) PROVE FALSE
      BY <1>2, <3>3 DEF ReadSequence, Drop
    <3>4. ASSUME NEW w \in Workers, NEW d \in Claims, NEW r \in Rates, InsertClaim(w, d, r), d # c PROVE FALSE
      BY <1>2, <3>4 DEF InsertClaim, IInv, TypeOK
    <3>5. claim' # claim
      BY <1>2
    <3> QED BY <3>1, <3>2, <3>3, <3>4, <3>5 DEF Next, vars
  <2>2. req[w].sequence = NextSequence
    BY <2>1 DEF InsertClaim, ReadsHold, ReadHolds
  <2>3. /\ claim'[c].sequence = NextSequence
        /\ \A d \in Claims \ {c} : claim'[d] = claim[d]
    BY <2>1, <2>2 DEF InsertClaim, IInv, TypeOK, Absent
  <2>4. NextSequence \in Nat \ {0} /\ \A d \in Claims : claim[d].sequence < NextSequence /\ claim[d].sequence \in Nat
    BY NextSequenceType DEF IInv, TypeOK, ClaimSet
  <2> QED BY <2>3, <2>4 DEF NumberedApart
<1> QED BY <1>1, <1>2

-----------------------------------------------------------------------------
(* Payments and approvals.                                                 *)

\* An approved claim has one approval more than payments.  Past MaxPayments
\* approvals are no longer counted, nor payments made.
PaymentsCovered ==
    \A c \in Claims :
        \/ payments[c] + (IF claim[c].status = "approved" THEN 1 ELSE 0) <= approvals[c]
        \/ approvals[c] = MaxPayments

\* Only the owner's signature makes a claim approved.
LEMMA ApprovedBySignature ==
    ASSUME IInv, [Next]_vars
    PROVE  \/ /\ UNCHANGED <<payments, approvals>>
              /\ \A c \in Claims : claim'[c].status = "approved" => claim[c].status = "approved"
           \/ \E x \in Claims :
                 /\ payments' = payments
                 /\ approvals' = [approvals EXCEPT ![x] = Min({MaxPayments, @ + 1})]
                 /\ \A c \in Claims \ {x} : claim'[c] = claim[c]
           \/ \E x \in Claims : MarkPaid(x)
<1> DEFINE Quiet == /\ UNCHANGED <<payments, approvals>>
                    /\ \A c \in Claims : claim'[c].status = "approved" => claim[c].status = "approved"
<1>0. claim \in [Claims -> ClaimSet]
  BY DEF IInv, TypeOK
<1>1. CASE UNCHANGED <<claim, payments, approvals>>
  BY <1>1
<1>2. ASSUME NEW w \in Workers, NEW c \in Claims, NEW r \in Rates, InsertClaim(w, c, r) PROVE Quiet
  BY <1>0, <1>2 DEF InsertClaim, Absent
<1>3. ASSUME NEW w \in Workers, NEW r \in Rates, UpdateClaim(w, r) PROVE Quiet
  BY <1>0, <1>3 DEF UpdateClaim, ClaimSet
<1>4. ASSUME NEW w \in Workers, CommitLine(w) \/ CommitRecompute(w) \/ CommitSubmit(w) PROVE Quiet
  BY <1>0, <1>4 DEF CommitLine, CommitRecompute, CommitSubmit, ClaimSet
<1>5. ASSUME NEW w \in Workers, SignTvgs(w) PROVE Quiet
  BY <1>0, <1>5 DEF SignTvgs, ClaimSet
<1>6. ASSUME NEW c \in Claims, CancelClaim(c) PROVE Quiet
  BY <1>0, <1>6 DEF CancelClaim, ClaimSet
<1>7. ASSUME NEW w \in Workers, SignCdt(w, "reject") PROVE Quiet
  BY <1>0, <1>7 DEF SignCdt, ClaimSet
<1>8. ASSUME NEW w \in Workers, SignCdt(w, "approve")
      PROVE  \E x \in Claims :
                 /\ payments' = payments
                 /\ approvals' = [approvals EXCEPT ![x] = Min({MaxPayments, @ + 1})]
                 /\ \A c \in Claims \ {x} : claim'[c] = claim[c]
  <2>1. req[w].claim \in Claims
    BY <1>8, RequestFields DEF SignCdt, IInv, TypeOK, HasClaim
  <2> QED BY <1>0, <1>8, <2>1 DEF SignCdt
<1>9. ASSUME NEW w \in Workers, ReadSequence(w) \/ Drop(w) \/ (\E c \in Claims : EnsureInReview(w, c))
      PROVE  UNCHANGED <<claim, payments, approvals>>
  BY <1>9 DEF ReadSequence, Drop, EnsureInReview
<1>10. ASSUME NEW w \in Workers, Edit(w)
       PROVE  \/ UNCHANGED <<claim, payments, approvals>>
              \/ \E r \in Rates : UpdateClaim(w, r)
              \/ CommitLine(w) \/ CommitRecompute(w) \/ CommitSubmit(w)
  BY <1>10 DEF Edit, EnsureDraft, AddLine, UpdateLine, WriteLine, SumLines
<1>11. UNCHANGED vars => UNCHANGED <<claim, payments, approvals>>
  BY DEF vars
<1> HIDE DEF Quiet
<1>12. \/ Quiet \/ UNCHANGED <<claim, payments, approvals>>
       \/ \E x \in Claims :
                 /\ payments' = payments
                 /\ approvals' = [approvals EXCEPT ![x] = Min({MaxPayments, @ + 1})]
                 /\ \A c \in Claims \ {x} : claim'[c] = claim[c]
       \/ \E x \in Claims : MarkPaid(x)
  BY <1>2, <1>3, <1>4, <1>5, <1>6, <1>7, <1>8, <1>9, <1>10, <1>11 DEF Next, Sign
<1> QED BY <1>1, <1>12 DEF Quiet

LEMMA CoveredKept ==
    ASSUME IInv, PaymentsCovered, [Next]_vars
    PROVE  PaymentsCovered'
<1>0. /\ payments \in [Claims -> 0..MaxPayments] /\ approvals \in [Claims -> 0..MaxPayments]
      /\ claim \in [Claims -> ClaimSet] /\ MaxPayments \in Nat
  BY BoundAssumption DEF IInv, TypeOK
<1>1. CASE /\ UNCHANGED <<payments, approvals>>
           /\ \A c \in Claims : claim'[c].status = "approved" => claim[c].status = "approved"
  BY <1>0, <1>1 DEF PaymentsCovered
<1>2. ASSUME NEW x \in Claims, payments' = payments,
             approvals' = [approvals EXCEPT ![x] = Min({MaxPayments, @ + 1})],
             \A c \in Claims \ {x} : claim'[c] = claim[c]
      PROVE  PaymentsCovered'
  <2>1. approvals'[x] = MaxPayments \/ approvals'[x] = approvals[x] + 1
    <3>1. \A n \in 0..MaxPayments : Min({MaxPayments, n + 1}) \in {MaxPayments, n + 1}
      BY <1>0, MinOfTwo
    <3> QED BY <1>0, <1>2, <3>1
  <2>2. payments[x] \in Nat /\ approvals[x] \in Nat /\ (payments[x] <= approvals[x] \/ approvals[x] = MaxPayments)
    BY <1>0 DEF PaymentsCovered
  <2>3. payments[x] <= approvals[x]
    BY <1>0, <2>2
  <2>4. \A c \in Claims \ {x} : approvals'[c] = approvals[c]
    BY <1>0, <1>2
  <2>5. \/ payments'[x] + (IF claim'[x].status = "approved" THEN 1 ELSE 0) <= approvals'[x]
        \/ approvals'[x] = MaxPayments
    BY <1>2, <2>1, <2>2, <2>3
  <2> QED BY <1>2, <2>4, <2>5 DEF PaymentsCovered
<1>3. ASSUME NEW x \in Claims, MarkPaid(x) PROVE PaymentsCovered'
  <2>1. /\ claim[x].status = "approved" /\ payments[x] < MaxPayments /\ approvals' = approvals
        /\ claim' = [claim EXCEPT ![x].status = "paid"] /\ payments' = [payments EXCEPT ![x] = @ + 1]
    BY <1>3 DEF MarkPaid
  <2>2. claim'[x].status = "paid" /\ payments'[x] = payments[x] + 1
    BY <1>0, <2>1 DEF ClaimSet
  <2>3. payments[x] + 1 <= approvals[x] \/ approvals[x] = MaxPayments
    BY <1>0, <2>1 DEF PaymentsCovered
  <2>4. payments'[x] + 0 <= approvals'[x] \/ approvals'[x] = MaxPayments
    BY <1>0, <2>1, <2>2, <2>3
  <2>5. \A c \in Claims \ {x} : claim'[c] = claim[c] /\ payments'[c] = payments[c] /\ approvals'[c] = approvals[c]
    BY <1>0, <2>1
  <2>6. \A c \in Claims \ {x} :
           \/ payments'[c] + (IF claim'[c].status = "approved" THEN 1 ELSE 0) <= approvals'[c]
           \/ approvals'[c] = MaxPayments
    BY <2>5 DEF PaymentsCovered
  <2> QED BY <2>2, <2>4, <2>6 DEF PaymentsCovered
<1> QED BY <1>1, <1>2, <1>3, ApprovedBySignature

-----------------------------------------------------------------------------
(* The theorems.                                                           *)

\* Rows, requests and their totals fit together in every state.
THEOREM ClaimsInvariant == Spec => []IInv
<1> QED BY InitIInv, NextIInv, PTL DEF Spec

\* The columns of headers and lines, what requests have read, and the counts
\* of payments and approvals keep their domains.
THEOREM ClaimsType == Spec => []TypeOK
<1>1. IInv => TypeOK
  BY DEF IInv
<1> QED BY <1>1, ClaimsInvariant, PTL

\* An approved or paid claim has the owner's approval, whatever stale check
\* let a signature through.
THEOREM ApprovalIsTheOwners == Spec => []ApprovedByOwner
<1>1. IInv => ApprovedByOwner
  BY DEF IInv
<1> QED BY <1>1, ClaimsInvariant, PTL

\* The rounded parts of every header add up but for a dong, for any amounts
\* and any integer rates, of either sign and in any unit.
THEOREM PartsOfAnyClaimAddUp == Spec => []PartsAddUp
<1>1. IInv => PartsAddUp
  BY DEF IInv
<1> QED BY <1>1, ClaimsInvariant, PTL

\* With reads that hold the header is what lines and rates say, in all
\* statuses and for any amounts and rates.
THEOREM ReadsKeepTotals == Spec => HeldReadsKeepTotals
<1>1. Init => HeaderMatchesLines
  BY DEF Init, HeaderMatchesLines, Absent
<1>2. IInv /\ ReadsHold /\ HeaderMatchesLines /\ [Next]_vars => HeaderMatchesLines'
  BY HeaderKept
<1> QED BY <1>1, <1>2, ClaimsInvariant, PTL DEF Spec, HeldReadsKeepTotals

\* With reads that hold a claim is paid at most once.
THEOREM ReadsPayOnce == Spec => HeldReadsPayOnce
<1>1. Init => PaidForGood
  BY DEF Init, PaidForGood
<1>2. IInv /\ ReadsHold /\ PaidForGood /\ [Next]_vars => PaidForGood'
  BY PaidForGoodKept
<1>3. PaidForGood => PaidOnce
  BY DEF PaidForGood, PaidOnce
<1> QED BY <1>1, <1>2, <1>3, ClaimsInvariant, PTL DEF Spec, HeldReadsPayOnce

\* With reads that hold no two claims have one number.
THEOREM ReadsNumberApart == Spec => HeldReadsNumberApart
<1>1. Init => NumberedApart
  BY DEF Init, NumberedApart, Absent
<1>2. IInv /\ ReadsHold /\ NumberedApart /\ [Next]_vars => NumberedApart'
  BY NumberedApartKept
<1>3. IInv /\ NumberedApart => SequencesDiffer
  BY DEF IInv, RowsAreSound, NumberedApart, SequencesDiffer, Absent
<1> QED BY <1>1, <1>2, <1>3, ClaimsInvariant, PTL DEF Spec, HeldReadsNumberApart

\* No claim is paid more often than its owner has approved it: mark_paid finds
\* the status that only the owner's signature writes, and takes it away.
THEOREM PaymentsAreApproved == Spec => []PaidPerApproval
<1>1. Init => PaymentsCovered
  <2>1. ASSUME NEW c \in Claims, Init PROVE payments[c] = 0 /\ approvals[c] = 0 /\ claim[c].status = "absent"
    BY <2>1 DEF Init, Absent
  <2> QED BY <2>1 DEF PaymentsCovered
<1>2. IInv /\ PaymentsCovered /\ [Next]_vars => PaymentsCovered'
  BY CoveredKept
<1>3. IInv /\ PaymentsCovered => PaidPerApproval
  BY BoundAssumption DEF IInv, TypeOK, PaymentsCovered, PaidPerApproval
<1> QED BY <1>1, <1>2, <1>3, ClaimsInvariant, PTL DEF Spec
=============================================================================
