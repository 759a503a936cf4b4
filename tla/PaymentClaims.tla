---------------------------- MODULE PaymentClaims ----------------------------
(***************************************************************************)
(* The progress payment claims of one project (routers/thanhtoan.py): the  *)
(* header rows of payment_claims, their payment_claim_lines, and the HTTP  *)
(* handlers that create, edit, submit, sign, pay and cancel a claim.       *)
(*                                                                         *)
(* Every handler is one transaction of PostgreSQL at READ COMMITTED.  Most *)
(* of them check the status with a plain SELECT and later UPDATE by id, so *)
(* that the row may have changed in between; they are split there.  Rates  *)
(* are what the columns hold: exact decimals, whole numbers of 1 / One.    *)
(***************************************************************************)
EXTENDS Integers, FiniteSets, FiniteSetsExt

CONSTANTS
    Claims,         \* ids of payment_claims rows
    Items,          \* work item codes
    Amounts,        \* amounts of a line, in VND
    One,            \* the rate 1 in the unit of the columns: 10000 for Numeric(5, 4)
    Rates,          \* records [vat, retention, tndn] in that unit; nothing bounds a rate
    Workers,        \* requests served at the same time
    MaxPayments,    \* bound: times a claim is marked paid
    Followed,       \* bound: the claims that are edited, the others are only
                    \* created, all with the same rates, and cancelled
    NoLine          \* a work item without a line in a claim

ASSUME DataAssumption ==
    /\ Amounts \subseteq Nat
    /\ One \in Nat \ {0}
    /\ Rates \subseteq [vat : Int, retention : Int, tndn : Int] /\ Rates # {}
    /\ NoLine \notin Amounts
    /\ Followed \subseteq Claims
    /\ IsFiniteSet(Claims) /\ IsFiniteSet(Items)

ASSUME BoundAssumption == MaxPayments \in Nat

VARIABLES
    claim,          \* the header row of each claim
    lines,          \* its lines: the amount of each work item
    req,            \* what each request has read and not yet acted on
    payments,       \* ghost: how often the claim was marked paid
    approvals       \* ghost: how often the owner approved it, up to MaxPayments

vars == <<claim, lines, req, payments, approvals>>

-----------------------------------------------------------------------------
\* ROUND_HALF_UP of x / unit: half a dong goes away from zero.
RoundVnd(x, unit) ==
    IF x >= 0 THEN (2 * x + unit) \div (2 * unit) ELSE -((unit - 2 * x) \div (2 * unit))

\* Fault: the retention is taken before VAT in the net amount only.
TotalsNetOfSubtotal(subtotal, r) ==
    LET unit      == One * One
        vat       == subtotal * One * r.vat
        gross     == subtotal * unit + vat
        tndn      == subtotal * One * r.tndn
        Round(x)  == RoundVnd(x, unit)
    IN  [subtotal |-> subtotal, vat |-> Round(vat), gross |-> Round(gross),
         retention |-> Round(subtotal * (One + r.vat) * r.retention), tndn |-> Round(tndn),
         net |-> Round(gross - subtotal * One * r.retention - tndn)]

\* recompute_totals: exact decimals, in units of 1 / One^2 of a dong, each
\* component rounded on its own.
Totals(subtotal, r) ==
    LET unit      == One * One
        vat       == subtotal * One * r.vat
        gross     == subtotal * unit + vat
        retention == subtotal * (One + r.vat) * r.retention
        tndn      == subtotal * One * r.tndn
        Round(x)  == RoundVnd(x, unit)
    IN  [subtotal |-> subtotal, vat |-> Round(vat), gross |-> Round(gross),
         retention |-> Round(retention), tndn |-> Round(tndn),
         net |-> Round(gross - retention - tndn)]

ClaimStatuses == {"draft", "submitted", "in_review", "approved", "rejected", "paid", "cancelled"}

NoTotals == [subtotal |-> 0, vat |-> 0, gross |-> 0, retention |-> 0, tndn |-> 0, net |-> 0]

\* ck_payment_claims_amounts_nonneg: an UPDATE that breaks it fails, and the
\* request with it.
TotalsSet == [{"subtotal", "vat", "gross", "retention", "tndn", "net"} -> Nat]

NoRates == [vat |-> 0, retention |-> 0, tndn |-> 0]

ClaimSet == [status : ClaimStatuses \cup {"absent"}, sequence : Nat, rates : Rates \cup {NoRates},
             totals : TotalsSet, cdt : {"none", "approve", "reject"}]
Absent   == [status |-> "absent", sequence |-> 0, rates |-> NoRates,
             totals |-> NoTotals, cdt |-> "none"]

Line == Amounts \cup {NoLine}

\* A request between two statements.  "new": next_seq is read.  "draft":
\* _ensure_draft has passed.  "review": sign_claim has passed its check.
\* "line": a line is written, not committed, and the lines are summed.
\* "submit", "recompute": the lines are summed.
Idle == [at |-> "idle"]
Requests ==
    {Idle}
      \cup [at : {"new"}, sequence : Nat]
      \cup [at : {"draft"}, claim : Claims, rates : Rates]
      \cup [at : {"review"}, claim : Claims, seen : {"submitted", "in_review"}]
      \cup [at : {"line"}, claim : Claims, item : Items, amount : Amounts, rates : Rates, subtotal : Nat]
      \cup [at : {"submit", "recompute"}, claim : Claims, rates : Rates, subtotal : Nat]

TypeOK ==
    /\ claim \in [Claims -> ClaimSet]
    /\ lines \in [Claims -> [Items -> Line]]
    /\ req \in [Workers -> Requests]
    /\ payments \in [Claims -> 0..MaxPayments]
    /\ approvals \in [Claims -> 0..MaxPayments]

Init ==
    /\ claim = [c \in Claims |-> Absent]
    /\ lines = [c \in Claims |-> [i \in Items |-> NoLine]]
    /\ req = [w \in Workers |-> Idle]
    /\ payments = [c \in Claims |-> 0]
    /\ approvals = [c \in Claims |-> 0]

Become(w, r) == req' = [req EXCEPT ![w] = r]

\* The subtotal of a set of lines.
Subtotal(ls) == SumFunctionOnSet(ls, {i \in Items : ls[i] # NoLine})

-----------------------------------------------------------------------------
(* create_claim                                                            *)

\* Fault: cancelled claims do not count.
NextSequenceOfLive ==
    Max({claim[c].sequence : c \in {d \in Claims : claim[d].status # "cancelled"}} \cup {0}) + 1

NextSequence == Max({claim[c].sequence : c \in Claims} \cup {0}) + 1

ReadSequence(w) ==
    /\ req[w] = Idle
    /\ \E c \in Claims : claim[c] = Absent
    /\ Become(w, [at |-> "new", sequence |-> NextSequence])
    /\ UNCHANGED <<claim, lines, payments, approvals>>

InsertClaim(w, c, r) ==
    /\ req[w].at = "new"
    /\ claim[c] = Absent
    /\ c \notin Followed => r = CHOOSE x \in Rates : TRUE
    /\ claim' = [claim EXCEPT ![c] = [Absent EXCEPT !.status = "draft", !.sequence = req[w].sequence, !.rates = r]]
    /\ Become(w, Idle)
    /\ UNCHANGED <<lines, payments, approvals>>

-----------------------------------------------------------------------------
(* Editing a draft.                                                        *)

\* _ensure_draft, and the same check in the SELECT of update_line.
EnsureDraft(w, c) ==
    /\ req[w] = Idle
    /\ claim[c].status = "draft"
    /\ Become(w, [at |-> "draft", claim |-> c, rates |-> claim[c].rates])
    /\ UNCHANGED <<claim, lines, payments, approvals>>

\* update_claim with a rate: its UPDATE locks the row, so that the totals it
\* writes are those of the lines at its commit.
UpdateClaim(w, r) ==
    /\ req[w].at = "draft"
    /\ LET c == req[w].claim
           t == Totals(Subtotal(lines[c]), r) IN
       /\ t \in TotalsSet
       /\ claim' = [claim EXCEPT ![c].rates = r, ![c].totals = t]
    /\ Become(w, Idle)
    /\ UNCHANGED <<lines, payments, approvals>>

\* Another transaction holds the line's row or its key.
LineLocked(w, c, i) ==
    \E v \in Workers \ {w} : req[v].at = "line" /\ req[v].claim = c /\ req[v].item = i

WriteLine(w, c, i, amount, r) ==
    /\ ~LineLocked(w, c, i)
    /\ Become(w, [at |-> "line", claim |-> c, item |-> i, amount |-> amount, rates |-> r,
                  subtotal |-> Subtotal([lines[c] EXCEPT ![i] = amount])])
    /\ UNCHANGED <<claim, lines, payments, approvals>>

\* add_line: the INSERT, and the sum over the lines visible to it.  The
\* totals will use the rates _ensure_draft has read.
AddLine(w, i, amount) ==
    /\ req[w].at = "draft"
    /\ lines[req[w].claim][i] = NoLine
    /\ WriteLine(w, req[w].claim, i, amount, req[w].rates)

\* update_line: the UPDATE and the sum; the rates are read afresh.
UpdateLine(w, i, amount) ==
    /\ req[w].at = "draft"
    /\ lines[req[w].claim][i] # NoLine
    /\ WriteLine(w, req[w].claim, i, amount, claim[req[w].claim].rates)

\* Fault: the header is not recomputed.
CommitLineOnly(w) ==
    /\ req[w].at = "line"
    /\ LET q == req[w] IN lines' = [lines EXCEPT ![q.claim][q.item] = q.amount]
    /\ Become(w, Idle)
    /\ UNCHANGED <<claim, payments, approvals>>

\* The header UPDATE of _do_recompute, and the commit.
CommitLine(w) ==
    /\ req[w].at = "line"
    /\ LET q == req[w]
           t == Totals(q.subtotal, q.rates) IN
       /\ t \in TotalsSet
       /\ lines' = [lines EXCEPT ![q.claim][q.item] = q.amount]
       /\ claim' = [claim EXCEPT ![q.claim].totals = t]
    /\ Become(w, Idle)
    /\ UNCHANGED <<payments, approvals>>

\* recompute_claim and submit_claim sum the lines ...
SumLines(w, op) ==
    /\ req[w].at = "draft"
    /\ LET c == req[w].claim IN
       Become(w, [at |-> op, claim |-> c, rates |-> req[w].rates, subtotal |-> Subtotal(lines[c])])
    /\ UNCHANGED <<claim, lines, payments, approvals>>

\* ... and write the header, the one only its totals ...
CommitRecompute(w) ==
    /\ req[w].at = "recompute"
    /\ LET q == req[w]
           t == Totals(q.subtotal, q.rates) IN
       t \in TotalsSet /\ claim' = [claim EXCEPT ![q.claim].totals = t]
    /\ Become(w, Idle)
    /\ UNCHANGED <<lines, payments, approvals>>

\* ... and the other the status as well.
CommitSubmit(w) ==
    /\ req[w].at = "submit"
    /\ LET q == req[w]
           t == Totals(q.subtotal, q.rates) IN
       /\ t \in TotalsSet
       /\ claim' = [claim EXCEPT ![q.claim].totals = t, ![q.claim].status = "submitted"]
    /\ Become(w, Idle)
    /\ UNCHANGED <<lines, payments, approvals>>

-----------------------------------------------------------------------------
(* Deciding and paying.                                                    *)

\* sign_claim up to its check.
EnsureInReview(w, c) ==
    /\ req[w] = Idle
    /\ claim[c].status \in {"submitted", "in_review"}
    /\ Become(w, [at |-> "review", claim |-> c, seen |-> claim[c].status])
    /\ UNCHANGED <<claim, lines, payments, approvals>>

\* Faults: the decision is not looked at; a status the table does not know.
SignCdtAnyway(w, decision) ==
    /\ req[w].at = "review"
    /\ claim' = [claim EXCEPT ![req[w].claim].cdt = decision, ![req[w].claim].status = "approved"]
    /\ Become(w, Idle)
    /\ UNCHANGED <<lines, payments, approvals>>

SignCdtReviewed(w, decision) ==
    /\ req[w].at = "review"
    /\ claim' = [claim EXCEPT ![req[w].claim].cdt = decision, ![req[w].claim].status = "reviewed"]
    /\ Become(w, Idle)
    /\ UNCHANGED <<lines, payments, approvals>>

\* The owner (CDT) decides.
SignCdt(w, decision) ==
    /\ req[w].at = "review"
    /\ claim' = [claim EXCEPT ![req[w].claim].cdt = decision,
                              ![req[w].claim].status = IF decision = "approve" THEN "approved" ELSE "rejected"]
    /\ approvals' = IF decision = "approve"
                    THEN [approvals EXCEPT ![req[w].claim] = Min({MaxPayments, @ + 1})] ELSE approvals
    /\ Become(w, Idle)
    /\ UNCHANGED <<lines, payments>>

\* The supervisor (TVGS) signs: the first one moves the claim into review.
SignTvgs(w) ==
    /\ req[w].at = "review"
    /\ claim' = IF req[w].seen = "submitted"
                THEN [claim EXCEPT ![req[w].claim].status = "in_review"] ELSE claim
    /\ Become(w, Idle)
    /\ UNCHANGED <<lines, payments, approvals>>

\* Fault: the WHERE clause has no status.
MarkAnyPaid(c) ==
    /\ claim[c].status # "absent"
    /\ payments[c] < MaxPayments
    /\ claim' = [claim EXCEPT ![c].status = "paid"]
    /\ payments' = [payments EXCEPT ![c] = @ + 1]
    /\ UNCHANGED <<lines, req, approvals>>

\* mark_paid: one guarded UPDATE.
MarkPaid(c) ==
    /\ claim[c].status = "approved"
    /\ payments[c] < MaxPayments
    /\ claim' = [claim EXCEPT ![c].status = "paid"]
    /\ payments' = [payments EXCEPT ![c] = @ + 1]
    /\ UNCHANGED <<lines, req, approvals>>

\* cancel_claim: one guarded UPDATE, from every status but paid.
CancelClaim(c) ==
    /\ claim[c].status \notin {"absent", "paid"}
    /\ claim' = [claim EXCEPT ![c].status = "cancelled"]
    /\ UNCHANGED <<lines, req, payments, approvals>>

\* A request ends without a write: a conflict on a key, an amount below zero,
\* a lost connection, a process that dies.  Its transaction rolls back.
Drop(w) ==
    /\ req[w] # Idle
    /\ Become(w, Idle)
    /\ UNCHANGED <<claim, lines, payments, approvals>>

-----------------------------------------------------------------------------
Edit(w) ==
    \/ \E c \in Followed : EnsureDraft(w, c)
    \/ \E r \in Rates : UpdateClaim(w, r)
    \/ \E i \in Items, amount \in Amounts : AddLine(w, i, amount) \/ UpdateLine(w, i, amount)
    \/ CommitLine(w)
    \/ \E op \in {"submit", "recompute"} : SumLines(w, op)
    \/ CommitRecompute(w)
    \/ CommitSubmit(w)

Sign(w) ==
    \/ \E c \in Claims : EnsureInReview(w, c)
    \/ \E decision \in {"approve", "reject"} : SignCdt(w, decision)
    \/ SignTvgs(w)

Next ==
    \/ \E w \in Workers :
          \/ ReadSequence(w)
          \/ \E c \in Claims, r \in Rates : InsertClaim(w, c, r)
          \/ Edit(w) \/ Sign(w) \/ Drop(w)
    \/ \E c \in Claims : MarkPaid(c) \/ CancelClaim(c)

Spec == Init /\ [][Next]_vars

-----------------------------------------------------------------------------
(* What every request has read still holds: what SELECT ... FOR UPDATE, or *)
(* a status in the WHERE clause of the UPDATEs, would give.                *)

ReadHolds(q) ==
    /\ q.at = "new" => q.sequence = NextSequence
    /\ q.at \in {"draft", "line", "submit", "recompute"} =>
          claim[q.claim].status = "draft" /\ claim[q.claim].rates = q.rates
    /\ q.at = "line" => q.subtotal = Subtotal([lines[q.claim] EXCEPT ![q.item] = q.amount])
    /\ q.at \in {"submit", "recompute"} => q.subtotal = Subtotal(lines[q.claim])
    /\ q.at = "review" => claim[q.claim].status = q.seen

ReadsHold == \A w \in Workers : ReadHolds(req[w])

(* Properties.                                                             *)

\* An approved or paid claim carries the approval of the owner, however the
\* signatures, cancellations and late edits interleave: a rejection that
\* comes between the approval and the payment takes the status along.
ApprovedByOwner ==
    \A c \in Claims : claim[c].status \in {"approved", "paid"} => claim[c].cdt = "approve"

\* Every payment has an approval of its own, whatever stale checks write: a
\* late signature of the supervisor or a late edit may take a claim out of its
\* status, even out of paid, but it is not paid again unless the owner has
\* approved it again.
PaidPerApproval == \A c \in Claims : payments[c] <= approvals[c]

\* The printed parts of a claim add up to its net amount but for one dong,
\* although each is rounded by itself, for whatever rates the table takes, and
\* even when lines and rates were read at different times.
PartsAddUp ==
    \A c \in Claims : LET t == claim[c].totals IN
        /\ t.gross = t.subtotal + t.vat
        /\ t.gross - t.retention - t.tndn - t.net \in -1..1

HeaderMatchesLines ==
    \A c \in Claims : claim[c].status # "absent" =>
        claim[c].totals = Totals(Subtotal(lines[c]), claim[c].rates)

PaidOnce == \A c \in Claims : payments[c] <= 1

SequencesDiffer ==
    \A c, d \in Claims :
        c # d /\ claim[c].sequence = claim[d].sequence => claim[c] = Absent /\ claim[d] = Absent

\* As long as what a request has read holds until it writes, the header of a
\* claim is computed from the lines and the rates the claim has, in every
\* status: what was submitted, approved and paid is what the lines say.
HeldReadsKeepTotals == []ReadsHold => []HeaderMatchesLines

\* Under the same condition a claim is paid at most once.  Without it a
\* signature that read the claim before its approval puts a paid claim back
\* into review, and it can be approved and paid again.
HeldReadsPayOnce == []ReadsHold => []PaidOnce

\* Under the same condition the claims of a project are numbered apart.
HeldReadsNumberApart == []ReadsHold => []SequencesDiffer
=============================================================================
