----------------------------- MODULE QuotaLedger -----------------------------
(***************************************************************************)
(* The monthly token quota of one organisation: the check before a model   *)
(* call and the three usage rows written after it (services/               *)
(* codeguard_quotas.py, services/codeguard_quota_attribution.py, the six   *)
(* routes of routers/codeguard.py), the threshold mails with their dedupe  *)
(* table, and the operator's set and reset (scripts/codeguard_quotas.py).  *)
(*                                                                         *)
(* A request is one transaction from its check to its end: PostgreSQL's    *)
(* NOW(), and with it the month, is the one of the check.  The upsert of   *)
(* codeguard_org_usage locks the month's row until the commit.  One of the *)
(* two token dimensions is modelled; the other is the same code again.     *)
(***************************************************************************)
EXTENDS Integers, FiniteSets, FiniteSetsExt

CONSTANTS
    Users,          \* members who call the routes
    Routes,         \* keys of ROUTE_WEIGHTS
    Weight,         \* ROUTE_WEIGHTS, whole numbers
    Tokens,         \* tokens that the model calls of a request may take
    Limits,         \* monthly limits that operators set
    Unlimited,      \* no quota row, or NULL
    Workers,        \* requests served at the same time
    LastMonth,      \* bound: months
    MaxCalls        \* bound: requests that pass the check

ASSUME DataAssumption ==
    /\ Tokens \subseteq Nat \ {0} /\ Weight \in [Routes -> Nat \ {0}]
    /\ Limits \subseteq Nat /\ Unlimited \notin Nat
    /\ IsFiniteSet(Workers) /\ IsFiniteSet(Users) /\ IsFiniteSet(Tokens) /\ IsFiniteSet(Routes)

ASSUME BoundAssumption == LastMonth \in Nat \ {0} /\ MaxCalls \in Nat

Months == 1..LastMonth
Bands  == {80, 95}      \* _THRESHOLDS_PCT

VARIABLES
    month,          \* date_trunc('month', NOW())
    limit,          \* codeguard_org_quotas
    used,           \* codeguard_org_usage, a row per month
    user_used,      \* codeguard_user_usage, a row per month and user
    sent,           \* codeguard_quota_threshold_notifications
    req,            \* the request of each worker
    ops,            \* the operator's `set` command after its commit
    \* ---- ghosts ----
    calls,          \* requests that passed the check
    answered,       \* weighted tokens behind the answers of the plain routes
    streamed,       \* the months in which a streaming route answered
    refunded,       \* usage taken back by resets
    ceiling,        \* the highest limit in force in a month
    mails,          \* notifications sent, per band and month: none, one or more
    forgotten       \* a transaction that had sent one was rolled back

tables == <<limit, used, user_used, sent>>
ghosts == <<calls, answered, streamed, refunded, ceiling, mails, forgotten>>
vars   == <<month, tables, req, ops, ghosts>>

-----------------------------------------------------------------------------
Limit == Limits \cup {Unlimited}

Idle == [at |-> "idle"]
Requests ==
    {Idle}
      \cup [at : {"calling"}, user : Users, route : Routes, month : Months]
      \cup [at : {"recorded"}, user : Users, month : Months, cost : Nat, ok : BOOLEAN,
            limit : Limit, todo : SUBSET Bands, won : SUBSET Bands]

\* The set command: todo and won are those of check_and_notify_thresholds.
OpsStates == [at : {"idle", "set", "notify"}, month : Months, todo : SUBSET Bands, won : SUBSET Bands]
OpsIdle   == [at |-> "idle", month |-> 1, todo |-> {}, won |-> {}]

TypeOK ==
    /\ month \in Months
    /\ limit \in Limit
    /\ used \in [Months -> Nat]
    /\ user_used \in [Months -> [Users -> Nat]]
    /\ sent \subseteq Bands \X Months
    /\ req \in [Workers -> Requests]
    /\ ops \in OpsStates
    /\ calls \in 0..MaxCalls
    /\ streamed \subseteq Months
    /\ answered \in [Months -> Nat] /\ refunded \in [Months -> Nat]
    /\ ceiling \in [Months -> Limit]
    /\ mails \in [Bands \X Months -> 0..2]
    /\ forgotten \in BOOLEAN

Init ==
    /\ month = 1
    /\ limit \in Limit
    /\ used = [m \in Months |-> 0]
    /\ user_used = [m \in Months |-> [u \in Users |-> 0]]
    /\ sent = {}
    /\ req = [w \in Workers |-> Idle]
    /\ ops = OpsIdle
    /\ calls = 0
    /\ streamed = {}
    /\ answered = [m \in Months |-> 0] /\ refunded = [m \in Months |-> 0]
    /\ ceiling = [m \in Months |-> limit]
    /\ mails = [b \in Bands \X Months |-> 0]
    /\ forgotten = FALSE

\* Counted up to two: more is no different.
OneMore(n) == Min({2, n + 1})

Become(w, r) == req' = [req EXCEPT ![w] = r]

\* _apply_weight; the weights are whole, so nothing is rounded.
Cost(n, route) == n * Weight[route]

\* Fault: a band counts as crossed above it only.
CrossedAbove(total, lim) ==
    IF lim = Unlimited \/ lim = 0 THEN {} ELSE {b \in Bands : 100 * total > b * lim}

\* The bands of _crossed_thresholds, before the ones already sent are left out.
Crossed(total, lim) ==
    IF lim = Unlimited \/ lim = 0 THEN {} ELSE {b \in Bands : 100 * total >= b * lim}

Unsent(bands, m) == {b \in bands : <<b, m>> \notin sent}

\* The month's usage row, or the key of a notification, is locked by a
\* transaction that has not ended.
UsageLocked(m) == \E v \in Workers : req[v].at = "recorded" /\ req[v].month = m
BandLocked(b, m) ==
    \/ \E v \in Workers : req[v].at = "recorded" /\ req[v].month = m /\ b \in req[v].won
    \/ ops.month = m /\ b \in ops.won

-----------------------------------------------------------------------------
(* A request.                                                              *)

\* Fault: the limit itself still passes.
CheckQuotaInclusive(w, u, r) ==
    /\ req[w] = Idle /\ calls < MaxCalls
    /\ limit # Unlimited => used[month] <= limit
    /\ Become(w, [at |-> "calling", user |-> u, route |-> r, month |-> month])
    /\ calls' = calls + 1
    /\ UNCHANGED <<month, tables, ops, answered, streamed, refunded, ceiling, mails, forgotten>>

\* _check_quota_or_raise: the request goes on to the model.
CheckQuota(w, u, r) ==
    /\ req[w] = Idle /\ calls < MaxCalls
    /\ limit # Unlimited => used[month] < limit
    /\ Become(w, [at |-> "calling", user |-> u, route |-> r, month |-> month])
    /\ calls' = calls + 1
    /\ UNCHANGED <<month, tables, ops, answered, streamed, refunded, ceiling, mails, forgotten>>

\* The exit of with_usage_recording on a plain route: the upserts, not yet
\* committed, and _crossed_thresholds, which sees them.  ok: the pipeline has
\* an answer, and no exception follows.
RecordUsage(w, n, ok) ==
    /\ req[w].at = "calling"
    /\ ~UsageLocked(req[w].month)
    /\ LET q == req[w]
           c == Cost(n, q.route)
       IN Become(w, [at |-> "recorded", user |-> q.user, month |-> q.month, cost |-> c, ok |-> ok,
                     limit |-> limit, todo |-> Unsent(Crossed(used[q.month] + c, limit), q.month), won |-> {}])
    /\ UNCHANGED <<month, tables, ops, ghosts>>

\* One round of the loop of check_and_notify_thresholds, the higher band
\* first: _claim_threshold_or_skip, then the messages.
NotifyBand(w) ==
    /\ req[w].at = "recorded" /\ req[w].todo # {}
    /\ LET q == req[w]
           b == Max(q.todo)
       IN /\ ~BandLocked(b, q.month)
          /\ IF <<b, q.month>> \in sent
             THEN /\ Become(w, [q EXCEPT !.todo = @ \ {b}])
                  /\ UNCHANGED mails
             ELSE /\ Become(w, [q EXCEPT !.todo = @ \ {b}, !.won = @ \cup {b}])
                  /\ mails' = [mails EXCEPT ![<<b, q.month>>] = OneMore(@)]
    /\ UNCHANGED <<month, tables, ops, calls, answered, streamed, refunded, ceiling, forgotten>>

\* Faults: the claims are not part of what is committed; the user's row gets
\* the usage without its weight.
CommitWithoutClaims(w) ==
    /\ req[w].at = "recorded" /\ req[w].ok /\ req[w].todo = {}
    /\ LET q == req[w] IN
       /\ used' = [used EXCEPT ![q.month] = @ + q.cost]
       /\ user_used' = [user_used EXCEPT ![q.month][q.user] = @ + q.cost]
       /\ answered' = [answered EXCEPT ![q.month] = @ + q.cost]
    /\ Become(w, Idle)
    /\ UNCHANGED <<month, limit, sent, ops, calls, streamed, refunded, ceiling, mails, forgotten>>

CommitUnweighted(w) ==
    /\ req[w].at = "recorded" /\ req[w].ok /\ req[w].todo = {}
    /\ LET q == req[w] IN
       /\ used' = [used EXCEPT ![q.month] = @ + q.cost]
       /\ user_used' = [user_used EXCEPT ![q.month][q.user] = @ + 1]
       /\ answered' = [answered EXCEPT ![q.month] = @ + q.cost]
       /\ sent' = sent \cup {<<b, q.month>> : b \in q.won}
    /\ Become(w, Idle)
    /\ UNCHANGED <<month, limit, ops, calls, streamed, refunded, ceiling, mails, forgotten>>

\* The commit of get_db, after the handler and before the answer is sent.
CommitRequest(w) ==
    /\ req[w].at = "recorded" /\ req[w].ok /\ req[w].todo = {}
    /\ LET q == req[w] IN
       /\ used' = [used EXCEPT ![q.month] = @ + q.cost]
       /\ user_used' = [user_used EXCEPT ![q.month][q.user] = @ + q.cost]
       /\ answered' = [answered EXCEPT ![q.month] = @ + q.cost]
       /\ sent' = sent \cup {<<b, q.month>> : b \in q.won}
    /\ Become(w, Idle)
    /\ UNCHANGED <<month, limit, ops, calls, streamed, refunded, ceiling, mails, forgotten>>

\* The pipeline's exception leaves the handler, a statement fails (which
\* fails every later one of the transaction, swallowed or not), or the
\* process dies: the transaction rolls back, the messages stay sent.
RollbackRequest(w) ==
    /\ req[w].at = "recorded"
    /\ forgotten' = (forgotten \/ req[w].won # {})
    /\ Become(w, Idle)
    /\ UNCHANGED <<month, tables, ops, calls, answered, streamed, refunded, ceiling, mails>>

\* The generator of a streaming route runs after the session of get_db was
\* committed and closed: what it writes has no tenant and no commit.
StreamAnswer(w) ==
    /\ req[w].at = "calling"
    /\ streamed' = streamed \cup {req[w].month}
    /\ Become(w, Idle)
    /\ UNCHANGED <<month, tables, ops, calls, answered, refunded, ceiling, mails, forgotten>>

\* No tokens were spent (a cache hit), or the request died before its end.
EndFree(w) ==
    /\ req[w].at = "calling"
    /\ Become(w, Idle)
    /\ UNCHANGED <<month, tables, ops, ghosts>>

-----------------------------------------------------------------------------
(* The operator, and the calendar.                                         *)

Higher(a, b) == IF a = Unlimited \/ b = Unlimited THEN Unlimited ELSE Max({a, b})

\* cmd_set up to its commit.
SetLimit(l) ==
    /\ ops.at = "idle"
    /\ limit' = l
    /\ ceiling' = [m \in Months |->
                      IF m = month THEN Higher(ceiling[m], l) ELSE IF m > month THEN l ELSE ceiling[m]]
    /\ ops' = [at |-> "set", month |-> month, todo |-> {}, won |-> {}]
    /\ UNCHANGED <<month, used, user_used, sent, req, calls, answered, streamed, refunded, mails, forgotten>>

\* _crossed_thresholds in the session's next transaction.
ReadAfterSet ==
    /\ ops.at = "set"
    /\ ops' = [at |-> "notify", month |-> month, won |-> {},
               todo |-> Unsent(Crossed(used[month], limit), month)]
    /\ UNCHANGED <<month, tables, req, ghosts>>

NotifyAfterSet ==
    /\ ops.at = "notify" /\ ops.todo # {}
    /\ LET b == Max(ops.todo) IN
       /\ ~BandLocked(b, ops.month)
       /\ IF <<b, ops.month>> \in sent
          THEN /\ ops' = [ops EXCEPT !.todo = @ \ {b}]
               /\ UNCHANGED mails
          ELSE /\ ops' = [ops EXCEPT !.todo = @ \ {b}, !.won = @ \cup {b}]
               /\ mails' = [mails EXCEPT ![<<b, ops.month>>] = OneMore(@)]
    /\ UNCHANGED <<month, tables, req, calls, answered, streamed, refunded, ceiling, forgotten>>

\* The session is closed, at the end or when the command dies: nothing has
\* committed the claims.
EndSet ==
    /\ ops.at # "idle"
    /\ forgotten' = (forgotten \/ ops.won # {})
    /\ ops' = OpsIdle
    /\ UNCHANGED <<month, tables, req, calls, answered, streamed, refunded, ceiling, mails>>

\* Fault: the reset credits the limit instead of zeroing the row.
CreditUsage ==
    /\ limit # Unlimited
    /\ used[month] > 0 /\ ~UsageLocked(month)
    /\ used' = [used EXCEPT ![month] = @ - limit]
    /\ refunded' = [refunded EXCEPT ![month] = @ + limit]
    /\ UNCHANGED <<month, limit, user_used, sent, req, ops, calls, answered, streamed, ceiling, mails, forgotten>>

\* cmd_reset: the row of the organisation only, under FOR UPDATE.
ResetUsage ==
    /\ used[month] > 0 /\ ~UsageLocked(month)
    /\ used' = [used EXCEPT ![month] = 0]
    /\ refunded' = [refunded EXCEPT ![month] = @ + used[month]]
    /\ UNCHANGED <<month, limit, user_used, sent, req, ops, calls, answered, streamed, ceiling, mails, forgotten>>

NewMonth ==
    /\ month < LastMonth
    /\ month' = month + 1
    /\ UNCHANGED <<tables, req, ops, ghosts>>

-----------------------------------------------------------------------------
Serve(w) ==
    \/ \E u \in Users, r \in Routes : CheckQuota(w, u, r)
    \/ StreamAnswer(w)
    \/ \E n \in Tokens, ok \in BOOLEAN : RecordUsage(w, n, ok)
    \/ NotifyBand(w)
    \/ CommitRequest(w)
    \/ RollbackRequest(w)
    \/ EndFree(w)

Operate ==
    \/ \E l \in Limit : SetLimit(l)
    \/ ReadAfterSet \/ NotifyAfterSet \/ EndSet
    \/ ResetUsage

Next == (\E w \in Workers : Serve(w)) \/ Operate \/ NewMonth

Spec == Init /\ [][Next]_vars

-----------------------------------------------------------------------------
(* Properties.                                                             *)

MaxCost == Max({Cost(n, r) : n \in Tokens, r \in Routes} \cup {0})

\* The check and the recording are two moments, so that every request in
\* flight may go past the limit; but no more than that: the usage of a month
\* stays below the highest limit it had plus the cost of as many requests as
\* are served at once, whatever resets, changed limits and turns of the month
\* come between them.
OvershootBounded ==
    \A m \in Months : ceiling[m] # Unlimited =>
        used[m] < ceiling[m] + Cardinality(Workers) * MaxCost \/ used[m] = 0

UserTotal(m) == SumFunctionOnSet(user_used[m], Users)

\* The row that the cap is checked against, with what resets took back, is
\* the sum of the users' rows and of what the plain answers have cost: a
\* failed or repeated transaction never counts in one and not in the others.
\* (After a reset the weekly drift check sees the refund as a difference.)
AccountsAgree ==
    \A m \in Months : /\ used[m] + refunded[m] = UserTotal(m)
                      /\ used[m] + refunded[m] = answered[m]

\* A band is notified once a month, unless a transaction that had notified
\* one was rolled back: concurrent requests and the operator's check never
\* both send.
OneMailUnlessForgotten == ~forgotten => \A b \in Bands, m \in Months : mails[<<b, m>>] <= 1

\* A request whose usage takes the organisation over a band does not commit
\* before the band was notified, provided that the limit is still the one it
\* read.  (A limit lowered in between goes unnoticed until the next request:
\* the operator's check does not see the uncommitted usage either.)
WarnedBeforeCommit ==
    [][\A w \in Workers :
          LET q == req[w] IN
          CommitRequest(w) /\ q.limit = limit /\ limit \notin {Unlimited, 0} =>
              \A b \in Bands : 100 * used'[q.month] >= b * limit => mails[<<b, q.month>>] > 0]_vars

(* What comments say and the code does not keep.                           *)

\* "Without this wrap, the per-org usage table never gets the
\* streaming-route increment and the cap can never trip for streaming
\* clients."
StreamsAreCounted ==
    \A m \in streamed : used[m] + refunded[m] > 0
=============================================================================
