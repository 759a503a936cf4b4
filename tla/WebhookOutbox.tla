---------------------------- MODULE WebhookOutbox ----------------------------
(***************************************************************************)
(* The webhook outbox: services/webhooks.py (enqueue_event, drain_pending  *)
(* and the marks it writes), the admin endpoints of routers/webhooks.py    *)
(* and the retention of terminal rows (services/retention.py).             *)
(*                                                                         *)
(* A drain tick is two PostgreSQL transactions.  The first picks due rows  *)
(* with FOR UPDATE SKIP LOCKED, marks them in_flight and commits, which    *)
(* releases the locks.  The second stays open over the whole batch: each   *)
(* POST is followed by an UPDATE of the delivery row and one of its        *)
(* subscription, and everything is committed once, at the end.  Ticks are  *)
(* arq cron jobs started every minute whatever the previous one is doing,  *)
(* so several (Workers) may be under way.                                  *)
(***************************************************************************)
EXTENDS Naturals, FiniteSets

CONSTANTS
    Deliveries,     \* ids of webhook_deliveries rows
    Subs,           \* ids of webhook_subscriptions rows, one URL each
    Workers,        \* drain ticks that can be under way at the same time
    Batch,          \* LIMIT :batch of the pick query
    MaxAttempts,    \* len(_BACKOFF_MINUTES)
    DisableAfter,   \* _DISABLE_AFTER_FAILURES
    None            \* no delivery, no subscription

ASSUME BoundsAssumption ==
    /\ Batch \in Nat \ {0}
    /\ MaxAttempts \in Nat \ {0}
    /\ DisableAfter \in Nat \ {0}

ASSUME FiniteAssumption == IsFiniteSet(Deliveries)

ASSUME NoneAssumption == None \notin Deliveries \cup Subs

VARIABLES
    \* ---- committed database state ----
    status,         \* delivery row: its status column, or no row (yet / any more)
    attempts,       \* attempt_count
    timer,          \* next_retry_at: NULL, in the past ("due") or in the future
    owner,          \* subscription_id
    sub_state,      \* subscription row: absent, on, off (enabled), deleted
    failure_count,  \* saturated at DisableAfter, the only value it is compared with
    \* ---- one drain tick ----
    pc,             \* where the tick stands
    todo,           \* picked rows it has not POSTed yet
    cur,            \* the row it is working on
    ok,             \* whether the POST of cur answered 2xx
    snap_attempts,  \* attempt_count of each picked row, as picked
    snap_failures,  \* failure_count of each subscription, as picked
    mark,           \* uncommitted UPDATE of a delivery row: the status it writes
    counter,        \* uncommitted UPDATE of a subscription's failure_count
    off,            \* subscriptions with an uncommitted enabled = false
    \* ---- one PATCH request ----
    patch,          \* the request between its SELECT and its UPDATE
    \* ---- ghosts: what the receivers saw ----
    accepted,       \* deliveries some POST of which was answered 2xx
    posts,          \* POSTs made for a delivery, saturated at MaxAttempts
    fails           \* failed POSTs to a subscription, saturated at DisableAfter

rows   == <<status, attempts, timer, owner>>
subs   == <<sub_state, failure_count>>
ticks  == <<pc, todo, cur, ok, snap_attempts, snap_failures, mark, counter, off>>
ghosts == <<accepted, posts, fails>>
vars   == <<rows, subs, ticks, patch, ghosts>>

-----------------------------------------------------------------------------
Open     == {"pending", "in_flight"}
Terminal == {"delivered", "failed"}
NoRow    == {"absent", "gone"}

\* The columns a PATCH request is about to write.
Patches == [sub : Subs \cup {None}, enabled : {"keep", "on", "off"}, zero : BOOLEAN]
NoPatch == [sub |-> None, enabled |-> "keep", zero |-> FALSE]

\* Counting up to a ceiling that no comparison in the code looks beyond.
UpTo(n, ceiling) == IF n < ceiling THEN n + 1 ELSE ceiling

\* Every variable holds values of its column or local variable.
TypeOK ==
    /\ status \in [Deliveries -> Open \cup Terminal \cup NoRow]
    /\ attempts \in [Deliveries -> 0..MaxAttempts]
    /\ timer \in [Deliveries -> {"null", "due", "later"}]
    /\ owner \in [Deliveries -> Subs \cup {None}]
    /\ sub_state \in [Subs -> {"absent", "on", "off", "deleted"}]
    /\ failure_count \in [Subs -> 0..DisableAfter]
    /\ pc \in [Workers -> {"idle", "post", "mark", "bump"}]
    /\ todo \in [Workers -> SUBSET Deliveries]
    /\ cur \in [Workers -> Deliveries \cup {None}]
    /\ ok \in [Workers -> BOOLEAN]
    /\ snap_attempts \in [Workers -> [Deliveries -> 0..MaxAttempts]]
    /\ snap_failures \in [Workers -> [Subs -> 0..DisableAfter]]
    /\ mark \in [Workers -> [Deliveries -> {"none", "delivered", "failed", "pending"}]]
    /\ counter \in [Workers -> [Subs -> {"none", "zero", "plus"}]]
    /\ off \in [Workers -> SUBSET Subs]
    /\ patch \in Patches
    /\ accepted \in SUBSET Deliveries
    /\ posts \in [Deliveries -> 0..MaxAttempts]
    /\ fails \in [Subs -> 0..DisableAfter]

Init ==
    /\ status = [d \in Deliveries |-> "absent"]
    /\ attempts = [d \in Deliveries |-> 0]
    /\ timer = [d \in Deliveries |-> "null"]
    /\ owner = [d \in Deliveries |-> None]
    /\ sub_state = [s \in Subs |-> "absent"]
    /\ failure_count = [s \in Subs |-> 0]
    /\ pc = [w \in Workers |-> "idle"]
    /\ todo = [w \in Workers |-> {}]
    /\ cur = [w \in Workers |-> None]
    /\ ok = [w \in Workers |-> FALSE]
    /\ snap_attempts = [w \in Workers |-> [d \in Deliveries |-> 0]]
    /\ snap_failures = [w \in Workers |-> [s \in Subs |-> 0]]
    /\ mark = [w \in Workers |-> [d \in Deliveries |-> "none"]]
    /\ counter = [w \in Workers |-> [s \in Subs |-> "none"]]
    /\ off = [w \in Workers |-> {}]
    /\ patch = NoPatch
    /\ accepted = {}
    /\ posts = [d \in Deliveries |-> 0]
    /\ fails = [s \in Subs |-> 0]

-----------------------------------------------------------------------------
(* Row locks.  An UPDATE inside the open second transaction of a tick      *)
(* holds its row until that transaction commits or rolls back.             *)

RowLockedBy(w, d) == mark[w][d] # "none"
SubLockedBy(w, s) == counter[w][s] # "none"

RowFree(d) == \A w \in Workers : ~RowLockedBy(w, d)
SubFree(s) == \A w \in Workers : ~SubLockedBy(w, s)

\* The tick whose lock keeps w from its next UPDATE.
WaitsFor(w, v) ==
    /\ v # w
    /\ \/ pc[w] = "mark" /\ RowLockedBy(v, cur[w])
       \/ pc[w] = "bump" /\ SubLockedBy(v, owner[cur[w]])

-----------------------------------------------------------------------------
(* Rows enter the outbox.                                                  *)

\* One pending row, due at once, for each id in the domain of `for`.
InsertPending(for) ==
    /\ \A d \in DOMAIN for : status[d] = "absent"
    /\ status' = [d \in Deliveries |-> IF d \in DOMAIN for THEN "pending" ELSE status[d]]
    /\ timer' = [d \in Deliveries |-> IF d \in DOMAIN for THEN "due" ELSE timer[d]]
    /\ owner' = [d \in Deliveries |-> IF d \in DOMAIN for THEN for[d] ELSE owner[d]]
    /\ UNCHANGED attempts

\* enqueue_event in the transaction of a source write (audit.record, the
\* webhook.test endpoint): a row for each enabled subscription whose
\* event_types match.  Which ones match is data; a rollback is no step.
EnqueueEvent ==
    /\ \E D \in SUBSET Deliveries \ {{}} :
         \E for \in [D -> {s \in Subs : sub_state[s] = "on"}] :
           /\ \A d, e \in D : for[d] = for[e] => d = e
           /\ InsertPending(for)
    /\ UNCHANGED <<subs, ticks, patch, ghosts>>

\* redeliver: a fresh row with the payload of an existing one, whatever the
\* status of that row and whether or not its subscription is enabled.
Redeliver(src, d) ==
    /\ status[src] \notin NoRow
    /\ InsertPending([x \in {d} |-> owner[src]])
    /\ UNCHANGED <<subs, ticks, patch, ghosts>>

-----------------------------------------------------------------------------
(* One drain tick.                                                         *)

\* Fault: rows a dead tick left in_flight are not picked again.
EligiblePendingOnly ==
    {d \in Deliveries : /\ status[d] = "pending"
                        /\ timer[d] = "due"
                        /\ sub_state[owner[d]] = "on"
                        /\ RowFree(d)}

\* What the pick query selects: due open rows of enabled subscriptions
\* that no transaction has locked.
Eligible ==
    {d \in Deliveries : /\ status[d] \in Open
                        /\ timer[d] = "due"
                        /\ sub_state[owner[d]] = "on"
                        /\ RowFree(d)}

\* SELECT ... LIMIT ... FOR UPDATE OF d SKIP LOCKED, UPDATE ... 'in_flight',
\* COMMIT.  The order of next_retry_at decides which rows make the batch and
\* is left to fairness.  next_retry_at is not touched: the row stays due.
Pick(w, B) ==
    /\ pc[w] = "idle"
    /\ B # {} /\ B \subseteq Eligible
    /\ Cardinality(B) = Batch \/ (B = Eligible /\ Cardinality(B) < Batch)
    /\ status' = [d \in Deliveries |-> IF d \in B THEN "in_flight" ELSE status[d]]
    /\ pc' = [pc EXCEPT ![w] = "post"]
    /\ todo' = [todo EXCEPT ![w] = B]
    /\ snap_attempts' = [snap_attempts EXCEPT ![w] = [d \in Deliveries |-> IF d \in B THEN attempts[d] ELSE 0]]
    /\ snap_failures' = [snap_failures EXCEPT ![w] = failure_count]
    /\ UNCHANGED <<attempts, timer, owner, subs, cur, ok, mark, counter, off, patch, ghosts>>

\* Fault: an answer lost on the way back counts as a success.
PostLostIsOk(w, d, accepts, answered) ==
    /\ pc[w] = "post"
    /\ d \in todo[w]
    /\ answered => accepts
    /\ todo' = [todo EXCEPT ![w] = @ \ {d}]
    /\ cur' = [cur EXCEPT ![w] = d]
    /\ ok' = [ok EXCEPT ![w] = TRUE]
    /\ pc' = [pc EXCEPT ![w] = "mark"]
    /\ posts' = [posts EXCEPT ![d] = UpTo(@, MaxAttempts)]
    /\ accepted' = IF accepts THEN accepted \cup {d} ELSE accepted
    /\ UNCHANGED <<rows, subs, snap_attempts, snap_failures, mark, counter, off, patch, fails>>

\* _deliver_one for the next row of the batch, with the URL and secret that
\* were picked: the subscription may have been disabled or deleted since.
\* The receiver's 2xx may be lost on the way (timeout after processing).
Post(w, d, accepts, answered) ==
    /\ pc[w] = "post"
    /\ d \in todo[w]
    /\ answered => accepts
    /\ todo' = [todo EXCEPT ![w] = @ \ {d}]
    /\ cur' = [cur EXCEPT ![w] = d]
    /\ ok' = [ok EXCEPT ![w] = answered]
    /\ pc' = [pc EXCEPT ![w] = "mark"]
    /\ posts' = [posts EXCEPT ![d] = UpTo(@, MaxAttempts)]
    /\ accepted' = IF accepts THEN accepted \cup {d} ELSE accepted
    /\ fails' = IF answered THEN fails ELSE [fails EXCEPT ![owner[d]] = UpTo(@, DisableAfter)]
    /\ UNCHANGED <<rows, subs, snap_attempts, snap_failures, mark, counter, off, patch>>

\* attempt = row["attempt_count"] + 1, from the picked row.
Attempt(w, d) == snap_attempts[w][d] + 1

\* Faults: the last attempt is judged one too late, or one too early.
VerdictLate(w, d) ==
    IF ok[w] THEN "delivered"
    ELSE IF Attempt(w, d) > MaxAttempts THEN "failed"
    ELSE "pending"

VerdictEarly(w, d) ==
    IF ok[w] THEN "delivered"
    ELSE IF Attempt(w, d) >= MaxAttempts - 1 THEN "failed"
    ELSE "pending"

\* Which of _mark_delivered, _mark_failed_permanently and _schedule_retry
\* the loop calls.
Verdict(w, d) ==
    IF ok[w] THEN "delivered"
    ELSE IF Attempt(w, d) >= MaxAttempts THEN "failed"
    ELSE "pending"

\* The UPDATE of the delivery row: it takes the row lock, or touches nothing
\* when the row has been deleted.
MarkDelivery(w) ==
    LET d == cur[w] IN
    /\ pc[w] = "mark"
    /\ \A v \in Workers \ {w} : ~RowLockedBy(v, d)
    /\ mark' = [mark EXCEPT ![w][d] = IF status[d] = "gone" THEN @ ELSE Verdict(w, d)]
    /\ pc' = [pc EXCEPT ![w] = "bump"]
    /\ UNCHANGED <<rows, subs, todo, cur, ok, snap_attempts, snap_failures, counter, off, patch, ghosts>>

\* Fault: both marks of a permanently failed row bump the counter.
NewCountTwice(w, s) == UpTo(UpTo(snap_failures[w][s], DisableAfter), DisableAfter)

\* new_count of _bump_subscription_failure_counter.
NewCount(w, s) == UpTo(snap_failures[w][s], DisableAfter)

\* The UPDATE of the subscription: zero after a success, else the picked
\* count plus one, and enabled = false from DisableAfter on.
MarkSubscription(w) ==
    LET s == owner[cur[w]] IN
    /\ pc[w] = "bump"
    /\ \A v \in Workers \ {w} : ~SubLockedBy(v, s)
    /\ counter' = [counter EXCEPT ![w][s] = IF sub_state[s] = "deleted" THEN @
                                            ELSE IF ok[w] THEN "zero" ELSE "plus"]
    /\ off' = [off EXCEPT ![w] = IF /\ sub_state[s] # "deleted"
                                    /\ ~ok[w]
                                    /\ NewCount(w, s) >= DisableAfter
                                 THEN @ \cup {s} ELSE @]
    /\ pc' = [pc EXCEPT ![w] = "post"]
    /\ cur' = [cur EXCEPT ![w] = None]
    /\ ok' = [ok EXCEPT ![w] = FALSE]
    /\ UNCHANGED <<rows, subs, todo, snap_attempts, snap_failures, mark, patch, ghosts>>

\* The tick's local variables and its transaction are gone.
Reset(w) ==
    /\ pc' = [pc EXCEPT ![w] = "idle"]
    /\ todo' = [todo EXCEPT ![w] = {}]
    /\ cur' = [cur EXCEPT ![w] = None]
    /\ ok' = [ok EXCEPT ![w] = FALSE]
    /\ snap_attempts' = [snap_attempts EXCEPT ![w] = [d \in Deliveries |-> 0]]
    /\ snap_failures' = [snap_failures EXCEPT ![w] = [s \in Subs |-> 0]]
    /\ mark' = [mark EXCEPT ![w] = [d \in Deliveries |-> "none"]]
    /\ counter' = [counter EXCEPT ![w] = [s \in Subs |-> "none"]]
    /\ off' = [off EXCEPT ![w] = {}]

\* The one COMMIT at the end of the batch: every mark becomes visible.
Commit(w) ==
    /\ pc[w] = "post"
    /\ todo[w] = {}
    /\ status' = [d \in Deliveries |-> IF RowLockedBy(w, d) THEN mark[w][d] ELSE status[d]]
    /\ attempts' = [d \in Deliveries |-> IF RowLockedBy(w, d) THEN Attempt(w, d) ELSE attempts[d]]
    /\ timer' = [d \in Deliveries |->
                    IF ~RowLockedBy(w, d) THEN timer[d]
                    ELSE IF mark[w][d] = "pending" THEN "later" ELSE "null"]
    /\ failure_count' = [s \in Subs |-> IF ~SubLockedBy(w, s) THEN failure_count[s]
                                     ELSE IF counter[w][s] = "zero" THEN 0 ELSE NewCount(w, s)]
    /\ sub_state' = [s \in Subs |-> IF s \in off[w] THEN "off" ELSE sub_state[s]]
    /\ Reset(w)
    /\ UNCHANGED <<owner, patch, ghosts>>

\* Process crash, job_timeout, or an exception _deliver_one does not catch:
\* the open transaction rolls back and the marks of the whole batch are lost.
Abort(w) ==
    /\ pc[w] # "idle"
    /\ Reset(w)
    /\ UNCHANGED <<rows, subs, patch, ghosts>>

\* PostgreSQL breaks a cycle of waiting transactions by failing one of them.
DeadlockVictim(w) ==
    /\ \E W \in SUBSET Workers : w \in W /\ \A v \in W : \E u \in W : WaitsFor(v, u)
    /\ Reset(w)
    /\ UNCHANGED <<rows, subs, patch, ghosts>>

\* The retry time of a row comes.
BackoffElapses(d) ==
    /\ timer[d] = "later"
    /\ timer' = [timer EXCEPT ![d] = "due"]
    /\ UNCHANGED <<status, attempts, owner, subs, ticks, patch, ghosts>>

-----------------------------------------------------------------------------
(* Administration and retention.                                           *)

\* create_webhook; a second POST of the same URL is a 409 and changes nothing.
CreateWebhook(s) ==
    /\ sub_state[s] = "absent"
    /\ sub_state' = [sub_state EXCEPT ![s] = "on"]
    /\ UNCHANGED <<rows, failure_count, ticks, patch, ghosts>>

\* update_webhook with `enabled` given, up to its SELECT.  Enabling also
\* zeroes the counter, and the ORM writes only the columns whose new value
\* differs from the one it loaded (none: the request changes nothing).
LoadWebhook(s, enable) ==
    LET flips  == sub_state[s] # enable
        zeroes == enable = "on" /\ failure_count[s] # 0
    IN
    /\ patch = NoPatch
    /\ sub_state[s] \in {"on", "off"}
    /\ flips \/ zeroes
    /\ patch' = [sub |-> s, enabled |-> IF flips THEN enable ELSE "keep", zero |-> zeroes]
    /\ UNCHANGED <<rows, subs, ticks, ghosts>>

\* The UPDATE and commit of update_webhook, once the row lock is free; a
\* subscription deleted meanwhile makes the request fail.
SaveWebhook ==
    LET s == patch.sub
        alive == sub_state[s] # "deleted"
    IN
    /\ patch # NoPatch
    /\ SubFree(s)
    /\ sub_state' = [sub_state EXCEPT ![s] = IF alive /\ patch.enabled # "keep" THEN patch.enabled ELSE @]
    /\ failure_count' = [failure_count EXCEPT ![s] = IF alive /\ patch.zero THEN 0 ELSE @]
    /\ patch' = NoPatch
    /\ UNCHANGED <<rows, ticks, ghosts>>

\* delete_webhook: the delivery rows go with it (ON DELETE CASCADE).
DeleteWebhook(s) ==
    /\ sub_state[s] \in {"on", "off"}
    /\ SubFree(s)
    /\ \A d \in Deliveries : owner[d] = s => RowFree(d)
    /\ sub_state' = [sub_state EXCEPT ![s] = "deleted"]
    /\ status' = [d \in Deliveries |-> IF owner[d] = s THEN "gone" ELSE status[d]]
    /\ timer' = [d \in Deliveries |-> IF owner[d] = s THEN "null" ELSE timer[d]]
    /\ UNCHANGED <<attempts, owner, failure_count, ticks, patch, ghosts>>

\* Fault: the policy has no extra_where and prunes by age alone.
PruneTableByAge(D) ==
    /\ D # {}
    /\ \A d \in D : status[d] \notin NoRow /\ RowFree(d)
    /\ status' = [d \in Deliveries |-> IF d \in D THEN "gone" ELSE status[d]]
    /\ UNCHANGED <<attempts, timer, owner, subs, ticks, patch, ghosts>>

\* prune_table under the webhook_deliveries policy: rows past their age,
\* terminal ones only.
PruneTable(D) ==
    /\ D # {}
    /\ \A d \in D : status[d] \in Terminal /\ RowFree(d)
    /\ status' = [d \in Deliveries |-> IF d \in D THEN "gone" ELSE status[d]]
    /\ UNCHANGED <<attempts, timer, owner, subs, ticks, patch, ghosts>>

-----------------------------------------------------------------------------
Drain(w) ==
    \/ \E B \in SUBSET Deliveries : Pick(w, B)
    \/ \E d \in Deliveries, accepts, answered \in BOOLEAN : Post(w, d, accepts, answered)
    \/ MarkDelivery(w)
    \/ MarkSubscription(w)
    \/ Commit(w)
    \/ DeadlockVictim(w)

Admin ==
    \/ \E s \in Subs : CreateWebhook(s) \/ DeleteWebhook(s)
    \/ \E s \in Subs, enable \in {"on", "off"} : LoadWebhook(s, enable)
    \/ SaveWebhook
    \/ \E src, d \in Deliveries : Redeliver(src, d)

Next ==
    \/ EnqueueEvent
    \/ Admin
    \/ \E w \in Workers : Drain(w) \/ Abort(w)
    \/ \E d \in Deliveries : BackoffElapses(d)
    \/ \E D \in SUBSET Deliveries : PruneTable(D)

Spec == Init /\ [][Next]_vars

\* The cron starts a tick every minute, every await of a tick ends (HTTP
\* timeout, lock wait broken by the deadlock detector), due times come.  The
\* pick takes the longest due rows first, so that no row is passed over for
\* ever.  And ticks are not killed for ever: see README, "Fairness".
Fairness ==
    /\ \A w \in Workers :
         /\ \A d \in Deliveries : SF_vars(\E B \in SUBSET Deliveries : d \in B /\ Pick(w, B))
         /\ SF_vars(\E d \in Deliveries, a, b \in BOOLEAN : Post(w, d, a, b))
         /\ SF_vars(MarkDelivery(w))
         /\ SF_vars(MarkSubscription(w))
         /\ SF_vars(Commit(w))
    /\ \A d \in Deliveries : WF_vars(BackoffElapses(d))

FairSpec == Spec /\ Fairness

-----------------------------------------------------------------------------
(* Properties.                                                             *)

\* A delivery shown as delivered was accepted by its receiver, however the
\* batches that marked it overlapped, aborted or overwrote one another.
DeliveredWasAccepted ==
    \A d \in Deliveries : status[d] = "delivered" => d \in accepted

\* A delivery is given up only after the whole retry schedule was really
\* POSTed: no lost batch and no stale attempt_count shortens it.
FailedWasTriedInFull ==
    \A d \in Deliveries : status[d] = "failed" => posts[d] = MaxAttempts

\* A row that is not settled keeps a retry time (next_retry_at <= NOW() is
\* never true of NULL, so the pick would never see it again), and it still
\* has an attempt left.
UnsettledIsRetryable ==
    \A d \in Deliveries :
        status[d] \in Open => timer[d] # "null" /\ attempts[d] < MaxAttempts

\* The drain switches a subscription off only if its receiver failed at
\* least DisableAfter times, whatever stale counter the batch started from.
AutoDisableIsEarned ==
    \A w \in Workers : \A s \in off[w] : fails[s] = DisableAfter

\* Every row of an enabled subscription is settled in the end.
EventuallySettled ==
    \A d \in Deliveries :
        status[d] \in Open ~> \/ status[d] \notin Open
                              \/ sub_state[owner[d]] # "on"

\* What the outbox promises (OutboxContract); the code keeps it as long as
\* ticks do not overlap.
Contract == INSTANCE OutboxContract WITH
    stage <- [d \in Deliveries |-> IF status[d] \in Open THEN "open" ELSE status[d]]

KeepsContract == Contract!Spec
=============================================================================
