# A verification of the AEC platform in TLA+

The AEC platform (`src/`) is a FastAPI service over PostgreSQL, an arq worker
with cron jobs on Redis, machine-learning pipelines and a Next.js front end, for
construction firms in Vietnam. Most of its routers create, list and patch rows
one at a time. Its difficult part is elsewhere: programs that read a row, talk
to somebody (a receiver, a mail server, Supabase, a language model) and write the
row back later, while other programs do the same. This project models those
programs action by action, between the points where PostgreSQL makes them atomic,
checks them with TLC and proves the safety properties with TLAPS.

Paths below are relative to `src/apps/api/` unless they start with `src/`.

## 1. The system

Three kinds of process touch the database.

- **API requests** run in a `TenantAwareSession` (`db/session.py`): one
  transaction that commits when the block ends and rolls back on an exception.
  Isolation is READ COMMITTED, and very few statements take `FOR UPDATE`.
- **arq jobs and crons** (`workers/queue.py`): a cron starts its function at its
  time whatever the previous start is doing; a job that dies is run again, at
  most `max_tries` times; a job longer than `job_timeout` is cancelled.
- **Celery tasks** (`src/apps/worker/tasks.py`) call the same services.

They interact through rows only, and through Redis for queues, limits and the
read cache. Outside the system are the webhook receivers, SMTP and Resend,
Supabase, Stripe, S3 and the language models.

### Inventory

| Component | State | Operations | What is hard | What makes it correct | Module |
|---|---|---|---|---|---|
| Webhook outbox (`services/webhooks.py`, `routers/webhooks.py`) | `webhook_deliveries`, `webhook_subscriptions` | enqueue, drain tick, redeliver, create, patch, delete | ticks overlap; a batch commits once, after minutes of POSTs; lost answers; crashes | nothing claimed that did not happen, every row settled in the end | `WebhookOutbox` |
| Retention (`services/retention.py`) | none; deletes aged rows, archives to S3 | daily prune of each policy | deletes beside running batches; archive and delete are not atomic | unsettled rows survive | prune of the outbox in `WebhookOutbox` |
| RFQ life cycle (`services/rfq_dispatch.py`, `routers/public_rfq.py`, `workers/queue.py`) | `rfqs.status`, `rfqs.responses` | create, dispatch job, supplier's response, deadline cron | three unlocked read-modify-writes of one JSON array, one of them as slow as a mail server | no quote lost, no slot that lies, overdue requests expire | `RfqLifecycle` |
| Membership (`routers/org.py`, `orgs.py`, `invitations.py`, `me.py`) | `users`, `org_members`, `invitations`, Supabase accounts | create organisation, invite, change and remove members, invitations, sign-in | check and write in two statements; a third party in the middle of a transaction; two sources of user ids | an organisation keeps an owner, a token works once, members can sign in | `Membership` |
| Codeguard quotas (`services/codeguard_quotas.py`, `codeguard_quota_attribution.py`, `src/scripts/codeguard_quotas.py`) | monthly usage by organisation and by user, limits, threshold claims | check, record, claim and notify, set, reset | the check precedes the model call, the record follows it; mails inside the transaction; a command line beside the server | bounded overshoot, accounts that agree, one notice per threshold | `QuotaLedger` |
| SchedulePilot (`routers/schedulepilot.py`, `src/apps/ml/pipelines/schedulepilot.py`) | activities, dependencies, assessments | create, change, delete; add a dependency with a cycle check; assess risk | the check reads before the insert; the assessment reads twice | the network stays acyclic, the critical path is the longest | `SchedulePilot`, `CriticalPath` |
| Payment claims (`routers/thanhtoan.py`) | headers, lines, signatures | create, edit, submit, sign, pay, cancel | status read, then written by id; totals summed from lines others edit | figures agree and add up, the owner approved what is paid, and again what is paid again | `PaymentClaims` |
| E-invoices (`routers/einvoice.py`) | one row per invoice | edit, issue, send, decision of the tax office, cancel | the same read and write; a decision that arrives at any time | what stale checks write late is bounded | `EInvoices` |
| Billing (`routers/billing.py`) | subscription, its copy in `organizations`, invoices | VietQR checkout and confirmation, Stripe's webhook | events repeated and out of order beside confirmations | the two copies of the plan agree | `Billing` |
| Warranty reminders (`workers/queue.py`, `routers/handover.py`) | warranties, `warranty_reminders_sent` | save a warranty, daily cron | mails before the commit of a window | each reminder mailed once and logged | `Reminders` |
| Daily-log sync (`services/dailylog_sync.py`, `src/apps/ml/pipelines/siteeye.py`, backfill script) | incidents, logs, observations | detect, mirror, backfill; users' own observations | find-or-create from two programs, a third that does neither; a failure inside another's transaction | the sync mirrors an incident once | `DailyLogSync` |
| Rate limiters (`core/rate_limit.py`, `services/rate_limit.py`) | Redis counters; in-process buckets | acquire, consume | INCR and EXPIRE are two calls, errors let calls through; windows begin anywhere | at most twice the limit in a window, an error opens the door for one call only, a refusal ends | `RateLimits` |
| Read cache (`core/cache.py`) | Redis values with a TTL | read through, invalidate | a value computed before a write is stored after its invalidation | staleness is bounded by the TTL | not modelled |
| Price alerts (`services/price_alerts.py`) | baseline of each alert | evaluation job | all baselines commit after all mails | one notice per move of the price | not modelled |
| Bid radar (`services/bidradar_jobs.py`) | tenders, scores | scrape, upsert, score, digest | two jobs insert one score; a unique constraint fails the batch | every tender scored once per firm | not modelled |
| API keys, audit, search, imports and exports, notifications, assistant, auth, aggregations | own tables | single statements, reads, formatting | little control, much data | | not modelled |
| Workflow routers (permits, acceptance, punch lists, the rest of the daily log, ...) | one status column each | create, list, patch | last writer wins | | not modelled |
| ML pipelines, front end, deployment | none that is authoritative | | | | not modelled |

`PROJECT.json` lists every component with its files, and under `hazards` each
line of this code where a test would hardly reach what can go wrong.

## 2. Modules

| Module | Stands for |
|---|---|
| `WebhookOutbox` | the outbox: rows, subscriptions, drain ticks, administration, retention |
| `OutboxContract` | what the outbox promises, without transactions, batches or locks |
| `RfqLifecycle` | one request for quotation and its three writers |
| `Membership` | one organisation: accounts, users rows, members, invitations |
| `QuotaLedger` | one organisation's token quota over some months |
| `SchedulePilot`, `CriticalPath` | one schedule's network and the algorithm on it |
| `PaymentClaims`, `EInvoices`, `Billing`, `Reminders`, `DailyLogSync`, `RateLimits` | one component each |
| `BackOffice` | those six side by side |
| `MC...` | the instances: values of constants, symmetries |
| `...Proofs` | theorems and proofs of the module of that name |
| `FiniteLemmas` | facts on finite sets, maxima and sums that the proofs share |

Each modelling module names, in the comment of an action, the function it
translates; the table `map` of `PROJECT.json` has the lines. Operators whose
comment starts with "Fault" are plausible bugs of the operator that follows
them. They are not part of any next-state relation: `mutants` in `PROJECT.json`
pairs each with a property that TLC finds violated once the fault replaces the
code's behaviour.

### WebhookOutbox

A tick of `drain_pending` is two transactions. The first, `Pick`, selects due
rows with `FOR UPDATE SKIP LOCKED`, sets them `in_flight` and commits, which is
where its locks end. The second stays open for the whole batch: `Post`,
`MarkDelivery`, `MarkSubscription` for each row and one `Commit`. The marks are
therefore kept apart from the rows, in `mark`, `counter` and `off`, invisible to
everybody else, and they hold row locks: `WaitsFor` and `DeadlockVictim` are
PostgreSQL's waiting and its deadlock detector. What a tick computes with
(`attempt_count`, `failure_count`) is what it picked: `snap_attempts`,
`snap_failures`. `Abort` is a crash, arq's timeout or an uncaught exception.

`EnqueueEvent` is every caller of `enqueue_event`; `Redeliver`, `CreateWebhook`,
`LoadWebhook`/`SaveWebhook` (the SELECT and the UPDATE of a PATCH, of which the
ORM writes only changed columns) and `DeleteWebhook` are the endpoints;
`PruneTable` is the retention policy of delivered and failed rows. Times are
three values: `next_retry_at` is NULL, past or future. Counters saturate where
the code stops looking. `accepted`, `posts` and `fails` are ghosts that record
what receivers saw, so that properties compare the rows with the world.

### RfqLifecycle

`rfqs.responses` is one JSON array with an entry per supplier. The dispatch job
(`StartDispatch` to `AckJob`, with `JobDies`), a response (`LoadResponse`,
`SaveResponse`) and the deadline cron (`ReadOverdue`, `WriteExpired`) each copy
the row, change the copy and write the whole array back; the status column is
written only if the program changed what it had loaded, which is SQLAlchemy's
rule. None of them locks the row. A mail reported as undelivered may have
arrived (`MailSupplier`). The quote in a slot is its number; prices, tokens and
attachments are left out. The token check is a guard (`s \in mailed`): only a
link that arrived can be used.

### Membership

A person is an e-mail address, with an account at Supabase or not, and a users
row whose id is the account's or one `invite_member` made up. The last-owner
guard is three steps, because each SELECT of `_ensure_not_last_owner` is one
under READ COMMITTED: `StartEdit`, `CountOwners`, `WriteEdit`. `LockInvitation`,
`ProvisionUser` and `GrantMembership` are `accept_invitation`, which does hold
a row lock (`Unlocked`) across its call to Supabase. `CheckInvitation` and
`InsertInvitation` are the two halves of `create_invitation`. `DropRequest` lets
any of these fail between two steps. A made-up users row (`EmailTaken`) makes
the upsert of a sign-in fail, since the conflict is on another column.

### QuotaLedger

A request is one transaction from `CheckQuota` to `CommitRequest`, with the
model's call in the middle: PostgreSQL's `NOW()`, hence the month, is that of the
check. `RecordUsage` writes the usage rows and computes the bands (80 and 95 %)
that were crossed; `NotifyBand` claims a band and mails; `UsageLocked` and
`BandLocked` are the row locks of the two upserts. `RollbackRequest` is a failed
pipeline, which answers 502 after the mails went out, a failed statement or a
dead process. `StreamAnswer` is the end of a streaming route, whose
generator runs when the session has been closed and leaves no usage. `SetLimit`,
`ReadAfterSet`, `NotifyAfterSet`, `EndSet` and `ResetUsage` are the operator's
commands; the claims of `set` are never committed. `answered`, `refunded`,
`ceiling`, `mails` and `forgotten` are ghosts. Of the two token dimensions, which
are the same code twice, one is modelled.

### SchedulePilot and CriticalPath

`CriticalPath` translates `compute_critical_path`: Kahn's order by levels and
the two passes as recursive functions, with a definition by paths
(`LongestPath`) beside it. `SchedulePilot` is what happens around it:
`CheckDependency` and `InsertDependency` are two statements, and the ghost
`overtaken` records that another insert came between them; an assessment reads
activities and dependencies apart and stores its result after the model's
answer. Foreign keys and their cascades are in the actions. Activities of another
schedule are in `Outside`, since no handler compares schedules; the instance has none,
the theorems hold with any. Durations are integers: neither `schemas/schedulepilot.py:93,104`
nor migration 0011 (line 102) keeps `planned_duration_days` from being negative, and the instance
has such activities.

### PaymentClaims

A claim's header and its lines (amounts in dong). `_do_recompute` sums the lines
in one statement (`WriteLine`, `SumLines`) and writes the header in another
(`CommitLine`, `CommitRecompute`, `CommitSubmit`). The guards of editing,
submitting and signing are read in a statement of their own (`EnsureDraft`,
`EnsureInReview`), while paying and cancelling are one guarded UPDATE. `Totals`
has the code's rounding of each component on its own, `ROUND_HALF_UP`, which takes half a
dong away from zero. Rates are any integers, in whatever unit (`One`) the columns have:
the schema (`schemas/thanhtoan.py:158-160,174-176`) and `Numeric(5,4)` keep a rate
neither positive nor below 1. What the table does refuse is an amount below zero
(migration 0044, lines 124-129), so that the UPDATE fails (`TotalsSet`).
`payments` and `approvals` are ghosts that count what was paid and what the owner
approved. `ReadsHold` says
that no request under way acts on a stale read; it is the condition of the
properties named `HeldReads...`, and what a `SELECT ... FOR UPDATE` in the
handlers would establish. `Followed` bounds the instance: other claims only
matter for their numbers.

### EInvoices, Billing, Reminders, DailyLogSync, RateLimits

`EInvoices`: `EditDraft`, `IssueDraft` and `CancelInvoice` read and
`WriteEdit`, `WriteIssue`, `WriteCancel` write by id; `SubmitGdt` is guarded in its
UPDATE, `GdtCallback` is not guarded at all. `WindowCloses` is the end of the
24 hours in which an accepted invoice can be cancelled. The ghosts `late` and `sent`
count the edits written after the draft and the submissions.

`Billing`: the plan is stored in `subscriptions` and in `organizations`. A
confirmation reads and writes in two statements (`ReadForConfirm`,
`ConfirmVietqr`). `StripeEvent` (external) produces the events of a Stripe
subscription, which stay available for ever: a delivery may be late, repeated or
out of order. The starting state has organisations with and without a row in
`subscriptions`, as migration 0050 leaves them.

`Reminders`: `OpenWindow` selects the warranties that are due and have no log
row, `Remind` mails one, `CommitWindow` commits the log of the window; `CutRun` is the
shutdown or the timeout of the job. Warranties are saved between any two steps.

`DailyLogSync`: a photo analysis creates several incidents, each with its mirror,
in one transaction; a backfill mirrors old ones. `EnsureDailyLog` is the upsert
whose row lock keeps `CheckMirror` and `InsertMirror` of two jobs apart. A statement that
the server refuses aborts the transaction, although the caller goes on (`MirrorFails`);
any other exception of the sync leaves the transaction as it was, and the incident
commits without a mirror (`MirrorRaises`). `CreateObservation` is the third writer of the
table, a user's observation that names an incident, without lock or check, and `DeleteObservation`
the forced extraction that removes those whose caller called them extracted. The sync's
check sees them, so that they stand in for a mirror. `observed` counts the mirrors of the
sync, `manual` has the incidents of users. The seed of the demo organisation (`scripts/seed_demo.py:275`), which inserts
incidents without a mirror, is left out.

`RateLimits`: `Incr` and `Expire` are the two Redis commands. `FailOpen` is any error up to
`INCR`, whether or not Redis has counted the call, and lets it through; `Strand` is an
error of `EXPIRE`, which lets its call through as well, or the death of the
process between the two commands. `admitted` counts all calls that were let through, `open`
those that `INCR` gave no answer to. `CheckAndConsume` is the token bucket. Time is a tick;
tokens are counted in parts of which `Window` make one, so that a refill
of any capacity is exact.

`BackOffice` composes these with `PaymentClaims`. They share no row, so `part`
chooses one for a whole behaviour: the state spaces add up instead of
multiplying, and nothing is lost, since no property relates two parts.

## 3. What is checked

| Run | Bounds | Question and answer |
|---|---|---|
| `outbox_safety` | 2 deliveries, 1 subscription, 2 ticks, batch 2, 2 attempts, disabled at 2 | What do rows still tell the truth about, with batches overlapping, aborting, deadlocking and overwriting one another? Delivered rows were accepted, failed rows were tried in full, unsettled rows can be retried, a disabled subscription really failed. |
| `outbox_live` | 1 delivery, 2 ticks, batch 1 | Every row of an enabled subscription is settled in the end (`EventuallySettled`). |
| `outbox_contract` | 2 deliveries, 2 subscriptions, 1 tick | With one tick at a time the outbox implements `OutboxContract` (`KeepsContract`). |
| `rfq_safety` | 2 suppliers, 2 runs of the job, 2 quotes each | No slot claims a mail that was not sent, hides a quote or expires early, however stale the copies are. |
| `rfq_live` | 2 suppliers, 2 runs, 1 quote each | Overdue requests without a quote expire; and if no two copies are in flight together, no quote is lost and no status lies. |
| `members_safety` | 2 people, 1 invitation, 2 edits, 2 accepts | The last owner goes only by a race, tokens are used once, who accepted can sign in. |
| `members_sign_in` | as `members_safety` | Violated: `MembersAreNotShutOut`. |
| `quota` | 2 users, 2 routes of different weight, limit 5 or none, 2 requests at a time, 3 in all, 2 months | Usage overruns the highest limit of the month by the requests in flight only; the organisation's row agrees with the users' rows and with the answers; a band is announced once unless a rollback forgot it, and before the usage that crosses it is committed, as long as the limit stays. |
| `quota_streams` | as `quota` | Violated: `StreamsAreCounted`. |
| `schedule` | every network of 3 activities, durations -2 and 3, lag 2, 2 inserts at a time, 3 dependencies | A cycle takes two inserts that overtake each other; an assessment reports one only then; otherwise its path is the longest, when it has read no negative duration. |
| `office` | claims: 2, one followed, 2 items, 3 sets of rates in per cents, 2 requests; invoice: 2 clerks, 2 edits; billing: 2 months; reminders: 2 warranties, 2 windows, 2 days; 3 incidents, one of which users write about, 2 jobs; limiters: limit 2, capacities 2 and 5, window 3, 1 error in a tick | What holds always: the owner's approval, an approval for each payment, parts that add up to the net amount but for a dong, no more late edits and submissions of an invoice than requests, reminders and mirrors made once, at most twice a limit. What holds if reads hold: totals, one payment, numbers, one plan. And refusals end. |
| `mirror` | as `office` | Violated: `DetectedIsRecorded`. |

**Why these bounds are enough to be interesting.** Two ticks and two deliveries
with a batch of two are the least that give two batches the same rows in two
orders, so that marks conflict, wait and deadlock. Two attempts separate a retry
from giving up, and two failures separate a first failure from disabling. A
second subscription is needed only where a property relates rows of different
subscriptions, as cascading deletes in the contract do. Liveness is checked with
a single delivery, which two ticks still pick, mark and overwrite. Two suppliers
are the least for one to overwrite the other; two runs of the job are a crash
and its re-run; two quotes are a quote and its replacement. Two people can
demote each other, two accepts share one token.

With a limit of 5 and the weights chosen, one request reaches a band and
two overlapping ones pass the limit; the third comes after a rollback, a new limit, a
reset or the new month. Three activities have cycles of two and of three, parallel
paths, and parts that never meet; a lag of 2 between durations of 3 makes the longest path differ
from the sum of its durations, and with a duration of -2 the critical path can be empty. Two requests on a claim are a
check and the change that makes it stale; the amount and the second set of rates
let every component of a claim fall between two dong, the third set takes amounts below
zero, and claims that are not followed all have the same rates. TLC counts in 32 bits, hence rates in per cents there (`One` is 100). Two warranties in two windows
are due on one day in different windows; two of the three incidents share a
day, hence a lock. A window of three ticks ends inside another, neither capacity is a
multiple of it, and an error may come in every tick. The theorems
below remove the bounds for every safety property that a passing run checks.

`CHECK_DEADLOCK FALSE` stands in every configuration since ids are finite: when
all of them are used the model stops, where the real system would receive the
next request. Symmetry is used in safety and refinement runs only.

### What the violated runs show

- `members_sign_in`: a person added by e-mail before registering can never sign
  in, since `users.email` is unique and the row's id is made up.
- `quota_streams`: FastAPI ends the session of `get_db` before it sends a
  streaming response. What the generator then writes goes into a
  transaction nobody commits, so the usage of the streaming routes is lost and
  the cap never trips for them, which the wrapper is there to prevent.
- `mirror`: the photo analysis catches the failure of a mirror, but the failed
  statement has aborted the transaction of the incident. The incident is lost
  with it, although `src/apps/ml/pipelines/siteeye.py:364-366` says it must not.

### Other differences met while modelling

The models show these as behaviours; no run of their own repeats them.

- Outbox. `services/webhooks.py:216-218` promises that two workers "each pick a
  disjoint batch". The commit of the pick (`:257`) ends its locks before the
  first POST, and `in_flight` rows stay due, so that a tick longer than a minute
  shares its rows with the next. A late batch can turn a failed row into a
  delivered or pending one. "Consecutive" failures (`:102-103`) are
  computed from the counter that was picked (`:496`): a success earlier in the
  batch is forgotten, and a re-enabled subscription can start with an old counter.
- RFQ. A supplier's answer writes the entries of all the others, as old as its
  SELECT (`routers/public_rfq.py:241`, against `src/docs/public-rfq-portal.md:149-151`):
  a quote that was answered "received" can disappear. The statuses `responded`
  and `expired` are stored, while the listing schema (`schemas/costpulse.py:44-48`,
  `:288`) knows neither and raises. The job can set `responded` back to `sent` and mail a
  supplier twice.
- Membership. "We never want to leave an org with zero owners"
  (`routers/org.py:253`): two requests that remove one owner each both count two
  (`:272`). `OwnerlessOnlyByRace` says that nothing else can do it.
- Quotas. A failed pipeline answers 502 and rolls back usage and claims after the
  mails, which are sent again next time. The claims of the operator's `set` are
  never committed, so its mail is repeated too. A failing statement of a side table
  aborts the transaction with the usage row, although a comment
  (`services/codeguard_quota_attribution.py:248-249`) says it "can't roll back
  the org-level write". A request that crosses both bands mails both:
  the INSERT for 80 % does not short-circuit, as `services/codeguard_quotas.py:160-164` says. A reset leaves the users' rows, which the
  reconcile cron then reports every day. A limit lowered while usage is
  uncommitted can be crossed without a notice.
- SchedulePilot. Negative durations and lags are accepted, and can make the
  critical path of an acyclic network wrong or empty, as for an activity of 3 days followed by
  one of -2: the project ends with an activity that is followed by others.
  `CriticalPathIsLongest` speaks of the assessments that have read none.
  "Only FS dependencies advance ES/EF" (`src/apps/ml/pipelines/schedulepilot.py:101`) is not what the
  loop does (`:168-171`): every type of dependency advances the earliest finish alike.
- Payment claims. A supervisor's late signature, or a late edit, takes an approved or paid claim
  back; it can then be approved and paid again, with a second approval. Two requests can
  create claims of one number, and a header can have the totals of lines that have changed
  since. Rates above 1 or below 0 are accepted as long as no amount becomes negative.
- E-invoices. `gdt_callback` revives a cancelled invoice and decides a draft. A request that
  found a draft edits the invoice after it was issued, or issues it once more after it was
  sent.
- Billing. Organisations created after migration 0050 have no `subscriptions`
  row (`routers/orgs.py:96`): a checkout then changes nothing, a confirmation is a
  404, and a paid Stripe checkout sets `organizations.plan` only. Docstrings speak of an upsert,
  of a paid invoice and of `customer.subscription.updated`; the code has an UPDATE
  and neither of the others. A late `invoice.payment_failed` turns a cancelled
  subscription into `past_due`, a repeated `completed` reactivates it. Two
  checkouts of a plan in a month share a reference, and one confirmation, which
  is repeatable, pays both.
- Reminders. "Running twice on the same day is a no-op" (`workers/queue.py:461`),
  "if the worker crashes mid-fan-out + restarts, we don't re-email" (migration
  0055, lines 21-22): not so if it crashes before the commit of the window. An item saved after
  the day's run misses that window.
- Daily log. A user's observation of an incident, for which nothing checks or locks, may come
  beside the mirror, and it keeps the sync from making one; a mirror that raises without an error
  of the server is only logged, and leaves the incident without one. `acknowledge_incident` does not call the sync its docstring names.
- Limiters. The public portal uses one key with capacities 10 and 5
  (`routers/public_rfq.py:64-68`). A bucket of another capacity is replaced by a full one,
  so that alternating GET and POST never runs out. An error of Redis lets every call through, as
  `core/rate_limit.py:41-45` says, for as long as it lasts.
- Cache. Only `routers/orgs.py:128-130` invalidates anything.
- `src/docs/architecture.md:150` names a `retry_bounced_rfqs_cron` that does not
  exist.

A run is `tlc -workers 2 -config <run>.cfg <module>`, with the module that
`PROJECT.json` names for it; the largest, `outbox_safety`, visits about two million
states, `quota` about one million, `schedule` about 600 000, `office` about 400 000. A proof module is checked by
`tlapm <module>.tla`.

## 4. Fairness

`WebhookOutbox!Fairness`. The cron starts a tick each minute and the pick orders
by `next_retry_at`, so a row that is due again and again is in some batch:
strong fairness of the picks that contain it. A POST ends in an answer or in its
10 s timeout, an UPDATE gets its lock or is failed by the deadlock detector:
strong fairness of `Post`, `MarkDelivery`, `MarkSubscription` and `Commit`. Strong,
not weak, because `Abort` may interrupt any tick: the assumption is that ticks
are not killed every time for ever. The code does not enforce this: a hundred
receivers that hang for 10 s each make a batch longer than arq's 900 s, and the
same batch may then be cancelled day after day. That case needs a clock and is
listed as a hazard without a property. `BackoffElapses` is time. Nothing is
assumed of administrators, receivers or crashes: a subscription may be switched
off for ever, which is why `EventuallySettled` has that alternative.

`RfqLifecycle!Fairness`. arq runs queued jobs and jobs go on; the cron runs every
day (weak fairness) and is not killed between its SELECT and its COMMIT every
single day (strong fairness of `WriteExpired`). Nothing is assumed
of suppliers: a response may stay open for ever.

`BackOffice!Fairness`. Time passes (`WindowTick`), and a call to the limiter that
is not cut off sends its second command (`Expire`). Weak fairness is enough, and
calls go on without end in the model: `RefusalsEnd` holds whatever they do. It has the
condition that no call ended between the two commands, since the key then has no
TTL and the refusal no end.

## 5. What is proved

All theorems hold for any constants that satisfy the named assumptions, which
ask for positive limits (`BoundsAssumption`, `RateAssumption`), natural numbers
where there is arithmetic, finite sets where cardinalities, sums and maxima are taken
(`FiniteAssumption`, `DataAssumption`, `ScheduleAssumption`, `InvoiceAssumption`, and `RateAssumption` for
the capacities, of which there is one per route), and a `None` that is not a row
(`NoneAssumption`). Amounts of lines are natural numbers; durations, lags and rates are any
integers, in any unit. The bounds of the models that are named as such (`MaxPayments`,
`MaxDeps`, `MaxEdits`, `MaxErrors`, `Followed`, `Noted`, ...) are constants too, and arbitrary.

**`WebhookOutboxProofs`**: `TypeCorrect`, `DeliveredIsTrue`, `FailedIsTrue`,
`NothingIsStranded`, `DisablingIsEarned`. None of these properties is inductive,
because what a tick will write depends on what it picked minutes ago. The
invariant `IInv` says of every snapshot and every uncommitted mark what the
property says of committed rows: `attempt_count` never runs ahead of the POSTs
made, in the row, in a snapshot or in a mark (`AttemptsAreReal`); a verdict rests
on an answer (`VerdictsAreReal`); counters never run ahead of failures
(`FailuresAreReal`). The ghosts only grow, which is why stale copies stay true
whatever the interleaving, and that is the reason the overlap of batches is
harmless to these four properties.

Its last section is the refinement, with the mapping of `Contract`. Overlap is what
breaks the contract: a tick may POST or mark a row that another has settled. So the
hypothesis is `NoOverlap`, that at most one tick is under way, and the invariant is
`RowsAreKept`: until its tick ends, a row that was picked is `in_flight` or deleted,
and a row that is marked keeps its lock. Then every step maps to a step of the
contract or to a stutter (`ContractStep`, one lemma for each kind of step): the pick, the marks and
the deaths are stutters, a POST is a try, the commit settles. `ContractIsKept` is
`Spec /\ []NoOverlap => KeepsContract`; `OneTickKeepsContract` is the form that the
run `outbox_contract` checks, one tick at a time; `SettledOnce` draws the conclusion for the
table: no later tick opens a settled row again or turns its verdict around.

**`RfqLifecycleProofs`**: `TypeCorrect`, `DispatchedIsTrue`, `QuotesAreVisible`,
`ExpiryIsDue`, by the same idea: `SoundSlots` holds of the row and of every
copy in flight. `QuotesSurvive` and `RespondedIsTrue` prove
`[]OneAtATime => []...`: if no two programs hold a copy together, no quote is
lost, through any number of crashes and re-runs. `OneAtATime` is what a
`SELECT ... FOR UPDATE` in the three programs would give, so the theorem says
that this repair is enough. The extra invariant is `CopiesAreFresh`: the copy in
flight agrees with the row in every quote.

**`MembershipProofs`**: `TypeCorrect`, `LastOwnerIsGuarded`, `TokensAreSingleUse`,
`AcceptanceLetsIn`. A write that takes an owner away carries the set of owners
its check saw, with another person in it (`EditsAreGuarded`); if that set is
still true the other person remains, otherwise the request raced. The row lock
has one holder (`LocksAreSound`), hence one use of a token.

**`QuotaLedgerProofs`**: type correctness and the four properties of `quota`.
Overshoot is not inductive: a request that has passed the check will add its cost
later. The invariant counts, for each month, usage together with what the requests
in flight may still add, against the highest limit; the sums over users and
workers are `SumFunctionOnSet`, whose facts `FiniteLemmas` proves. For the mails, a band that
was announced is in the table, or claimed by one transaction that holds its lock,
or was forgotten by a rollback.

**`SchedulePilotProofs`**: `CycleNeedsRace`, `ReportNeedsRace`. The invariant
says of each pending insert that what it has checked still holds, or that it was
overtaken; descendants only grow by inserts. The second theorem needs that
Kahn's algorithm sorts every acyclic network (`SortedAcyclic`): in a finite
network a level that empties nothing leaves a set of activities each of which has a
predecessor in it, hence a cycle.

`ScheduleTypeOK` and `AssessmentIsLongestPath` are about what the assessment
computes. The recursive functions of the two passes are shown to have their
equations at each activity by induction on Kahn's levels (`RankRecursion`, `EfStepValue`,
`LsStepValue`). Along a path the forward pass adds at least durations and
lags, so no path is longer than the finish, and by choosing at each activity a
predecessor that decides its start some path is as long (`PathWithinFinish`,
`PathToExists`). The backward pass undoes exactly these lags, so the slack is zero
along such a path and nowhere else (`SlackAlongPath`, `PathOnExists`). This needs durations and
lags of zero or more, as the property says: a negative one may let an activity end the
project that no longest path ends with. It is a condition on what one assessment has read and
no assumption on the constants; the schema does not give it, and the types and
the theorems about cycles do without. `ComputesLongestPath` and `ComputesResult` carry that to the snapshot that the
assessment has read, whose edges may lack activities.

**`PaymentClaimsProofs`**: `ClaimsType`, `ApprovalIsTheOwners`, `PaymentsAreApproved` and
`PartsOfAnyClaimAddUp` hold always. The last is arithmetic, since each rounding is off
by at most a half, on whichever side of zero. For the payments the invariant is that an
approved claim has been approved more often than paid: only the owner's signature leads there,
and it counts. `ReadsKeepTotals`, `ReadsPayOnce` and `ReadsNumberApart` are proved under
`[]ReadsHold`: a row lock is enough for each. They say nothing of the races that `ReadsHold`
excludes, which the code has.

**`BackOfficeProofs`**: each step of the composition is one of one part and
leaves the others, so `OfficeSpec => Spec` of the payment claims and their theorems
carry over (`OfficeKeepsClaims`, `OfficeClaims`). `InvoiceStaleWritesEnd`,
`ConfirmationsMirror`, `RemindersAgree` and `MirrorsAreUnique` are proved of
their parts: once the draft is left no request finds one again, so that late edits,
submissions and the requests that still may add one are never more than the clerks (invoices); mails counted equal log rows committed and pending (reminders); an
incident of a job that is not mirrored yet is one the job is at work on, or one whose
mirror raised, and a lock on its day belongs to the same job (daily log).

`LimitsAtMostTwice` is proved of both limiters for any window. Neither bound is
inductive: it must be known how the calls are spread over the ticks. For Redis,
what was let through since the window's first call, without the calls that `INCR` did not
answer, is at most what the key counts, less the
call between `INCR` and `EXPIRE`, and any `Window` ticks hold at most a full window
more (`WindowInv`): an error may leave the key counted too high, never too low. For the bucket, the last `j + 1` ticks and what is left in it are
together at most a full bucket and `j` refills, for every `j` (`BucketInv`), in parts of a
token. `Upto`
is the sum over the last ticks; `InWindowIsSum` shows that the fold of the model is
that sum, and `UptoShifted` and `UptoOneMore` say how a tick and a call change it.
`OfficeTypes` is the type invariant of the composition, which needs the invariants
of the reminders, of the daily log and of the limiters, whose ghosts stay within
their types only because of `WindowInv` and `BucketInv`.

**`FiniteLemmas`** holds what the library does not state: the sum and the maximum
over a finite set, what the folds of the community modules compute, and induction
and recursion along a rank.

**Only model-checked.** The liveness properties (`EventuallySettled`,
`EventuallyExpired`, `RefusalsEnd`), whose proof needs `ENABLED`, and everything
said by a violated run. The theorems about the contract of the outbox, the claims
(but for `ApprovalIsTheOwners`, `PaymentsAreApproved` and `PartsOfAnyClaimAddUp`), billing,
`QuotesSurvive` and `RespondedIsTrue` have a hypothesis on the interleaving, the same
that the property or the run has: without it the code does not keep them. They catch none of the
races they exclude, and neither do `CycleOnlyByRace`, `OwnerlessOnlyByRace`,
`OneMailUnlessForgotten` and `RemindedOnce` catch the event their condition names; what they
catch is any other way to the same end. `PROJECT.json` says so at the hazards concerned.

## 6. Not modelled

Payloads, signatures, tokens' cryptography, e-mail wording, prices and language
are data. HTTP validation and roles are guards where they matter. Row-level
security is PostgreSQL's: every action runs inside one tenant. Several
organisations, requests for quotation or schedules are not combined, nor are the
components, since they share no rows except through `audit.record`, which calls
`enqueue_event` inside the caller's transaction and is `EnqueueEvent`.

Most of the source by size has no control worth a state machine. The workflow
routers write one row per request, with the status the caller names; imports,
exports and seeds parse and insert; the assistant and the ML pipelines are prompts,
parsing and scoring around external models; search and dashboards only read; the
front end keeps no state of its own. A model of these would restate the
statements.

Four small parts have state and are left out: the read cache, whose only promise is
its TTL; the archive of the retention job, whose failure the code accepts; the price
alerts, which mail and then commit like the reminders but keep no log to compare
with; and the bid radar, whose unique constraint keeps duplicates out. The
hazard of the alerts is in `PROJECT.json` with this reason. Of the warranty tracker, the
claims on a warranty are left out: rows that no reminder reads.

## 7. Order of the work and what remains

Built in this order: `WebhookOutbox` with its contract, `RfqLifecycle`,
`Membership`, `QuotaLedger`, `SchedulePilot` with `CriticalPath`, `PaymentClaims`,
then the small components and `BackOffice`; each with its proofs before the next.

Worth doing next: a clock in `WebhookOutbox` for batches that outlast
`job_timeout`, which would turn `NoOverlap` from a hypothesis into a question about
the two timeouts; and the API's key counter beside the limiters.
