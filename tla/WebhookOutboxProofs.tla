------------------------- MODULE WebhookOutboxProofs -------------------------
(***************************************************************************)
(* Proofs about WebhookOutbox for any number of deliveries, subscriptions  *)
(* and overlapping drain ticks, any batch size, retry schedule and         *)
(* disabling threshold.  The last section shows that it implements the     *)
(* contract of OutboxContract as long as no ticks overlap.                 *)
(***************************************************************************)
EXTENDS WebhookOutbox, TLAPS

-----------------------------------------------------------------------------
(* The inductive invariant: what the safety properties say of committed    *)
(* rows must already hold of everything a tick is going to write.          *)

\* A row belongs to a subscription, and a tick only works on rows.
RowsAreOwned ==
    /\ \A d \in Deliveries : status[d] # "absent" => owner[d] \in Subs
    /\ \A w \in Workers : \A d \in todo[w] : status[d] # "absent"
    /\ \A w \in Workers, d \in Deliveries : mark[w][d] # "none" => status[d] # "absent"
    /\ \A w \in Workers : pc[w] \in {"mark", "bump"} => cur[w] \in Deliveries /\ status[cur[w]] # "absent"

\* A tick between two batches holds nothing.
IdleIsClean ==
    \A w \in Workers : pc[w] = "idle" =>
        /\ \A d \in Deliveries : mark[w][d] = "none"
        /\ \A s \in Subs : counter[w][s] = "none"
        /\ off[w] = {}

\* attempt_count never runs ahead of the POSTs made, in the row, in a
\* snapshot of it and in the value about to be written.
AttemptsAreReal ==
    /\ \A d \in Deliveries : attempts[d] <= posts[d]
    /\ \A d \in Deliveries : status[d] = "absent" => attempts[d] = 0
    /\ \A w \in Workers, d \in Deliveries :
         snap_attempts[w][d] <= posts[d] /\ snap_attempts[w][d] < MaxAttempts
    /\ \A w \in Workers : pc[w] \in {"mark", "bump"} => Attempt(w, cur[w]) <= posts[cur[w]]
    /\ \A w \in Workers, d \in Deliveries : mark[w][d] # "none" => Attempt(w, d) <= posts[d]

\* A verdict rests on what the receiver answered.
VerdictsAreReal ==
    /\ \A w \in Workers : pc[w] \in {"mark", "bump"} /\ ok[w] => cur[w] \in accepted
    /\ \A w \in Workers, d \in Deliveries :
         /\ mark[w][d] = "delivered" => d \in accepted
         /\ mark[w][d] = "failed" => posts[d] = MaxAttempts
         /\ mark[w][d] = "pending" => Attempt(w, d) < MaxAttempts

\* failure_count never runs ahead of the failures seen, in the row, in a
\* snapshot of it and in the value about to be written.
FailuresAreReal ==
    /\ \A s \in Subs : failure_count[s] <= fails[s]
    /\ \A w \in Workers, s \in Subs : snap_failures[w][s] <= fails[s]
    /\ \A w \in Workers : pc[w] \in {"mark", "bump"} /\ ~ok[w] =>
         NewCount(w, owner[cur[w]]) <= fails[owner[cur[w]]]
    /\ \A w \in Workers, s \in Subs : counter[w][s] = "plus" => NewCount(w, s) <= fails[s]

IInv ==
    /\ TypeOK
    /\ RowsAreOwned
    /\ IdleIsClean
    /\ AttemptsAreReal
    /\ VerdictsAreReal
    /\ FailuresAreReal
    /\ DeliveredWasAccepted
    /\ FailedWasTriedInFull
    /\ UnsettledIsRetryable
    /\ AutoDisableIsEarned

-----------------------------------------------------------------------------
(* The step relation, action by action: an invariant proof has one case    *)
(* for each.                                                               *)

LEMMA NextCases ==
    ASSUME Next
    PROVE  \/ EnqueueEvent
           \/ \E s \in Subs : CreateWebhook(s)
           \/ \E s \in Subs : DeleteWebhook(s)
           \/ \E s \in Subs, enable \in {"on", "off"} : LoadWebhook(s, enable)
           \/ SaveWebhook
           \/ \E src, d \in Deliveries : Redeliver(src, d)
           \/ \E w \in Workers, B \in SUBSET Deliveries : Pick(w, B)
           \/ \E w \in Workers, d \in Deliveries, accepts, answered \in BOOLEAN :
                 Post(w, d, accepts, answered)
           \/ \E w \in Workers : MarkDelivery(w)
           \/ \E w \in Workers : MarkSubscription(w)
           \/ \E w \in Workers : Commit(w)
           \/ \E w \in Workers : Abort(w) \/ DeadlockVictim(w)
           \/ \E d \in Deliveries : BackoffElapses(d)
           \/ \E D \in SUBSET Deliveries : PruneTable(D)
BY Zenon DEF Next, Admin, Drain

-----------------------------------------------------------------------------
(* Type correctness.                                                       *)

LEMMA InsertPendingTypes ==
    ASSUME TypeOK, NEW D \in SUBSET Deliveries, NEW for \in [D -> Subs], InsertPending(for)
    PROVE  /\ status' \in [Deliveries -> Open \cup Terminal \cup NoRow]
           /\ timer' \in [Deliveries -> {"null", "due", "later"}]
           /\ owner' \in [Deliveries -> Subs \cup {None}]
           /\ attempts' = attempts
BY DEF TypeOK, InsertPending, Open, Terminal, NoRow

LEMMA ResetTypes ==
    ASSUME TypeOK, NEW w \in Workers, Reset(w)
    PROVE  /\ pc' \in [Workers -> {"idle", "post", "mark", "bump"}]
           /\ todo' \in [Workers -> SUBSET Deliveries]
           /\ cur' \in [Workers -> Deliveries \cup {None}]
           /\ ok' \in [Workers -> BOOLEAN]
           /\ snap_attempts' \in [Workers -> [Deliveries -> 0..MaxAttempts]]
           /\ snap_failures' \in [Workers -> [Subs -> 0..DisableAfter]]
           /\ mark' \in [Workers -> [Deliveries -> {"none", "delivered", "failed", "pending"}]]
           /\ counter' \in [Workers -> [Subs -> {"none", "zero", "plus"}]]
           /\ off' \in [Workers -> SUBSET Subs]
BY BoundsAssumption DEF TypeOK, Reset

LEMMA TypeStep ==
    ASSUME IInv, [Next]_vars
    PROVE  TypeOK'
<1> USE BoundsAssumption, NoneAssumption DEF IInv
<1> SUFFICES ASSUME Next PROVE TypeOK'
  BY SMTT(40) DEF TypeOK, Patches, vars, rows, subs, ticks, ghosts, Open, Terminal, NoRow
<1>1. CASE EnqueueEvent
  <2>0. PICK D \in SUBSET Deliveries :
          \E for \in [D -> {s \in Subs : sub_state[s] = "on"}] : InsertPending(for)
    BY <1>1 DEF EnqueueEvent
  <2>1. PICK for \in [D -> {s \in Subs : sub_state[s] = "on"}] : InsertPending(for)
    BY <2>0
  <2>2. for \in [D -> Subs]
    OBVIOUS
  <2>. QED
    BY <1>1, <2>1, <2>2, InsertPendingTypes DEF EnqueueEvent, TypeOK, subs, ticks, ghosts
<1>2. CASE \E s \in Subs : CreateWebhook(s)
  BY <1>2 DEF CreateWebhook, TypeOK, rows, ticks, ghosts
<1>3. CASE \E s \in Subs : DeleteWebhook(s)
  BY <1>3 DEF DeleteWebhook, TypeOK, ticks, ghosts, NoRow
<1>4. CASE \E s \in Subs, enable \in {"on", "off"} : LoadWebhook(s, enable)
  BY <1>4 DEF LoadWebhook, TypeOK, Patches, rows, subs, ticks, ghosts
<1>5. CASE SaveWebhook
  <2>1. patch.enabled \in {"keep", "on", "off"} /\ NoPatch \in Patches
    BY DEF TypeOK, Patches, NoPatch
  <2>2. sub_state' \in [Subs -> {"absent", "on", "off", "deleted"}]
    <3>1. PICK v : /\ v \in {sub_state[patch.sub], patch.enabled}
                   /\ patch.enabled = "keep" => v = sub_state[patch.sub]
                   /\ sub_state' = [sub_state EXCEPT ![patch.sub] = v]
      BY <1>5 DEF SaveWebhook
    <3>. QED
      BY <3>1, <2>1 DEF TypeOK
  <2>3. failure_count' \in [Subs -> 0..DisableAfter]
    <3>1. PICK n \in {failure_count[patch.sub], 0} :
            failure_count' = [failure_count EXCEPT ![patch.sub] = n]
      BY <1>5 DEF SaveWebhook
    <3>2. 0 \in 0..DisableAfter
      OBVIOUS
    <3>3. CASE n = 0
      BY <3>1, <3>2, <3>3 DEF TypeOK
    <3>4. CASE n = failure_count[patch.sub]
      <4>1. failure_count' = failure_count
        BY <3>1, <3>4 DEF TypeOK
      <4>. QED
        BY <4>1 DEF TypeOK
    <3>. QED
      BY <3>1, <3>3, <3>4
  <2>4. patch' \in Patches
    BY <1>5, <2>1 DEF SaveWebhook
  <2>. QED
    BY <1>5, <2>2, <2>3, <2>4 DEF SaveWebhook, TypeOK, rows, ticks, ghosts
<1>6. CASE \E src, d \in Deliveries : Redeliver(src, d)
  <2>1. PICK src \in Deliveries, d \in Deliveries : Redeliver(src, d)
    BY <1>6
  <2>2. [x \in {d} |-> owner[src]] \in [{d} -> Subs]
    BY <2>1 DEF Redeliver, RowsAreOwned, NoRow
  <2>3. InsertPending([x \in {d} |-> owner[src]]) /\ {d} \in SUBSET Deliveries
    BY <2>1 DEF Redeliver
  <2>. QED
    BY <2>1, <2>2, <2>3, InsertPendingTypes DEF Redeliver, TypeOK, subs, ticks, ghosts
<1>7. CASE \E w \in Workers, B \in SUBSET Deliveries : Pick(w, B)
  BY <1>7 DEF Pick, TypeOK, subs, ghosts, Open
<1>8. CASE \E w \in Workers, d \in Deliveries, accepts, answered \in BOOLEAN :
             Post(w, d, accepts, answered)
  <2>1. PICK w \in Workers, d \in Deliveries, accepts \in BOOLEAN, answered \in BOOLEAN :
          Post(w, d, accepts, answered)
    BY <1>8
  <2>2. posts' \in [Deliveries -> 0..MaxAttempts] /\ accepted' \in SUBSET Deliveries
    BY <2>1 DEF Post, TypeOK, UpTo
  <2>4. fails' \in [Subs -> 0..DisableAfter]
    <3>1. owner[d] \in Subs
      BY <2>1 DEF Post, RowsAreOwned
    <3>2. UpTo(fails[owner[d]], DisableAfter) \in 0..DisableAfter
      BY <3>1 DEF UpTo, TypeOK
    <3>. QED
      BY <2>1, <3>1, <3>2 DEF Post, TypeOK
  <2>3. /\ pc' \in [Workers -> {"idle", "post", "mark", "bump"}]
        /\ todo' \in [Workers -> SUBSET Deliveries]
        /\ cur' \in [Workers -> Deliveries \cup {None}]
        /\ ok' \in [Workers -> BOOLEAN]
    BY <2>1 DEF Post, TypeOK
  <2>. QED
    BY <2>1, <2>2, <2>3, <2>4 DEF Post, TypeOK, rows, subs
<1>9. CASE \E w \in Workers : MarkDelivery(w)
  <2>1. PICK w \in Workers : MarkDelivery(w)
    BY <1>9
  <2>2. /\ cur[w] \in Deliveries
        /\ Verdict(w, cur[w]) \in {"delivered", "failed", "pending"}
    BY <2>1 DEF MarkDelivery, RowsAreOwned, Verdict
  <2>3. mark' \in [Workers -> [Deliveries -> {"none", "delivered", "failed", "pending"}]]
    BY <2>1, <2>2 DEF MarkDelivery, TypeOK
  <2>. QED
    BY <2>1, <2>3 DEF MarkDelivery, TypeOK, rows, subs, ghosts
<1>10. CASE \E w \in Workers : MarkSubscription(w)
  BY <1>10 DEF MarkSubscription, RowsAreOwned, TypeOK, rows, subs, ghosts
<1>11. CASE \E w \in Workers : Commit(w)
  BY <1>11, ResetTypes, SMTT(40) DEF Commit, TypeOK, AttemptsAreReal, Attempt, NewCount, UpTo, RowLockedBy,
                                     Open, Terminal, ghosts
<1>12. CASE \E w \in Workers : Abort(w) \/ DeadlockVictim(w)
  BY <1>12, ResetTypes DEF Abort, DeadlockVictim, TypeOK, rows, subs, ghosts
<1>13. CASE \E d \in Deliveries : BackoffElapses(d)
  BY <1>13 DEF BackoffElapses, TypeOK, subs, ticks, ghosts
<1>14. CASE \E D \in SUBSET Deliveries : PruneTable(D)
  BY <1>14 DEF PruneTable, TypeOK, subs, ticks, ghosts, NoRow
<1>. QED
  BY NextCases, <1>1, <1>2, <1>3, <1>4, <1>5, <1>6, <1>7, <1>8, <1>9, <1>10, <1>11, <1>12, <1>13, <1>14
-----------------------------------------------------------------------------
(* The other parts of the invariant.                                       *)

\* Resetting a tick clears it and leaves the others alone.
LEMMA ResetEffect ==
    ASSUME TypeOK, NEW w \in Workers, Reset(w), NEW v \in Workers
    PROVE  /\ v = w => /\ pc'[v] = "idle" /\ todo'[v] = {} /\ off'[v] = {}
                       /\ \A d \in Deliveries : mark'[v][d] = "none" /\ snap_attempts'[v][d] = 0
                       /\ \A s \in Subs : counter'[v][s] = "none" /\ snap_failures'[v][s] = 0
           /\ v # w => /\ pc'[v] = pc[v] /\ todo'[v] = todo[v] /\ off'[v] = off[v]
                       /\ cur'[v] = cur[v] /\ ok'[v] = ok[v]
                       /\ mark'[v] = mark[v] /\ snap_attempts'[v] = snap_attempts[v]
                       /\ counter'[v] = counter[v] /\ snap_failures'[v] = snap_failures[v]
BY DEF TypeOK, Reset

LEMMA ResetOwned ==
    ASSUME TypeOK, RowsAreOwned, NEW w \in Workers, Reset(w), owner' = owner,
           \A d \in Deliveries : (status'[d] # "absent") <=> (status[d] # "absent")
    PROVE  RowsAreOwned'
<1>1. \A d \in Deliveries : status'[d] # "absent" => owner'[d] \in Subs
  BY DEF RowsAreOwned
<1>2. ASSUME NEW v \in Workers, NEW d \in todo'[v]
      PROVE  status'[d] # "absent"
  <2>1. d \in todo[v]
    BY <1>2, ResetEffect
  <2>. QED
    BY <2>1 DEF RowsAreOwned, TypeOK
<1>3. ASSUME NEW v \in Workers, NEW d \in Deliveries, mark'[v][d] # "none"
      PROVE  status'[d] # "absent"
  <2>1. mark[v][d] # "none"
    BY <1>3, ResetEffect
  <2>. QED
    BY <2>1 DEF RowsAreOwned
<1>4. ASSUME NEW v \in Workers, pc'[v] \in {"mark", "bump"}
      PROVE  cur'[v] \in Deliveries /\ status'[cur'[v]] # "absent"
  <2>1. pc[v] \in {"mark", "bump"} /\ cur'[v] = cur[v]
    BY <1>4, ResetEffect
  <2>. QED
    BY <2>1 DEF RowsAreOwned
<1>. QED
  BY <1>1, <1>2, <1>3, <1>4 DEF RowsAreOwned

LEMMA OwnedStep ==
    ASSUME IInv, [Next]_vars
    PROVE  RowsAreOwned'
<1> USE BoundsAssumption, NoneAssumption DEF IInv, TypeOK, RowsAreOwned
<1> SUFFICES ASSUME Next PROVE RowsAreOwned'
  BY DEF vars, rows, subs, ticks, ghosts
<1>1. CASE EnqueueEvent
  BY <1>1 DEF EnqueueEvent, InsertPending, subs, ticks, ghosts, Open
<1>2. CASE \E s \in Subs : CreateWebhook(s)
  BY <1>2 DEF CreateWebhook, rows, ticks, ghosts
<1>3. CASE \E s \in Subs : DeleteWebhook(s)
  BY <1>3 DEF DeleteWebhook, ticks, ghosts
<1>4. CASE \E s \in Subs, enable \in {"on", "off"} : LoadWebhook(s, enable)
  BY <1>4 DEF LoadWebhook, rows, subs, ticks, ghosts
<1>5. CASE SaveWebhook
  BY <1>5 DEF SaveWebhook, rows, ticks, ghosts
<1>6. CASE \E src, d \in Deliveries : Redeliver(src, d)
  BY <1>6 DEF Redeliver, InsertPending, subs, ticks, ghosts, NoRow
<1>7. CASE \E w \in Workers, B \in SUBSET Deliveries : Pick(w, B)
  BY <1>7 DEF Pick, subs, ghosts, Eligible, Open
<1>8. CASE \E w \in Workers, d \in Deliveries, accepts, answered \in BOOLEAN :
             Post(w, d, accepts, answered)
  BY <1>8 DEF Post, rows, subs
<1>9. CASE \E w \in Workers : MarkDelivery(w)
  BY <1>9 DEF MarkDelivery, rows, subs, ghosts, Verdict
<1>10. CASE \E w \in Workers : MarkSubscription(w)
  BY <1>10 DEF MarkSubscription, rows, subs, ghosts
<1>11. CASE \E w \in Workers : Commit(w)
  <2>1. PICK w \in Workers : Commit(w)
    BY <1>11
  <2>2. owner' = owner /\ Reset(w)
    BY <2>1 DEF Commit
  <2>3. \A d \in Deliveries : (status'[d] # "absent") <=> (status[d] # "absent")
    <3>1. SUFFICES ASSUME NEW d \in Deliveries
                   PROVE  (status'[d] # "absent") <=> (status[d] # "absent")
      OBVIOUS
    <3>2. status'[d] = IF mark[w][d] # "none" THEN mark[w][d] ELSE status[d]
      BY <2>1 DEF Commit, RowLockedBy
    <3>3. mark[w][d] \in {"none", "delivered", "failed", "pending"}
      OBVIOUS
    <3>. QED
      BY <3>2, <3>3
  <2>. QED
    BY <2>2, <2>3, ResetOwned
<1>12. CASE \E w \in Workers : Abort(w) \/ DeadlockVictim(w)
  <2>1. PICK w \in Workers : Reset(w) /\ UNCHANGED <<status, owner>>
    BY <1>12 DEF Abort, DeadlockVictim, rows
  <2>. QED
    BY <2>1, ResetOwned
<1>13. CASE \E d \in Deliveries : BackoffElapses(d)
  BY <1>13 DEF BackoffElapses, subs, ticks, ghosts
<1>14. CASE \E D \in SUBSET Deliveries : PruneTable(D)
  <2>1. PICK D \in SUBSET Deliveries : PruneTable(D)
    BY <1>14
  <2>2. \A d \in Deliveries : (status'[d] # "absent") <=> (status[d] # "absent")
    BY <2>1 DEF PruneTable, Terminal
  <2>. QED
    BY <2>1, <2>2 DEF PruneTable, ticks
<1>. QED
  BY NextCases, <1>1, <1>2, <1>3, <1>4, <1>5, <1>6, <1>7, <1>8, <1>9, <1>10, <1>11, <1>12, <1>13, <1>14

LEMMA ResetIdle ==
    ASSUME TypeOK, IdleIsClean, NEW w \in Workers, Reset(w)
    PROVE  IdleIsClean'
<1> SUFFICES ASSUME NEW v \in Workers, pc'[v] = "idle"
             PROVE  /\ \A d \in Deliveries : mark'[v][d] = "none"
                    /\ \A s \in Subs : counter'[v][s] = "none"
                    /\ off'[v] = {}
  BY DEF IdleIsClean
<1>1. CASE v = w
  BY <1>1, ResetEffect
<1>2. CASE v # w
  BY <1>2, ResetEffect DEF IdleIsClean
<1>. QED
  BY <1>1, <1>2

LEMMA IdleStep ==
    ASSUME IInv, [Next]_vars
    PROVE  IdleIsClean'
<1> USE BoundsAssumption, NoneAssumption DEF IInv, TypeOK, IdleIsClean
<1> SUFFICES ASSUME Next PROVE IdleIsClean'
  BY DEF vars, rows, subs, ticks, ghosts
<1>1. CASE EnqueueEvent
  BY <1>1 DEF EnqueueEvent, InsertPending, subs, ticks, ghosts
<1>2. CASE \E s \in Subs : CreateWebhook(s)
  BY <1>2 DEF CreateWebhook, rows, ticks, ghosts
<1>3. CASE \E s \in Subs : DeleteWebhook(s)
  BY <1>3 DEF DeleteWebhook, ticks, ghosts
<1>4. CASE \E s \in Subs, enable \in {"on", "off"} : LoadWebhook(s, enable)
  BY <1>4 DEF LoadWebhook, rows, subs, ticks, ghosts
<1>5. CASE SaveWebhook
  BY <1>5 DEF SaveWebhook, rows, ticks, ghosts
<1>6. CASE \E src, d \in Deliveries : Redeliver(src, d)
  BY <1>6 DEF Redeliver, InsertPending, subs, ticks, ghosts
<1>7. CASE \E w \in Workers, B \in SUBSET Deliveries : Pick(w, B)
  BY <1>7 DEF Pick, subs, ghosts
<1>8. CASE \E w \in Workers, d \in Deliveries, accepts, answered \in BOOLEAN :
             Post(w, d, accepts, answered)
  BY <1>8 DEF Post, rows, subs
<1>9. CASE \E w \in Workers : MarkDelivery(w)
  BY <1>9 DEF MarkDelivery, rows, subs, ghosts
<1>10. CASE \E w \in Workers : MarkSubscription(w)
  BY <1>10 DEF MarkSubscription, rows, subs, ghosts
<1>11. CASE \E w \in Workers : Commit(w)
  BY <1>11 DEF Commit, Reset, ghosts
<1>12. CASE \E w \in Workers : Abort(w) \/ DeadlockVictim(w)
  BY <1>12, ResetIdle DEF Abort, DeadlockVictim
<1>13. CASE \E d \in Deliveries : BackoffElapses(d)
  BY <1>13 DEF BackoffElapses, subs, ticks, ghosts
<1>14. CASE \E D \in SUBSET Deliveries : PruneTable(D)
  BY <1>14 DEF PruneTable, subs, ticks, ghosts
<1>. QED
  BY NextCases, <1>1, <1>2, <1>3, <1>4, <1>5, <1>6, <1>7, <1>8, <1>9, <1>10, <1>11, <1>12, <1>13, <1>14

LEMMA ResetAttempts ==
    ASSUME TypeOK, AttemptsAreReal, NEW w \in Workers, Reset(w), posts' = posts,
           \A d \in Deliveries : attempts'[d] <= posts[d] /\ (status'[d] = "absent" => attempts'[d] = 0)
    PROVE  AttemptsAreReal'
<1> USE BoundsAssumption
<1>1. ASSUME NEW v \in Workers, NEW d \in Deliveries
      PROVE  /\ snap_attempts'[v][d] <= posts[d]
             /\ snap_attempts'[v][d] < MaxAttempts
             /\ mark'[v][d] # "none" => snap_attempts'[v][d] + 1 <= posts[d]
  <2>1. CASE v = w
    BY <2>1, ResetEffect DEF TypeOK
  <2>2. CASE v # w
    BY <2>2, ResetEffect DEF AttemptsAreReal, Attempt
  <2>. QED
    BY <2>1, <2>2
<1>2. ASSUME NEW v \in Workers, pc'[v] \in {"mark", "bump"}
      PROVE  snap_attempts'[v][cur'[v]] + 1 <= posts[cur'[v]]
  <2>1. v # w
    BY <1>2, ResetEffect
  <2>. QED
    BY <1>2, <2>1, ResetEffect DEF AttemptsAreReal, Attempt
<1>. QED
  BY <1>1, <1>2 DEF AttemptsAreReal, Attempt

LEMMA AttemptsStep ==
    ASSUME IInv, [Next]_vars
    PROVE  AttemptsAreReal'
<1> USE BoundsAssumption, NoneAssumption DEF IInv, TypeOK, AttemptsAreReal, Attempt
<1> SUFFICES ASSUME Next PROVE AttemptsAreReal'
  BY DEF vars, rows, subs, ticks, ghosts
<1>1. CASE EnqueueEvent
  BY <1>1 DEF EnqueueEvent, InsertPending, subs, ticks, ghosts
<1>2. CASE \E s \in Subs : CreateWebhook(s)
  BY <1>2 DEF CreateWebhook, rows, ticks, ghosts
<1>3. CASE \E s \in Subs : DeleteWebhook(s)
  BY <1>3 DEF DeleteWebhook, ticks, ghosts
<1>4. CASE \E s \in Subs, enable \in {"on", "off"} : LoadWebhook(s, enable)
  BY <1>4 DEF LoadWebhook, rows, subs, ticks, ghosts
<1>5. CASE SaveWebhook
  BY <1>5 DEF SaveWebhook, rows, ticks, ghosts
<1>6. CASE \E src, d \in Deliveries : Redeliver(src, d)
  BY <1>6 DEF Redeliver, InsertPending, subs, ticks, ghosts
<1>7. CASE \E w \in Workers, B \in SUBSET Deliveries : Pick(w, B)
  <2>1. PICK w \in Workers, B \in SUBSET Deliveries : Pick(w, B)
    BY <1>7
  <2>2. \A d \in Deliveries : mark[w][d] = "none"
    BY <2>1 DEF Pick, IdleIsClean
  <2>3. \A d \in B : attempts[d] < MaxAttempts
    BY <2>1 DEF Pick, Eligible, UnsettledIsRetryable
  <2>4. \A d \in Deliveries : snap_attempts'[w][d] <= posts[d] /\ snap_attempts'[w][d] < MaxAttempts
    BY <2>1, <2>3 DEF Pick
  <2>5. \A v \in Workers \ {w} : snap_attempts'[v] = snap_attempts[v]
    BY <2>1 DEF Pick
  <2>6. /\ \A v \in Workers : pc'[v] \in {"mark", "bump"} => v # w /\ pc[v] = pc'[v]
        /\ UNCHANGED <<attempts, posts, cur, mark>>
    BY <2>1 DEF Pick, ghosts
  <2>7. \A d \in Deliveries : status'[d] = "absent" => status[d] = "absent"
    BY <2>1 DEF Pick
  <2>. QED
    BY <2>2, <2>4, <2>5, <2>6, <2>7
<1>8. CASE \E w \in Workers, d \in Deliveries, accepts, answered \in BOOLEAN :
             Post(w, d, accepts, answered)
  BY <1>8 DEF Post, rows, subs, UpTo
<1>9. CASE \E w \in Workers : MarkDelivery(w)
  BY <1>9 DEF MarkDelivery, rows, subs, ghosts
<1>10. CASE \E w \in Workers : MarkSubscription(w)
  BY <1>10 DEF MarkSubscription, rows, subs, ghosts
<1>11. CASE \E w \in Workers : Commit(w)
  <2>1. PICK w \in Workers : Commit(w)
    BY <1>11
  <2>2. ASSUME NEW d \in Deliveries
        PROVE  attempts'[d] <= posts[d] /\ (status'[d] = "absent" => attempts'[d] = 0)
    <3>1. CASE mark[w][d] = "none"
      BY <2>1, <3>1 DEF Commit, RowLockedBy
    <3>2. CASE mark[w][d] # "none"
      <4>1. status'[d] = mark[w][d] /\ attempts'[d] = Attempt(w, d)
        BY <2>1, <3>2 DEF Commit, RowLockedBy
      <4>2. mark[w][d] \in {"none", "delivered", "failed", "pending"}
        OBVIOUS
      <4>. QED
        BY <3>2, <4>1, <4>2
    <3>. QED
      BY <3>1, <3>2
  <2>3. Reset(w) /\ posts' = posts
    BY <2>1 DEF Commit, ghosts
  <2>. QED
    BY <2>2, <2>3, ResetAttempts
<1>12. CASE \E w \in Workers : Abort(w) \/ DeadlockVictim(w)
  BY <1>12, ResetAttempts DEF Abort, DeadlockVictim, rows, ghosts
<1>13. CASE \E d \in Deliveries : BackoffElapses(d)
  BY <1>13 DEF BackoffElapses, subs, ticks, ghosts
<1>14. CASE \E D \in SUBSET Deliveries : PruneTable(D)
  BY <1>14 DEF PruneTable, subs, ticks, ghosts
<1>. QED
  BY NextCases, <1>1, <1>2, <1>3, <1>4, <1>5, <1>6, <1>7, <1>8, <1>9, <1>10, <1>11, <1>12, <1>13, <1>14

LEMMA ResetVerdicts ==
    ASSUME TypeOK, VerdictsAreReal, NEW w \in Workers, Reset(w), UNCHANGED <<accepted, posts>>
    PROVE  VerdictsAreReal'
<1>1. ASSUME NEW v \in Workers, NEW d \in Deliveries
      PROVE  /\ mark'[v][d] = "delivered" => d \in accepted
             /\ mark'[v][d] = "failed" => posts[d] = MaxAttempts
             /\ mark'[v][d] = "pending" => snap_attempts'[v][d] + 1 < MaxAttempts
  <2>1. CASE v = w
    BY <2>1, ResetEffect
  <2>2. CASE v # w
    BY <2>2, ResetEffect DEF VerdictsAreReal, Attempt
  <2>. QED
    BY <2>1, <2>2
<1>2. ASSUME NEW v \in Workers, pc'[v] \in {"mark", "bump"}, ok'[v]
      PROVE  cur'[v] \in accepted
  <2>1. v # w
    BY <1>2, ResetEffect
  <2>. QED
    BY <1>2, <2>1, ResetEffect DEF VerdictsAreReal
<1>. QED
  BY <1>1, <1>2 DEF VerdictsAreReal, Attempt

LEMMA VerdictsStep ==
    ASSUME IInv, [Next]_vars
    PROVE  VerdictsAreReal'
<1> USE BoundsAssumption, NoneAssumption DEF IInv, TypeOK, VerdictsAreReal, Attempt
<1> SUFFICES ASSUME Next PROVE VerdictsAreReal'
  BY DEF vars, rows, subs, ticks, ghosts
<1>1. CASE EnqueueEvent
  BY <1>1 DEF EnqueueEvent, InsertPending, subs, ticks, ghosts
<1>2. CASE \E s \in Subs : CreateWebhook(s)
  BY <1>2 DEF CreateWebhook, rows, ticks, ghosts
<1>3. CASE \E s \in Subs : DeleteWebhook(s)
  BY <1>3 DEF DeleteWebhook, ticks, ghosts
<1>4. CASE \E s \in Subs, enable \in {"on", "off"} : LoadWebhook(s, enable)
  BY <1>4 DEF LoadWebhook, rows, subs, ticks, ghosts
<1>5. CASE SaveWebhook
  BY <1>5 DEF SaveWebhook, rows, ticks, ghosts
<1>6. CASE \E src, d \in Deliveries : Redeliver(src, d)
  BY <1>6 DEF Redeliver, InsertPending, subs, ticks, ghosts
<1>7. CASE \E w \in Workers, B \in SUBSET Deliveries : Pick(w, B)
  <2>1. PICK w \in Workers, B \in SUBSET Deliveries : Pick(w, B)
    BY <1>7
  <2>2. \A d \in Deliveries : mark[w][d] = "none"
    BY <2>1 DEF Pick, IdleIsClean
  <2>3. \A v \in Workers \ {w} : snap_attempts'[v] = snap_attempts[v]
    BY <2>1 DEF Pick
  <2>4. /\ \A v \in Workers : pc'[v] \in {"mark", "bump"} => pc[v] = pc'[v]
        /\ UNCHANGED <<posts, accepted, cur, ok, mark>>
    BY <2>1 DEF Pick, ghosts
  <2>5. ASSUME NEW v \in Workers, NEW d \in Deliveries
        PROVE  /\ mark'[v][d] = "delivered" => d \in accepted'
               /\ mark'[v][d] = "failed" => posts'[d] = MaxAttempts
               /\ mark'[v][d] = "pending" => Attempt(v, d)' < MaxAttempts
    <3>1. CASE v = w
      BY <2>2, <2>4, <3>1
    <3>2. CASE v # w
      BY <2>3, <2>4, <3>2
    <3>. QED
      BY <3>1, <3>2
  <2>6. \A v \in Workers : pc'[v] \in {"mark", "bump"} /\ ok'[v] => cur'[v] \in accepted'
    BY <2>4
  <2>. QED
    BY <2>5, <2>6
<1>8. CASE \E w \in Workers, d \in Deliveries, accepts, answered \in BOOLEAN :
             Post(w, d, accepts, answered)
  BY <1>8 DEF Post, rows, subs, UpTo
<1>9. CASE \E w \in Workers : MarkDelivery(w)
  <2>1. PICK w \in Workers : MarkDelivery(w)
    BY <1>9
  <2>2. /\ cur[w] \in Deliveries
        /\ Verdict(w, cur[w]) = "delivered" => cur[w] \in accepted
        /\ Verdict(w, cur[w]) = "failed" => posts[cur[w]] = MaxAttempts
        /\ Verdict(w, cur[w]) = "pending" => Attempt(w, cur[w]) < MaxAttempts
    <3>1. pc[w] = "mark" /\ cur[w] \in Deliveries /\ snap_attempts[w][cur[w]] + 1 <= posts[cur[w]]
      BY <2>1 DEF MarkDelivery, RowsAreOwned, AttemptsAreReal
    <3>2. /\ snap_attempts[w][cur[w]] \in 0..MaxAttempts
          /\ posts[cur[w]] \in 0..MaxAttempts
          /\ MaxAttempts \in Nat
      BY <3>1
    <3>3. ok[w] => cur[w] \in accepted
      BY <3>1
    <3>4. CASE ok[w]
      BY <3>1, <3>3, <3>4 DEF Verdict
    <3>5. CASE ~ok[w]
      <4>1. CASE snap_attempts[w][cur[w]] + 1 >= MaxAttempts
        <5>1. posts[cur[w]] = MaxAttempts
          <6> HIDE DEF IInv, TypeOK
          <6>. QED
            BY <3>1, <3>2, <4>1
        <5>2. Verdict(w, cur[w]) = "failed"
          BY <3>5, <4>1 DEF Verdict
        <5>. QED
          BY <3>1, <5>1, <5>2
      <4>2. CASE ~(snap_attempts[w][cur[w]] + 1 >= MaxAttempts)
        BY <3>1, <3>2, <3>5, <4>2 DEF Verdict
      <4>. QED
        BY <4>1, <4>2
    <3>. QED
      BY <3>4, <3>5
  <2>3. ASSUME NEW v \in Workers, NEW d \in Deliveries
        PROVE  mark'[v][d] = mark[v][d] \/ (v = w /\ d = cur[w] /\ mark'[v][d] = Verdict(w, d))
    BY <2>1, <2>2 DEF MarkDelivery
  <2>4. /\ \A v \in Workers : pc'[v] \in {"mark", "bump"} => pc[v] \in {"mark", "bump"}
        /\ UNCHANGED <<posts, accepted, cur, ok, snap_attempts>>
    BY <2>1 DEF MarkDelivery, ghosts
  <2>5. ASSUME NEW v \in Workers, NEW d \in Deliveries
        PROVE  /\ mark'[v][d] = "delivered" => d \in accepted
               /\ mark'[v][d] = "failed" => posts[d] = MaxAttempts
               /\ mark'[v][d] = "pending" => Attempt(v, d) < MaxAttempts
    <3>1. CASE mark'[v][d] = mark[v][d]
      BY <3>1
    <3>2. CASE v = w /\ d = cur[w] /\ mark'[v][d] = Verdict(w, d)
      BY <2>2, <3>2
    <3>. QED
      BY <2>3, <3>1, <3>2
  <2>. QED
    BY <2>4, <2>5
<1>10. CASE \E w \in Workers : MarkSubscription(w)
  BY <1>10 DEF MarkSubscription, rows, subs, ghosts
<1>11. CASE \E w \in Workers : Commit(w)
  BY <1>11 DEF Commit, Reset, ghosts, RowLockedBy
<1>12. CASE \E w \in Workers : Abort(w) \/ DeadlockVictim(w)
  BY <1>12, ResetVerdicts DEF Abort, DeadlockVictim, rows, ghosts
<1>13. CASE \E d \in Deliveries : BackoffElapses(d)
  BY <1>13 DEF BackoffElapses, subs, ticks, ghosts
<1>14. CASE \E D \in SUBSET Deliveries : PruneTable(D)
  BY <1>14 DEF PruneTable, subs, ticks, ghosts
<1>. QED
  BY NextCases, <1>1, <1>2, <1>3, <1>4, <1>5, <1>6, <1>7, <1>8, <1>9, <1>10, <1>11, <1>12, <1>13, <1>14

LEMMA ResetFailures ==
    ASSUME TypeOK, FailuresAreReal, NEW w \in Workers, Reset(w), UNCHANGED <<owner, failure_count, fails>>
    PROVE  FailuresAreReal'
<1> USE BoundsAssumption
<1>1. ASSUME NEW v \in Workers, NEW s \in Subs
      PROVE  /\ snap_failures'[v][s] <= fails[s]
             /\ counter'[v][s] = "plus" => UpTo(snap_failures'[v][s], DisableAfter) <= fails[s]
  <2>1. CASE v = w
    BY <2>1, ResetEffect DEF TypeOK
  <2>2. CASE v # w
    BY <2>2, ResetEffect DEF FailuresAreReal, NewCount
  <2>. QED
    BY <2>1, <2>2
<1>2. ASSUME NEW v \in Workers, pc'[v] \in {"mark", "bump"}, ~ok'[v]
      PROVE  UpTo(snap_failures'[v][owner[cur'[v]]], DisableAfter) <= fails[owner[cur'[v]]]
  <2>1. v # w
    BY <1>2, ResetEffect
  <2>. QED
    BY <1>2, <2>1, ResetEffect DEF FailuresAreReal, NewCount
<1>. QED
  BY <1>1, <1>2 DEF FailuresAreReal, NewCount

LEMMA FailuresStep ==
    ASSUME IInv, [Next]_vars
    PROVE  FailuresAreReal'
<1> USE BoundsAssumption, NoneAssumption DEF IInv, TypeOK, FailuresAreReal, NewCount
<1> SUFFICES ASSUME Next PROVE FailuresAreReal'
  BY DEF vars, rows, subs, ticks, ghosts
<1>1. CASE EnqueueEvent
  <2>1. PICK D \in SUBSET Deliveries :
          \E for \in [D -> {s \in Subs : sub_state[s] = "on"}] : InsertPending(for)
    BY <1>1 DEF EnqueueEvent
  <2>2. \A d \in Deliveries : status[d] # "absent" => owner'[d] = owner[d]
    BY <2>1 DEF InsertPending
  <2>. QED
    BY <1>1, <2>2 DEF EnqueueEvent, RowsAreOwned, subs, ticks, ghosts
<1>2. CASE \E s \in Subs : CreateWebhook(s)
  BY <1>2 DEF CreateWebhook, rows, ticks, ghosts
<1>3. CASE \E s \in Subs : DeleteWebhook(s)
  BY <1>3 DEF DeleteWebhook, ticks, ghosts
<1>4. CASE \E s \in Subs, enable \in {"on", "off"} : LoadWebhook(s, enable)
  BY <1>4 DEF LoadWebhook, rows, subs, ticks, ghosts
<1>5. CASE SaveWebhook
  BY <1>5 DEF SaveWebhook, rows, ticks, ghosts
<1>6. CASE \E src, d \in Deliveries : Redeliver(src, d)
  <2>1. PICK src \in Deliveries, d \in Deliveries : Redeliver(src, d)
    BY <1>6
  <2>2. \A e \in Deliveries : status[e] # "absent" => owner'[e] = owner[e]
    BY <2>1 DEF Redeliver, InsertPending
  <2>. QED
    BY <2>1, <2>2 DEF Redeliver, RowsAreOwned, subs, ticks, ghosts
<1>7. CASE \E w \in Workers, B \in SUBSET Deliveries : Pick(w, B)
  <2>1. PICK w \in Workers, B \in SUBSET Deliveries : Pick(w, B)
    BY <1>7
  <2>2. \A s \in Subs : counter[w][s] = "none"
    BY <2>1 DEF Pick, IdleIsClean
  <2>3. snap_failures'[w] = failure_count /\ \A v \in Workers \ {w} : snap_failures'[v] = snap_failures[v]
    BY <2>1 DEF Pick
  <2>4. /\ \A v \in Workers : pc'[v] \in {"mark", "bump"} => v # w /\ pc[v] = pc'[v]
        /\ UNCHANGED <<owner, failure_count, fails, cur, ok, counter>>
    BY <2>1 DEF Pick, subs, ghosts
  <2>. QED
    BY <2>2, <2>3, <2>4
<1>8. CASE \E w \in Workers, d \in Deliveries, accepts, answered \in BOOLEAN :
             Post(w, d, accepts, answered)
  <2>1. PICK w \in Workers, d \in Deliveries, accepts \in BOOLEAN, answered \in BOOLEAN :
          Post(w, d, accepts, answered)
    BY <1>8
  <2>2. owner[d] \in Subs
    BY <2>1 DEF Post, RowsAreOwned
  <2>3. \A s \in Subs : fails[s] <= fails'[s]
    BY <2>1, <2>2 DEF Post, UpTo
  <2>4. ~answered => UpTo(snap_failures[w][owner[d]], DisableAfter) <= fails'[owner[d]]
    BY <2>1, <2>2 DEF Post, UpTo
  <2>5. /\ \A v \in Workers : pc'[v] \in {"mark", "bump"} =>
              \/ v = w /\ cur'[v] = d /\ ok'[v] = answered
              \/ pc[v] = pc'[v] /\ cur'[v] = cur[v] /\ ok'[v] = ok[v] /\ owner[cur[v]] \in Subs
        /\ UNCHANGED <<owner, failure_count, snap_failures, counter>>
    BY <2>1 DEF Post, RowsAreOwned, rows, subs
  <2>6. \A v \in Workers, s \in Subs : UpTo(snap_failures[v][s], DisableAfter) \in Nat
    BY DEF UpTo
  <2>7. \A s \in Subs : fails[s] \in Nat /\ fails'[s] \in Nat
    BY <2>1, <2>2 DEF Post, UpTo
  <2>8. \A v \in Workers : pc'[v] \in {"mark", "bump"} /\ ~ok'[v] =>
           UpTo(snap_failures[v][owner[cur'[v]]], DisableAfter) <= fails'[owner[cur'[v]]]
    <3> SUFFICES ASSUME NEW v \in Workers, pc'[v] \in {"mark", "bump"}, ~ok'[v]
                 PROVE  UpTo(snap_failures[v][owner[cur'[v]]], DisableAfter) <= fails'[owner[cur'[v]]]
      OBVIOUS
    <3>1. CASE v = w /\ cur'[v] = d /\ ok'[v] = answered
      BY <2>4, <3>1
    <3>2. CASE pc[v] = pc'[v] /\ cur'[v] = cur[v] /\ ok'[v] = ok[v] /\ owner[cur[v]] \in Subs
      <4>1. UpTo(snap_failures[v][owner[cur[v]]], DisableAfter) <= fails[owner[cur[v]]]
        BY <3>2
      <4>. QED
        BY <2>3, <2>6, <2>7, <3>2, <4>1
    <3>. QED
      BY <2>5, <3>1, <3>2
  <2>. QED
    BY <2>3, <2>5, <2>6, <2>7, <2>8
<1>9. CASE \E w \in Workers : MarkDelivery(w)
  BY <1>9 DEF MarkDelivery, rows, subs, ghosts
<1>10. CASE \E w \in Workers : MarkSubscription(w)
  BY <1>10 DEF MarkSubscription, rows, subs, ghosts
<1>11. CASE \E w \in Workers : Commit(w)
  BY <1>11 DEF Commit, Reset, ghosts, SubLockedBy
<1>12. CASE \E w \in Workers : Abort(w) \/ DeadlockVictim(w)
  BY <1>12, ResetFailures DEF Abort, DeadlockVictim, rows, subs, ghosts
<1>13. CASE \E d \in Deliveries : BackoffElapses(d)
  BY <1>13 DEF BackoffElapses, subs, ticks, ghosts
<1>14. CASE \E D \in SUBSET Deliveries : PruneTable(D)
  BY <1>14 DEF PruneTable, subs, ticks, ghosts
<1>. QED
  BY NextCases, <1>1, <1>2, <1>3, <1>4, <1>5, <1>6, <1>7, <1>8, <1>9, <1>10, <1>11, <1>12, <1>13, <1>14

LEMMA AcceptedStep ==
    ASSUME IInv, [Next]_vars
    PROVE  DeliveredWasAccepted'
<1> USE BoundsAssumption, NoneAssumption DEF IInv, TypeOK, DeliveredWasAccepted, VerdictsAreReal
<1> SUFFICES ASSUME Next PROVE DeliveredWasAccepted'
  BY DEF vars, rows, subs, ticks, ghosts
<1>1. CASE EnqueueEvent
  BY <1>1 DEF EnqueueEvent, InsertPending, subs, ticks, ghosts, Open, Terminal, NoRow
<1>2. CASE \E s \in Subs : CreateWebhook(s)
  BY <1>2 DEF CreateWebhook, rows, ticks, ghosts
<1>3. CASE \E s \in Subs : DeleteWebhook(s)
  BY <1>3 DEF DeleteWebhook, ticks, ghosts
<1>4. CASE \E s \in Subs, enable \in {"on", "off"} : LoadWebhook(s, enable)
  BY <1>4 DEF LoadWebhook, rows, subs, ticks, ghosts
<1>5. CASE SaveWebhook
  BY <1>5 DEF SaveWebhook, rows, ticks, ghosts
<1>6. CASE \E src, d \in Deliveries : Redeliver(src, d)
  BY <1>6 DEF Redeliver, InsertPending, subs, ticks, ghosts
<1>7. CASE \E w \in Workers, B \in SUBSET Deliveries : Pick(w, B)
  BY <1>7 DEF Pick, subs, ghosts
<1>8. CASE \E w \in Workers, d \in Deliveries, accepts, answered \in BOOLEAN :
             Post(w, d, accepts, answered)
  BY <1>8 DEF Post, rows, subs
<1>9. CASE \E w \in Workers : MarkDelivery(w)
  BY <1>9 DEF MarkDelivery, rows, subs, ghosts
<1>10. CASE \E w \in Workers : MarkSubscription(w)
  BY <1>10 DEF MarkSubscription, rows, subs, ghosts
<1>11. CASE \E w \in Workers : Commit(w)
  BY <1>11 DEF Commit, Reset, ghosts, RowLockedBy
<1>12. CASE \E w \in Workers : Abort(w) \/ DeadlockVictim(w)
  BY <1>12 DEF Abort, DeadlockVictim, Reset, rows, subs, ghosts
<1>13. CASE \E d \in Deliveries : BackoffElapses(d)
  BY <1>13 DEF BackoffElapses, subs, ticks, ghosts
<1>14. CASE \E D \in SUBSET Deliveries : PruneTable(D)
  BY <1>14 DEF PruneTable, subs, ticks, ghosts
<1>. QED
  BY NextCases, <1>1, <1>2, <1>3, <1>4, <1>5, <1>6, <1>7, <1>8, <1>9, <1>10, <1>11, <1>12, <1>13, <1>14

LEMMA FailedStep ==
    ASSUME IInv, [Next]_vars
    PROVE  FailedWasTriedInFull'
<1> USE BoundsAssumption, NoneAssumption DEF IInv, TypeOK, FailedWasTriedInFull, VerdictsAreReal
<1> SUFFICES ASSUME Next PROVE FailedWasTriedInFull'
  BY DEF vars, rows, subs, ticks, ghosts
<1>1. CASE EnqueueEvent
  BY <1>1 DEF EnqueueEvent, InsertPending, subs, ticks, ghosts, Open, Terminal, NoRow
<1>2. CASE \E s \in Subs : CreateWebhook(s)
  BY <1>2 DEF CreateWebhook, rows, ticks, ghosts
<1>3. CASE \E s \in Subs : DeleteWebhook(s)
  BY <1>3 DEF DeleteWebhook, ticks, ghosts
<1>4. CASE \E s \in Subs, enable \in {"on", "off"} : LoadWebhook(s, enable)
  BY <1>4 DEF LoadWebhook, rows, subs, ticks, ghosts
<1>5. CASE SaveWebhook
  BY <1>5 DEF SaveWebhook, rows, ticks, ghosts
<1>6. CASE \E src, d \in Deliveries : Redeliver(src, d)
  BY <1>6 DEF Redeliver, InsertPending, subs, ticks, ghosts
<1>7. CASE \E w \in Workers, B \in SUBSET Deliveries : Pick(w, B)
  BY <1>7 DEF Pick, subs, ghosts
<1>8. CASE \E w \in Workers, d \in Deliveries, accepts, answered \in BOOLEAN :
             Post(w, d, accepts, answered)
  BY <1>8 DEF Post, rows, subs, UpTo
<1>9. CASE \E w \in Workers : MarkDelivery(w)
  BY <1>9 DEF MarkDelivery, rows, subs, ghosts
<1>10. CASE \E w \in Workers : MarkSubscription(w)
  BY <1>10 DEF MarkSubscription, rows, subs, ghosts
<1>11. CASE \E w \in Workers : Commit(w)
  BY <1>11 DEF Commit, Reset, ghosts, RowLockedBy
<1>12. CASE \E w \in Workers : Abort(w) \/ DeadlockVictim(w)
  BY <1>12 DEF Abort, DeadlockVictim, Reset, rows, subs, ghosts
<1>13. CASE \E d \in Deliveries : BackoffElapses(d)
  BY <1>13 DEF BackoffElapses, subs, ticks, ghosts
<1>14. CASE \E D \in SUBSET Deliveries : PruneTable(D)
  BY <1>14 DEF PruneTable, subs, ticks, ghosts
<1>. QED
  BY NextCases, <1>1, <1>2, <1>3, <1>4, <1>5, <1>6, <1>7, <1>8, <1>9, <1>10, <1>11, <1>12, <1>13, <1>14

LEMMA RetryableStep ==
    ASSUME IInv, [Next]_vars
    PROVE  UnsettledIsRetryable'
<1> USE BoundsAssumption, NoneAssumption DEF IInv, TypeOK, UnsettledIsRetryable, VerdictsAreReal, Open
<1> SUFFICES ASSUME Next PROVE UnsettledIsRetryable'
  BY DEF vars, rows, subs, ticks, ghosts
<1>1. CASE EnqueueEvent
  <2>1. \A d \in Deliveries : status'[d] \in {"pending", "in_flight"} =>
           \/ status[d] \in {"pending", "in_flight"} /\ timer'[d] = timer[d]
           \/ status[d] = "absent" /\ timer'[d] = "due"
    BY <1>1 DEF EnqueueEvent, InsertPending
  <2>2. attempts' = attempts
    BY <1>1 DEF EnqueueEvent, InsertPending
  <2>. QED
    BY <2>1, <2>2 DEF AttemptsAreReal
<1>2. CASE \E s \in Subs : CreateWebhook(s)
  BY <1>2 DEF CreateWebhook, rows, ticks, ghosts
<1>3. CASE \E s \in Subs : DeleteWebhook(s)
  BY <1>3 DEF DeleteWebhook, ticks, ghosts
<1>4. CASE \E s \in Subs, enable \in {"on", "off"} : LoadWebhook(s, enable)
  BY <1>4 DEF LoadWebhook, rows, subs, ticks, ghosts
<1>5. CASE SaveWebhook
  BY <1>5 DEF SaveWebhook, rows, ticks, ghosts
<1>6. CASE \E src, d \in Deliveries : Redeliver(src, d)
  <2>1. \A d \in Deliveries : status'[d] \in {"pending", "in_flight"} =>
           \/ status[d] \in {"pending", "in_flight"} /\ timer'[d] = timer[d]
           \/ status[d] = "absent" /\ timer'[d] = "due"
    BY <1>6 DEF Redeliver, InsertPending
  <2>2. attempts' = attempts
    BY <1>6 DEF Redeliver, InsertPending
  <2>. QED
    BY <2>1, <2>2 DEF AttemptsAreReal
<1>7. CASE \E w \in Workers, B \in SUBSET Deliveries : Pick(w, B)
  BY <1>7 DEF Pick, subs, ghosts, Eligible
<1>8. CASE \E w \in Workers, d \in Deliveries, accepts, answered \in BOOLEAN :
             Post(w, d, accepts, answered)
  BY <1>8 DEF Post, rows, subs
<1>9. CASE \E w \in Workers : MarkDelivery(w)
  BY <1>9 DEF MarkDelivery, rows, subs, ghosts
<1>10. CASE \E w \in Workers : MarkSubscription(w)
  BY <1>10 DEF MarkSubscription, rows, subs, ghosts
<1>11. CASE \E w \in Workers : Commit(w)
  <2>1. PICK w \in Workers : Commit(w)
    BY <1>11
  <2>2. ASSUME NEW d \in Deliveries, status'[d] \in {"pending", "in_flight"}
        PROVE  timer'[d] # "null" /\ attempts'[d] < MaxAttempts
    <3>1. CASE mark[w][d] = "none"
      <4>1. status'[d] = status[d] /\ timer'[d] = timer[d] /\ attempts'[d] = attempts[d]
        BY <2>1, <3>1 DEF Commit, RowLockedBy
      <4>. QED
        BY <2>2, <4>1
    <3>2. CASE mark[w][d] # "none"
      <4>1. /\ status'[d] = mark[w][d]
            /\ timer'[d] = IF mark[w][d] = "pending" THEN "later" ELSE "null"
            /\ attempts'[d] = Attempt(w, d)
        BY <2>1, <3>2 DEF Commit, RowLockedBy
      <4>2. mark[w][d] = "pending"
        <5>1. mark[w][d] \in {"none", "delivered", "failed", "pending"}
          OBVIOUS
        <5>. QED
          BY <2>2, <3>2, <4>1, <5>1
      <4>. QED
        BY <4>1, <4>2
    <3>. QED
      BY <3>1, <3>2
  <2>. QED
    BY <2>2
<1>12. CASE \E w \in Workers : Abort(w) \/ DeadlockVictim(w)
  BY <1>12 DEF Abort, DeadlockVictim, Reset, rows, subs, ghosts
<1>13. CASE \E d \in Deliveries : BackoffElapses(d)
  BY <1>13 DEF BackoffElapses, subs, ticks, ghosts
<1>14. CASE \E D \in SUBSET Deliveries : PruneTable(D)
  BY <1>14 DEF PruneTable, subs, ticks, ghosts
<1>. QED
  BY NextCases, <1>1, <1>2, <1>3, <1>4, <1>5, <1>6, <1>7, <1>8, <1>9, <1>10, <1>11, <1>12, <1>13, <1>14

LEMMA DisableStep ==
    ASSUME IInv, [Next]_vars
    PROVE  AutoDisableIsEarned'
<1> USE BoundsAssumption, NoneAssumption DEF IInv, TypeOK, AutoDisableIsEarned, FailuresAreReal
<1> SUFFICES ASSUME Next PROVE AutoDisableIsEarned'
  BY DEF vars, rows, subs, ticks, ghosts
<1>1. CASE EnqueueEvent
  BY <1>1 DEF EnqueueEvent, InsertPending, subs, ticks, ghosts
<1>2. CASE \E s \in Subs : CreateWebhook(s)
  BY <1>2 DEF CreateWebhook, rows, ticks, ghosts
<1>3. CASE \E s \in Subs : DeleteWebhook(s)
  BY <1>3 DEF DeleteWebhook, ticks, ghosts
<1>4. CASE \E s \in Subs, enable \in {"on", "off"} : LoadWebhook(s, enable)
  BY <1>4 DEF LoadWebhook, rows, subs, ticks, ghosts
<1>5. CASE SaveWebhook
  BY <1>5 DEF SaveWebhook, rows, ticks, ghosts
<1>6. CASE \E src, d \in Deliveries : Redeliver(src, d)
  BY <1>6 DEF Redeliver, InsertPending, subs, ticks, ghosts
<1>7. CASE \E w \in Workers, B \in SUBSET Deliveries : Pick(w, B)
  BY <1>7 DEF Pick, subs, ghosts
<1>8. CASE \E w \in Workers, d \in Deliveries, accepts, answered \in BOOLEAN :
             Post(w, d, accepts, answered)
  BY <1>8 DEF Post, rows, subs, UpTo
<1>9. CASE \E w \in Workers : MarkDelivery(w)
  BY <1>9 DEF MarkDelivery, rows, subs, ghosts
<1>10. CASE \E w \in Workers : MarkSubscription(w)
  <2>1. PICK w \in Workers : MarkSubscription(w)
    BY <1>10
  <2>2. PICK s \in Subs : s = owner[cur[w]]
    BY <2>1 DEF MarkSubscription, RowsAreOwned
  <2>3. fails[s] \in 0..DisableAfter /\ NewCount(w, s) \in 0..DisableAfter
    BY DEF NewCount, UpTo
  <2>4. ~ok[w] => NewCount(w, s) <= fails[s]
    BY <2>1, <2>2 DEF MarkSubscription
  <2>5. ~ok[w] /\ NewCount(w, s) >= DisableAfter => fails[s] = DisableAfter
    <3> HIDE DEF IInv, TypeOK
    <3>. QED
      BY <2>3, <2>4
  <2>6. \A v \in Workers : \A t \in off'[v] :
           t \in off[v] \/ (t = s /\ ~ok[w] /\ NewCount(w, s) >= DisableAfter)
    BY <2>1, <2>2 DEF MarkSubscription
  <2>7. fails' = fails
    BY <2>1 DEF MarkSubscription, ghosts
  <2>. QED
    BY <2>5, <2>6, <2>7
<1>11. CASE \E w \in Workers : Commit(w)
  BY <1>11 DEF Commit, Reset, ghosts
<1>12. CASE \E w \in Workers : Abort(w) \/ DeadlockVictim(w)
  <2>1. PICK w \in Workers : Reset(w) /\ fails' = fails
    BY <1>12 DEF Abort, DeadlockVictim, ghosts
  <2>2. ASSUME NEW v \in Workers, NEW s \in off'[v]
        PROVE  fails[s] = DisableAfter
    <3>1. v # w /\ s \in off[v]
      BY <2>1, <2>2, ResetEffect
    <3>. QED
      BY <3>1
  <2>. QED
    BY <2>1, <2>2
<1>13. CASE \E d \in Deliveries : BackoffElapses(d)
  BY <1>13 DEF BackoffElapses, subs, ticks, ghosts
<1>14. CASE \E D \in SUBSET Deliveries : PruneTable(D)
  BY <1>14 DEF PruneTable, subs, ticks, ghosts
<1>. QED
  BY NextCases, <1>1, <1>2, <1>3, <1>4, <1>5, <1>6, <1>7, <1>8, <1>9, <1>10, <1>11, <1>12, <1>13, <1>14

-----------------------------------------------------------------------------
(* The invariant holds of every behaviour, and so does each safety         *)
(* property the runs check.                                                *)

LEMMA InitIInv ==
    ASSUME Init
    PROVE  IInv
<1> USE BoundsAssumption DEF Init
<1>1. TypeOK
  BY DEF TypeOK, Patches, NoPatch, Open, Terminal, NoRow
<1>2. RowsAreOwned /\ IdleIsClean
  BY DEF RowsAreOwned, IdleIsClean
<1>3. AttemptsAreReal /\ VerdictsAreReal
  BY DEF AttemptsAreReal, VerdictsAreReal
<1>4. FailuresAreReal
  BY DEF FailuresAreReal
<1>5. DeliveredWasAccepted /\ FailedWasTriedInFull /\ UnsettledIsRetryable /\ AutoDisableIsEarned
  BY DEF DeliveredWasAccepted, FailedWasTriedInFull, UnsettledIsRetryable, AutoDisableIsEarned, Open
<1>. QED
  BY <1>1, <1>2, <1>3, <1>4, <1>5 DEF IInv

\* The invariant every other theorem rests on.
THEOREM Invariance == Spec => []IInv
<1>1. IInv /\ [Next]_vars => IInv'
  BY TypeStep, OwnedStep, IdleStep, AttemptsStep, VerdictsStep, FailuresStep,
     AcceptedStep, FailedStep, RetryableStep, DisableStep DEF IInv
<1>. QED
  BY InitIInv, <1>1, PTL DEF Spec

\* Columns and tick variables keep their types.
THEOREM TypeCorrect == Spec => []TypeOK
<1>1. IInv => TypeOK
  BY DEF IInv
<1>. QED
  BY Invariance, <1>1, PTL

\* drain_pending never reports a delivery its receiver did not accept,
\* whatever ticks overlap, die or overwrite one another.
THEOREM DeliveredIsTrue == Spec => []DeliveredWasAccepted
<1>1. IInv => DeliveredWasAccepted
  BY DEF IInv
<1>. QED
  BY Invariance, <1>1, PTL

\* _mark_failed_permanently is reached only after MaxAttempts POSTs.
THEOREM FailedIsTrue == Spec => []FailedWasTriedInFull
<1>1. IInv => FailedWasTriedInFull
  BY DEF IInv
<1>. QED
  BY Invariance, <1>1, PTL

\* No row is left unsettled without a retry time, where the pick query
\* would never find it again.
THEOREM NothingIsStranded == Spec => []UnsettledIsRetryable
<1>1. IInv => UnsettledIsRetryable
  BY DEF IInv
<1>. QED
  BY Invariance, <1>1, PTL

\* _bump_subscription_failure_counter disables a subscription only after
\* DisableAfter failed POSTs to it.
THEOREM DisablingIsEarned == Spec => []AutoDisableIsEarned
<1>1. IInv => AutoDisableIsEarned
  BY DEF IInv
<1>. QED
  BY Invariance, <1>1, PTL

-----------------------------------------------------------------------------
(* The contract.  A tick that overlaps no other works on its own rows      *)
(* until it ends, so that what it commits is what the contract allows.     *)

\* No two ticks are under way at one time; it may be another one each time.
NoOverlap == \A v, w \in Workers : pc[v] # "idle" /\ pc[w] # "idle" => v = w

\* The rows of a tick stay in_flight until it commits, or are deleted under
\* it; those it has marked are locked and cannot be deleted.
RowsAreKept ==
    \A w \in Workers :
        /\ pc[w] = "idle" => todo[w] = {}
        /\ \A d \in todo[w] : status[d] \in {"in_flight", "gone"}
        /\ pc[w] = "mark" => status[cur[w]] \in {"in_flight", "gone"}
        /\ \A d \in Deliveries : mark[w][d] # "none" => status[d] = "in_flight"

\* A tick that does not take a row nor writes a mark keeps its rows if they
\* do not change their status otherwise than by being deleted unmarked.
LEMMA KeptWhileOthersAct ==
    ASSUME TypeOK, RowsAreOwned, RowsAreKept, pc' = pc, todo' = todo, cur' = cur, mark' = mark,
           \A d \in Deliveries :
              \/ status'[d] = status[d]
              \/ status[d] \notin {"in_flight", "gone"}
              \/ status'[d] = "gone" /\ RowFree(d)
    PROVE  RowsAreKept'
<1> SUFFICES ASSUME NEW w \in Workers
             PROVE  /\ pc[w] = "idle" => todo[w] = {}
                    /\ \A d \in todo[w] : status'[d] \in {"in_flight", "gone"}
                    /\ pc[w] = "mark" => status'[cur[w]] \in {"in_flight", "gone"}
                    /\ \A d \in Deliveries : mark[w][d] # "none" => status'[d] = "in_flight"
  BY DEF RowsAreKept
<1>1. \A d \in Deliveries : status[d] \in {"in_flight", "gone"} => status'[d] \in {"in_flight", "gone"}
  OBVIOUS
<1>2. todo[w] \in SUBSET Deliveries /\ (pc[w] = "mark" => cur[w] \in Deliveries)
  BY DEF TypeOK, RowsAreOwned
<1>3. \A d \in Deliveries : mark[w][d] # "none" => status[d] = "in_flight" /\ ~RowFree(d)
  BY DEF RowsAreKept, RowFree, RowLockedBy
<1> QED BY <1>1, <1>2, <1>3 DEF RowsAreKept

\* When a tick ends no other one has a row.
LEMMA KeptAtTheEnd ==
    ASSUME TypeOK, IdleIsClean, RowsAreKept, NoOverlap, NEW w \in Workers, pc[w] # "idle", Reset(w)
    PROVE  RowsAreKept'
<1> SUFFICES ASSUME NEW v \in Workers
             PROVE  /\ pc'[v] = "idle" /\ todo'[v] = {}
                    /\ \A d \in Deliveries : mark'[v][d] = "none"
  BY DEF RowsAreKept
<1>1. CASE v = w
  BY <1>1, ResetEffect
<1>2. CASE v # w
  <2>1. pc[v] = "idle"
    BY <1>2 DEF NoOverlap
  <2>2. todo[v] = {} /\ \A d \in Deliveries : mark[v][d] = "none"
    BY <2>1 DEF RowsAreKept, IdleIsClean
  <2> QED BY <1>2, <2>1, <2>2, ResetEffect
<1> QED BY <1>1, <1>2

LEMMA InitKept == Init => RowsAreKept
BY DEF Init, RowsAreKept

LEMMA KeptStep ==
    ASSUME IInv, RowsAreKept, NoOverlap, NoOverlap', [Next]_vars
    PROVE  RowsAreKept'
<1> USE DEF IInv
<1>1. CASE EnqueueEvent \/ \E src, d \in Deliveries : Redeliver(src, d)
  <2>1. UNCHANGED ticks
    BY <1>1 DEF EnqueueEvent, Redeliver
  <2>2. \A d \in Deliveries : status'[d] = status[d] \/ status[d] = "absent"
    BY <1>1 DEF EnqueueEvent, Redeliver, InsertPending
  <2> QED BY <2>1, <2>2, KeptWhileOthersAct DEF ticks
<1>2. CASE UNCHANGED vars \/ (\E s \in Subs : CreateWebhook(s)) \/ SaveWebhook
           \/ (\E s \in Subs, enable \in {"on", "off"} : LoadWebhook(s, enable))
           \/ \E d \in Deliveries : BackoffElapses(d)
  <2>1. UNCHANGED <<status, ticks>>
    BY <1>2 DEF vars, rows, CreateWebhook, SaveWebhook, LoadWebhook, BackoffElapses
  <2> QED BY <2>1, KeptWhileOthersAct DEF ticks
<1>3. CASE \E s \in Subs : DeleteWebhook(s)
  <2>1. UNCHANGED ticks /\ \A d \in Deliveries : status'[d] = status[d] \/ (status'[d] = "gone" /\ RowFree(d))
    BY <1>3 DEF DeleteWebhook, TypeOK
  <2> QED BY <2>1, KeptWhileOthersAct DEF ticks
<1>4. CASE \E D \in SUBSET Deliveries : PruneTable(D)
  <2>1. UNCHANGED ticks /\ \A d \in Deliveries : status'[d] = status[d] \/ status[d] \in Terminal
    BY <1>4 DEF PruneTable, TypeOK
  <2> QED BY <2>1, KeptWhileOthersAct DEF ticks, Terminal
<1>5. ASSUME NEW w \in Workers, NEW B \in SUBSET Deliveries, Pick(w, B) PROVE RowsAreKept'
  <2>1. /\ pc' = [pc EXCEPT ![w] = "post"] /\ todo' = [todo EXCEPT ![w] = B] /\ UNCHANGED <<cur, mark>>
        /\ status' = [d \in Deliveries |-> IF d \in B THEN "in_flight" ELSE status[d]]
    BY <1>5 DEF Pick
  <2>2. ASSUME NEW v \in Workers
        PROVE  \A d \in Deliveries : mark[v][d] = "none"
    <3>1. pc[v] = "idle"
      BY <1>5, <2>1 DEF Pick, NoOverlap, TypeOK
    <3> QED BY <3>1 DEF IdleIsClean
  <2>3. \A v \in Workers : pc'[v] = (IF v = w THEN "post" ELSE pc[v]) /\ todo'[v] = (IF v = w THEN B ELSE todo[v])
    BY <2>1 DEF TypeOK
  <2>4. \A v \in Workers \ {w} : pc[v] = "idle"
    BY <2>3 DEF NoOverlap
  <2> QED BY <2>1, <2>2, <2>3, <2>4 DEF RowsAreKept
<1>6. ASSUME NEW w \in Workers, NEW d \in Deliveries, NEW accepts \in BOOLEAN, NEW answered \in BOOLEAN,
             Post(w, d, accepts, answered)
      PROVE  RowsAreKept'
  <2>1. /\ d \in todo[w] /\ pc[w] = "post" /\ pc' = [pc EXCEPT ![w] = "mark"]
        /\ todo' = [todo EXCEPT ![w] = @ \ {d}] /\ cur' = [cur EXCEPT ![w] = d] /\ UNCHANGED <<status, mark>>
    BY <1>6 DEF Post, rows
  <2>2. \A v \in Workers :
           /\ pc'[v] = (IF v = w THEN "mark" ELSE pc[v])
           /\ todo'[v] = (IF v = w THEN todo[w] \ {d} ELSE todo[v])
           /\ cur'[v] = (IF v = w THEN d ELSE cur[v])
    BY <2>1 DEF TypeOK
  <2> QED BY <2>1, <2>2 DEF RowsAreKept
<1>7. ASSUME NEW w \in Workers, MarkDelivery(w) PROVE RowsAreKept'
  <2>1. /\ pc[w] = "mark" /\ pc' = [pc EXCEPT ![w] = "bump"] /\ UNCHANGED <<status, todo, cur>>
        /\ mark' = [mark EXCEPT ![w][cur[w]] = IF status[cur[w]] = "gone" THEN @ ELSE Verdict(w, cur[w])]
    BY <1>7 DEF MarkDelivery, rows
  <2>2. \A v \in Workers : pc'[v] = (IF v = w THEN "bump" ELSE pc[v])
    BY <2>1 DEF TypeOK
  <2>3. \A v \in Workers, d \in Deliveries :
           mark'[v][d] = mark[v][d] \/ (v = w /\ d = cur[w] /\ status[d] # "gone")
    BY <2>1 DEF TypeOK
  <2>4. status[cur[w]] \in {"in_flight", "gone"}
    BY <2>1 DEF RowsAreKept
  <2> QED BY <2>1, <2>2, <2>3, <2>4 DEF RowsAreKept
<1>8. ASSUME NEW w \in Workers, MarkSubscription(w) PROVE RowsAreKept'
  <2>1. /\ pc[w] = "bump" /\ pc' = [pc EXCEPT ![w] = "post"] /\ UNCHANGED <<status, todo, mark>>
        /\ cur' = [cur EXCEPT ![w] = None]
    BY <1>8 DEF MarkSubscription, rows
  <2>2. \A v \in Workers : /\ pc'[v] = (IF v = w THEN "post" ELSE pc[v])
                           /\ v # w => cur'[v] = cur[v]
    BY <2>1 DEF TypeOK
  <2> QED BY <2>1, <2>2 DEF RowsAreKept
<1>9. ASSUME NEW w \in Workers, Commit(w) \/ Abort(w) \/ DeadlockVictim(w) PROVE RowsAreKept'
  <2>1. Reset(w)
    BY <1>9 DEF Commit, Abort, DeadlockVictim
  <2>2. pc[w] # "idle"
    <3>1. DeadlockVictim(w) => \E v \in Workers : WaitsFor(w, v)
      BY DEF DeadlockVictim
    <3> QED BY <1>9, <3>1 DEF Commit, Abort, WaitsFor
  <2> QED BY <2>1, <2>2, KeptAtTheEnd
<1> QED
  BY NextCases, <1>1, <1>2, <1>3, <1>4, <1>5, <1>6, <1>7, <1>8, <1>9

LEMMA KeptWithoutOverlap == Spec /\ []NoOverlap => []RowsAreKept
<1> QED BY InitKept, KeptStep, Invariance, PTL DEF Spec

\* The stage of a delivery, as the contract sees it.
Stage == [d \in Deliveries |-> IF status[d] \in Open THEN "open" ELSE status[d]]

\* A step that leaves these alone is a stutter of the contract.
LEMMA ContractStutters ==
    ASSUME Stage' = Stage, UNCHANGED <<owner, accepted, posts>>
    PROVE  [Contract!Next]_(Contract!vars)
BY DEF Contract!vars, Stage

LEMMA ContractInserts ==
    ASSUME TypeOK, NEW D \in SUBSET Deliveries, NEW for \in [D -> Subs], InsertPending(for),
           UNCHANGED <<accepted, posts>>
    PROVE  Contract!Next
<1>1. \A d \in D : Stage[d] = "absent"
  BY DEF InsertPending, Stage, Open
<1>2. Stage' = [d \in Deliveries |-> IF d \in D THEN "open" ELSE Stage[d]]
  BY DEF InsertPending, Stage, Open
<1>3. owner' = [d \in Deliveries |-> IF d \in D THEN for[d] ELSE owner[d]]
  BY DEF InsertPending
<1>4. Contract!Insert(D)
  BY <1>1, <1>2, <1>3 DEF Contract!Insert, Stage
<1> QED BY <1>4 DEF Contract!Next

\* A POST is a try of an open delivery, or of one deleted under the tick.
LEMMA ContractTries ==
    ASSUME TypeOK, RowsAreKept, NEW w \in Workers, NEW d \in Deliveries,
           NEW accepts \in BOOLEAN, NEW answered \in BOOLEAN, Post(w, d, accepts, answered)
    PROVE  Contract!Next
<1>1. Stage[d] \in {"open", "gone"}
  BY DEF Post, RowsAreKept, Stage, Open
<1>2. posts' = [posts EXCEPT ![d] = IF @ < MaxAttempts THEN @ + 1 ELSE @]
  <2>1. posts' = [posts EXCEPT ![d] = UpTo(@, MaxAttempts)]
    BY DEF Post
  <2>2. posts[d] \in 0..MaxAttempts /\ MaxAttempts \in Nat
    BY BoundsAssumption DEF TypeOK
  <2>3. UpTo(posts[d], MaxAttempts) = IF posts[d] < MaxAttempts THEN posts[d] + 1 ELSE posts[d]
    BY <2>2 DEF UpTo
  <2> QED BY <2>1, <2>3
<1>3. accepted' \in {accepted, accepted \cup {d}} /\ Stage' = Stage /\ owner' = owner
  BY DEF Post, rows, Stage
<1>4. Contract!Try(d)
  BY <1>1, <1>2, <1>3 DEF Contract!Try, Stage
<1> QED BY <1>4 DEF Contract!Next

\* A commit settles the deliveries that it marks delivered or failed.
LEMMA ContractSettles ==
    ASSUME IInv, RowsAreKept, NEW w \in Workers, Commit(w)
    PROVE  Contract!Next
<1> DEFINE D       == {d \in Deliveries : mark[w][d] \in {"delivered", "failed"}}
           verdict == [d \in D |-> mark[w][d]]
<1>1. status' = [d \in Deliveries |-> IF mark[w][d] # "none" THEN mark[w][d] ELSE status[d]]
  BY DEF Commit, RowLockedBy
<1>2. \A d \in Deliveries : /\ mark[w][d] \in {"none", "delivered", "failed", "pending"}
                            /\ mark[w][d] # "none" => status[d] = "in_flight"
  BY DEF IInv, TypeOK, RowsAreKept
<1>3. Stage' = [d \in Deliveries |-> IF d \in D THEN verdict[d] ELSE Stage[d]]
  <2>1. ASSUME NEW d \in Deliveries
        PROVE  Stage'[d] = IF d \in D THEN verdict[d] ELSE Stage[d]
    BY <1>1, <1>2 DEF Stage, Open
  <2>2. Stage' = [d \in Deliveries |-> Stage'[d]]
    BY DEF Stage
  <2> HIDE DEF D, verdict
  <2> QED BY <2>1, <2>2
<1>4. ASSUME NEW d \in D
      PROVE  /\ Stage[d] = "open"
             /\ verdict[d] = "delivered" => d \in accepted
             /\ verdict[d] = "failed" => posts[d] = MaxAttempts
  BY <1>2 DEF Stage, Open, IInv, VerdictsAreReal
<1>5. UNCHANGED <<owner, accepted, posts>> /\ verdict \in [D -> {"delivered", "failed"}]
  BY DEF Commit, ghosts
<1>6. PICK S \in SUBSET Deliveries : S = D
  OBVIOUS
<1> HIDE DEF D, verdict
<1>7. Contract!Settle(S)
  BY <1>3, <1>4, <1>5, <1>6 DEF Contract!Settle, Contract!MaySettle, Stage
<1> QED BY <1>7 DEF Contract!Next

LEMMA ContractWithdraws ==
    ASSUME NEW s \in Subs, DeleteWebhook(s)
    PROVE  Contract!Next
<1>1. Stage' = [d \in Deliveries |-> IF owner[d] = s THEN "gone" ELSE Stage[d]]
  BY DEF DeleteWebhook, Stage, Open
<1>2. UNCHANGED <<owner, accepted, posts>>
  BY DEF DeleteWebhook, ghosts
<1>3. Contract!Withdraw(s)
  BY <1>1, <1>2 DEF Contract!Withdraw, Stage
<1> QED BY <1>3 DEF Contract!Next

LEMMA ContractPrunes ==
    ASSUME NEW D \in SUBSET Deliveries, PruneTable(D)
    PROVE  Contract!Next
<1>1. \A d \in D : Stage[d] \in {"delivered", "failed"}
  BY DEF PruneTable, Stage, Open, Terminal
<1>2. Stage' = [d \in Deliveries |-> IF d \in D THEN "gone" ELSE Stage[d]]
  BY DEF PruneTable, Stage, Open
<1>3. UNCHANGED <<owner, accepted, posts>>
  BY DEF PruneTable, ghosts
<1>4. Contract!Prune(D)
  BY <1>1, <1>2, <1>3 DEF Contract!Prune, Stage
<1> QED BY <1>4 DEF Contract!Next

LEMMA ContractStep ==
    ASSUME IInv, RowsAreKept, [Next]_vars
    PROVE  [Contract!Next]_(Contract!vars)
<1>0. TypeOK /\ RowsAreOwned
  BY DEF IInv
<1>1. CASE EnqueueEvent
  <2>1. PICK D \in SUBSET Deliveries \ {{}} :
           \E for \in [D -> {s \in Subs : sub_state[s] = "on"}] : InsertPending(for)
    BY <1>1 DEF EnqueueEvent
  <2>2. PICK for \in [D -> {s \in Subs : sub_state[s] = "on"}] : InsertPending(for)
    BY <2>1
  <2>3. for \in [D -> Subs] /\ UNCHANGED <<accepted, posts>>
    BY <1>1 DEF EnqueueEvent, ghosts
  <2> QED BY <1>0, <2>1, <2>2, <2>3, ContractInserts
<1>2. CASE \E src, d \in Deliveries : Redeliver(src, d)
  <2>1. PICK src \in Deliveries, d \in Deliveries : Redeliver(src, d)
    BY <1>2
  <2>2. [x \in {d} |-> owner[src]] \in [{d} -> Subs]
    BY <1>0, <2>1 DEF Redeliver, RowsAreOwned, NoRow
  <2>3. InsertPending([x \in {d} |-> owner[src]]) /\ UNCHANGED <<accepted, posts>>
    BY <2>1 DEF Redeliver, ghosts
  <2> QED BY <1>0, <2>2, <2>3, ContractInserts
<1>3. CASE \/ UNCHANGED vars
           \/ \E s \in Subs : CreateWebhook(s)
           \/ \E s \in Subs, enable \in {"on", "off"} : LoadWebhook(s, enable)
           \/ SaveWebhook
           \/ \E w \in Workers : MarkDelivery(w)
           \/ \E w \in Workers : MarkSubscription(w)
           \/ \E w \in Workers : Abort(w) \/ DeadlockVictim(w)
           \/ \E d \in Deliveries : BackoffElapses(d)
  <2>1. UNCHANGED <<status, owner, accepted, posts>>
    BY <1>3 DEF vars, rows, ghosts, CreateWebhook, LoadWebhook, SaveWebhook, MarkDelivery,
                MarkSubscription, Abort, DeadlockVictim, BackoffElapses
  <2> QED BY <2>1, ContractStutters DEF Stage
<1>4. CASE \E w \in Workers, B \in SUBSET Deliveries : Pick(w, B)
  <2>1. PICK w \in Workers, B \in SUBSET Deliveries : Pick(w, B)
    BY <1>4
  <2>2. /\ \A d \in B : status[d] \in Open
        /\ status' = [d \in Deliveries |-> IF d \in B THEN "in_flight" ELSE status[d]]
        /\ UNCHANGED <<owner, accepted, posts>>
    BY <2>1 DEF Pick, Eligible, ghosts
  <2>3. Stage' = Stage
    BY <2>2 DEF Stage, Open
  <2> QED BY <2>2, <2>3, ContractStutters
<1>5. CASE \E w \in Workers, d \in Deliveries, accepts, answered \in BOOLEAN :
              Post(w, d, accepts, answered)
  BY <1>0, <1>5, ContractTries
<1> QED
  BY NextCases, <1>1, <1>2, <1>3, <1>4, <1>5, ContractSettles, ContractWithdraws, ContractPrunes

LEMMA ContractBegins == Init => Contract!Init
BY DEF Init, Contract!Init, Open

\* The outbox keeps its contract in every behaviour in which no tick starts
\* before the one before it has ended: then a delivery is settled once, and
\* only open ones are POSTed, however ticks die and whatever is deleted,
\* redelivered or pruned meanwhile.
THEOREM ContractIsKept == Spec /\ []NoOverlap => KeepsContract
<1>1. IInv /\ RowsAreKept /\ [Next]_vars => [Contract!Next]_(Contract!vars)
  BY ContractStep
<1> QED BY <1>1, ContractBegins, Invariance, KeptWithoutOverlap, PTL DEF Spec, KeepsContract, Contract!Spec

\* With one tick there is no overlap.
THEOREM OneTickKeepsContract ==
    ASSUME \A v, w \in Workers : v = w
    PROVE  Spec => KeepsContract
<1>1. NoOverlap
  BY DEF NoOverlap
<1> QED BY <1>1, ContractIsKept, PTL

\* What the contract means for a row: once delivered or failed it stays so
\* until it is deleted.
SettledForGood == \A d \in Deliveries : status[d] \in Terminal => status'[d] \in {status[d], "gone"}

LEMMA ContractSettlesForGood ==
    ASSUME TypeOK, TypeOK', [Contract!Next]_(Contract!vars)
    PROVE  SettledForGood
<1> SUFFICES ASSUME NEW d \in Deliveries, status[d] \in Terminal
             PROVE  status'[d] \in {status[d], "gone"}
  BY DEF SettledForGood
<1>1. Stage[d] = status[d] /\ Stage[d] \notin {"absent", "open", "gone"}
  BY DEF Stage, Open, Terminal
<1>2. Stage'[d] \in {Stage[d], "gone"}
  <2>1. CASE UNCHANGED Contract!vars
    BY <2>1 DEF Contract!vars, Stage
  <2>2. ASSUME NEW D \in SUBSET Deliveries, Contract!Insert(D) PROVE Stage'[d] = Stage[d]
    BY <1>1, <2>2 DEF Contract!Insert, Stage
  <2>3. ASSUME NEW D \in SUBSET Deliveries, Contract!Settle(D) PROVE Stage'[d] = Stage[d]
    BY <1>1, <2>3 DEF Contract!Settle, Contract!MaySettle, Stage
  <2>4. ASSUME NEW D \in SUBSET Deliveries, Contract!Prune(D) PROVE Stage'[d] \in {Stage[d], "gone"}
    BY <2>4 DEF Contract!Prune, Stage
  <2>5. ASSUME NEW e \in Deliveries, Contract!Try(e) PROVE Stage'[d] = Stage[d]
    BY <2>5 DEF Contract!Try, Stage
  <2>6. ASSUME NEW s \in Subs, Contract!Withdraw(s) PROVE Stage'[d] \in {Stage[d], "gone"}
    BY <2>6 DEF Contract!Withdraw, Stage
  <2> QED BY <2>1, <2>2, <2>3, <2>4, <2>5, <2>6 DEF Contract!Next
<1>3. Stage'[d] = (IF status'[d] \in Open THEN "open" ELSE status'[d])
  BY DEF Stage
<1> QED BY <1>1, <1>2, <1>3 DEF Terminal

\* A delivery is settled once, as long as no two ticks are under way at one
\* time: no later tick turns delivered into failed or opens it again.
THEOREM SettledOnce == Spec /\ []NoOverlap => [][SettledForGood]_vars
<1>1. IInv /\ IInv' /\ RowsAreKept /\ [Next]_vars => [SettledForGood]_vars
  BY ContractStep, ContractSettlesForGood DEF IInv
<1> QED BY <1>1, Invariance, KeptWithoutOverlap, PTL DEF Spec
=============================================================================
