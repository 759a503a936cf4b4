---------------------------- MODULE DailyLogSync ----------------------------
(***************************************************************************)
(* The mirror of safety incidents in the daily log of the site:            *)
(* services/dailylog_sync.py and its two callers, the photo analysis that  *)
(* detects incidents (ml/pipelines/siteeye.py) and the backfill            *)
(* (scripts/backfill_dailylog_from_siteeye.py), which may run at the same  *)
(* time.  The upsert of the log of a project and day locks its row until   *)
(* the transaction ends, and with it the check for an earlier mirror.      *)
(* Users write observations of incidents too (routers/dailylog.py), with   *)
(* neither the lock nor the check.                                         *)
(***************************************************************************)
EXTENDS Integers, FiniteSets, FiniteSetsExt

CONSTANTS
    Incidents,      \* ids of safety_incidents
    DateOf,         \* the day each was detected
    Jobs,           \* photo analyses and backfills at the same time
    Noted           \* bound: incidents that users write about

ASSUME DailyLogAssumption == DateOf \in [Incidents -> Nat] /\ Noted \subseteq Incidents

VARIABLES
    incidents,      \* safety_incidents
    observed,       \* daily_log_observations: how many mirrors the sync made of each incident
    manual,         \* the incidents that have an observation by a user
    job,            \* the transaction of each job
    unmirrored,     \* ghost: incidents from before the mirror existed, and those
                    \* committed after their mirror failed
    lost            \* ghost: incidents that a finished photo analysis did not leave behind

dailyLogRows == <<incidents, observed, manual, unmirrored, lost>>
dailyLogVars == <<dailyLogRows, job>>

\* kind: the caller.  todo: incidents yet to come.  mine, made: incidents
\* and mirrors of the transaction.  bare: those of mine whose mirror failed.
\* locked: the days whose log it has locked.  aborted: a statement has
\* failed, the server refuses every other.
NoJob == [kind |-> "none", at |-> "next", now |-> {}, todo |-> {}, mine |-> {}, made |-> {}, bare |-> {},
          locked |-> {}, aborted |-> FALSE]
JobSet == [kind : {"none", "photo", "backfill"}, at : {"next", "ensure", "check", "insert"},
           now : SUBSET Incidents, todo : SUBSET Incidents, mine : SUBSET Incidents, made : SUBSET Incidents,
           bare : SUBSET Incidents, locked : SUBSET {DateOf[i] : i \in Incidents}, aborted : BOOLEAN]

DailyLogTypeOK ==
    /\ incidents \subseteq Incidents /\ lost \subseteq Incidents
    /\ manual \subseteq incidents /\ unmirrored \subseteq incidents
    /\ observed \in [Incidents -> 0..2]
    /\ job \in [Jobs -> JobSet]

DailyLogInit ==
    /\ incidents \in SUBSET Incidents
    /\ observed = [i \in Incidents |-> 0]
    /\ manual = {} /\ unmirrored = incidents
    /\ job = [j \in Jobs |-> NoJob]
    /\ lost = {}

Unknown == Incidents \ (incidents \cup lost \cup UNION {job[j].todo \cup job[j].mine : j \in Jobs})

StartPhoto(j, I) ==
    /\ job[j] = NoJob
    /\ I # {} /\ I \subseteq Unknown
    /\ \A i, k \in I : DateOf[i] = DateOf[k]
    /\ job' = [job EXCEPT ![j] = [NoJob EXCEPT !.kind = "photo", !.todo = I]]
    /\ UNCHANGED dailyLogRows

\* The scan, in batches; incidents committed meanwhile may or may not be in it.
StartBackfill(j) ==
    /\ job[j] = NoJob /\ incidents # {}
    /\ job' = [job EXCEPT ![j] = [NoJob EXCEPT !.kind = "backfill", !.todo = incidents]]
    /\ UNCHANGED dailyLogRows

Earliest(I) == {i \in I : \A k \in I : DateOf[i] <= DateOf[k]}

\* The next incident: _create_safety_incidents inserts it, the backfill has it.
TakeIncident(j, i) ==
    /\ job[j].kind # "none" /\ job[j].at = "next" /\ ~job[j].aborted
    /\ i \in Earliest(job[j].todo)
    /\ job' = [job EXCEPT ![j] = [job[j] EXCEPT !.at = "ensure", !.now = {i}, !.todo = @ \ {i},
                                                !.mine = IF job[j].kind = "photo" THEN @ \cup {i} ELSE @]]
    /\ UNCHANGED dailyLogRows

\* Fault: ON CONFLICT DO NOTHING, which takes no lock.
EnsureUnlocked(j) ==
    /\ job[j].at = "ensure"
    /\ job' = [job EXCEPT ![j].at = "check"]
    /\ UNCHANGED dailyLogRows

\* _ensure_daily_log.
EnsureDailyLog(j) ==
    /\ job[j].at = "ensure"
    /\ \A i \in job[j].now : \A k \in Jobs \ {j} : DateOf[i] \notin job[k].locked
    /\ job' = [job EXCEPT ![j] = [job[j] EXCEPT !.at = "check", !.locked = @ \cup {DateOf[i] : i \in job[j].now}]]
    /\ UNCHANGED dailyLogRows

\* The idempotency check, of any observation.
CheckMirror(j) ==
    /\ job[j].at = "check"
    /\ job' = [job EXCEPT ![j].at = IF \E i \in job[j].now : observed[i] > 0 \/ i \in manual \cup job[j].made
                                    THEN "next" ELSE "insert"]
    /\ UNCHANGED dailyLogRows

Count(I) == [i \in Incidents |-> IF i \in I THEN Min({2, observed[i] + 1}) ELSE observed[i]]

\* The INSERT; the backfill commits after each, the photo analysis does not.
InsertMirror(j) ==
    /\ job[j].at = "insert"
    /\ IF job[j].kind = "backfill"
       THEN /\ observed' = Count(job[j].now)
            /\ job' = [job EXCEPT ![j] = [job[j] EXCEPT !.at = "next", !.locked = {}]]
       ELSE /\ job' = [job EXCEPT ![j] = [job[j] EXCEPT !.at = "next", !.made = @ \cup job[j].now]]
            /\ UNCHANGED observed
    /\ UNCHANGED <<incidents, manual, unmirrored, lost>>

\* The server refuses a statement of the mirror.  The backfill rolls back and
\* goes on.  The photo analysis only logs it, in a transaction that is now
\* aborted.
MirrorFails(j) ==
    /\ job[j].at \in {"ensure", "check", "insert"}
    /\ job' = [job EXCEPT ![j] = [job[j] EXCEPT !.at = "next", !.locked = {}, !.aborted = (job[j].kind = "photo")]]
    /\ UNCHANGED dailyLogRows

\* The mirror raises without an error of the server: the photo analysis logs
\* that too, its transaction is as good as before.  The backfill rolls back
\* either way.
MirrorRaises(j) ==
    /\ job[j].kind = "photo" /\ job[j].at \in {"ensure", "check", "insert"}
    /\ job' = [job EXCEPT ![j] = [job[j] EXCEPT !.at = "next", !.bare = @ \cup job[j].now]]
    /\ UNCHANGED dailyLogRows

\* The commit of the photo analysis; of an aborted transaction it is a
\* rollback that reports no error.  With incidents left, the next INSERT
\* raises instead.  The backfill closes its session.
EndJob(j) ==
    /\ job[j].kind # "none" /\ job[j].at = "next"
    /\ job[j].todo = {} \/ job[j].aborted
    /\ IF job[j].aborted
       THEN /\ lost' = lost \cup job[j].mine \cup job[j].todo
            /\ UNCHANGED <<incidents, observed, unmirrored>>
       ELSE /\ incidents' = incidents \cup job[j].mine
            /\ observed' = Count(job[j].made)
            /\ unmirrored' = unmirrored \cup job[j].bare
            /\ UNCHANGED lost
    /\ job' = [job EXCEPT ![j] = NoJob]
    /\ UNCHANGED manual

\* The process dies.
KillJob(j) ==
    /\ job[j] # NoJob
    /\ job' = [job EXCEPT ![j] = NoJob]
    /\ UNCHANGED dailyLogRows

\* create_observation, with an incident of the caller's choice; the foreign
\* key wants it committed.
CreateObservation(i) ==
    /\ i \in incidents \ manual
    /\ manual' = manual \cup {i}
    /\ UNCHANGED <<incidents, observed, job, unmirrored, lost>>

\* trigger_extract, forced, deletes those whose caller called them
\* extracted.
DeleteObservation(i) ==
    /\ i \in manual
    /\ manual' = manual \ {i}
    /\ UNCHANGED <<incidents, observed, job, unmirrored, lost>>

DailyLogNext ==
    \/ \E j \in Jobs :
          \/ \E I \in SUBSET Incidents : StartPhoto(j, I)
          \/ StartBackfill(j)
          \/ \E i \in Incidents : TakeIncident(j, i)
          \/ EnsureDailyLog(j) \/ CheckMirror(j) \/ InsertMirror(j)
          \/ MirrorFails(j) \/ MirrorRaises(j) \/ EndJob(j) \/ KillJob(j)
    \/ \E i \in Noted : CreateObservation(i) \/ DeleteObservation(i)

-----------------------------------------------------------------------------
\* The sync never mirrors an incident twice, and those that came with the
\* mirror are mirrored as soon as they can be seen, but for those whose
\* mirror raised, whatever photo analyses, backfills, failures and deaths
\* interleave, and whatever observations users write and delete.  No unique
\* key says so: it is the lock of the upsert, and the one transaction of
\* incident and mirror.  (A user's observation of the same incident may come
\* on top, before or after: nothing asks for it.)
MirroredOnce ==
    \A i \in Incidents : /\ observed[i] <= 1
                         /\ i \in incidents \ unmirrored => observed[i] = 1
                         /\ observed[i] > 0 => i \in incidents

\* "The dailylog mirror is best-effort: a failure [...] MUST NOT prevent the
\* incident itself from being recorded".
DetectedIsRecorded == lost = {}
=============================================================================
