--------------------------- MODULE SchedulePilot ---------------------------
(***************************************************************************)
(* The network of one schedule (routers/schedulepilot.py): activities,     *)
(* the dependencies between them with the cycle check before each insert,  *)
(* and the risk assessment, which reads both, computes the critical path   *)
(* and stores it after the model has answered.                             *)
(*                                                                         *)
(* PostgreSQL runs at READ COMMITTED: a statement sees what is committed   *)
(* when it starts.  Ids are never used again.                              *)
(***************************************************************************)
EXTENDS CriticalPath

CONSTANTS
    Activities,     \* ids of activities
    Outside,        \* those of them that belong to other schedules
    Durations,      \* planned_duration_days, which nothing keeps from being negative
    Unborn, Deleted,    \* no row yet, no row any more
    Lags,           \* lag_days
    Workers,        \* requests that create dependencies at the same time
    MaxDeps         \* bound: dependencies at one time

ASSUME ScheduleAssumption ==
    /\ Outside \subseteq Activities /\ IsFiniteSet(Activities)
    /\ Durations \subseteq Int /\ Lags \subseteq Int
    /\ {Unborn, Deleted} \cap Durations = {}
    /\ MaxDeps \in Nat

VARIABLES
    activity,       \* a duration, or whether the row is still to come or gone
    lag,            \* schedule_dependencies: a function on pairs of activities
    creating,       \* create_dependency of each worker; ghost: an insert has overtaken it
    assessing,      \* run_risk_assessment
    latest,         \* the latest row of schedule_risk_assessments: a path, or cycle_detected
    outrun          \* ghost: an overtaken insert whose check would fail by then

vars == <<activity, lag, creating, assessing, latest, outrun>>

Pairs == Activities \X Activities
NoRow == {Unborn, Deleted}
Idle  == [at |-> "idle"]
Live  == {a \in Activities : activity[a] \notin NoRow}
Deps  == DOMAIN lag

DurationsRead == UNION {[N -> Durations] : N \in SUBSET (Activities \ Outside)}
Results == [critical : SUBSET (Activities \ Outside), duration : Int, cyclic : BOOLEAN]

TypeOK ==
    /\ activity \in [Activities -> Durations \cup NoRow]
    /\ Deps \subseteq Live \X Live /\ lag \in [Deps -> Lags]
    /\ creating \in [Workers -> {Idle} \cup [at : {"checked"}, edge : Pairs, overtaken : BOOLEAN]]
    /\ \/ assessing = Idle
       \/ assessing.at = "activities" /\ assessing.dur \in DurationsRead
       \/ assessing.at = "computed" /\ assessing.result \in Results
    /\ latest \in {"none", "path", "cycle"}
    /\ outrun \in BOOLEAN

Init ==
    /\ activity \in [Activities -> Durations \cup {Unborn}]
    /\ lag = <<>>
    /\ creating = [w \in Workers |-> Idle]
    /\ assessing = Idle
    /\ latest = "none"
    /\ outrun = FALSE

-----------------------------------------------------------------------------
(* Activities.                                                             *)

CreateActivity(a, d) ==
    /\ activity[a] = Unborn
    /\ activity' = [activity EXCEPT ![a] = d]
    /\ UNCHANGED <<lag, creating, assessing, latest, outrun>>

UpdateActivity(a, d) ==
    /\ a \in Live
    /\ activity' = [activity EXCEPT ![a] = d]
    /\ UNCHANGED <<lag, creating, assessing, latest, outrun>>

\* Fault: the dependencies stay.
DeleteActivityOnly(a) ==
    /\ a \in Live
    /\ activity' = [activity EXCEPT ![a] = Deleted]
    /\ UNCHANGED <<lag, creating, assessing, latest, outrun>>

\* The foreign keys take the dependencies along.
DeleteActivity(a) ==
    /\ a \in Live
    /\ activity' = [activity EXCEPT ![a] = Deleted]
    /\ lag' = [e \in {d \in Deps : a \notin {d[1], d[2]}} |-> lag[e]]
    /\ UNCHANGED <<creating, assessing, latest, outrun>>

-----------------------------------------------------------------------------
(* Dependencies.                                                           *)

\* The recursive query of _would_create_cycle: the least set that holds the
\* successors of a and those of its members.
Closed(S, a, E) == \A e \in E : e[1] = a \/ e[1] \in S => e[2] \in S
Descendants(a, E) == {b \in Activities : \A S \in SUBSET Activities : Closed(S, a, E) => b \in S}

\* Fault: only the direct successors are looked at.
CheckDirect(w, p, s) ==
    /\ creating[w] = Idle
    /\ p # s /\ <<s, p>> \notin Deps
    /\ creating' = [creating EXCEPT ![w] = [at |-> "checked", edge |-> <<p, s>>, overtaken |-> FALSE]]
    /\ UNCHANGED <<activity, lag, assessing, latest, outrun>>

\* create_dependency up to the answer of the cycle check.  Nothing asks
\* whether the activities exist or belong to one schedule.
CheckDependency(w, p, s) ==
    /\ creating[w] = Idle
    /\ p # s /\ p \notin Descendants(s, Deps)
    /\ creating' = [creating EXCEPT ![w] = [at |-> "checked", edge |-> <<p, s>>, overtaken |-> FALSE]]
    /\ UNCHANGED <<activity, lag, assessing, latest, outrun>>

\* The INSERT and its commit; the foreign keys and the unique pair hold.
InsertDependency(w, l) ==
    /\ creating[w] # Idle /\ Cardinality(Deps) < MaxDeps
    /\ LET e == creating[w].edge IN
       /\ e \in (Live \X Live) \ Deps
       /\ lag' = [d \in Deps \cup {e} |-> IF d = e THEN l ELSE lag[d]]
       /\ outrun' = (outrun \/ (creating[w].overtaken /\ e[1] \in Descendants(e[2], Deps)))
    /\ creating' = [v \in Workers |-> IF v = w \/ creating[v] = Idle THEN Idle
                                      ELSE [creating[v] EXCEPT !.overtaken = TRUE]]
    /\ UNCHANGED <<activity, assessing, latest>>

\* A constraint refuses the row, or the request dies.
AbandonDependency(w) ==
    /\ creating[w] # Idle
    /\ creating' = [creating EXCEPT ![w] = Idle]
    /\ UNCHANGED <<activity, lag, assessing, latest, outrun>>

DeleteDependency(e) ==
    /\ e \in Deps
    /\ lag' = [d \in Deps \ {e} |-> lag[d]]
    /\ UNCHANGED <<activity, creating, assessing, latest, outrun>>

-----------------------------------------------------------------------------
(* The risk assessment.                                                    *)

ScheduleDeps == [e \in {d \in Deps : d[1] \notin Outside} |-> lag[e]]

ReadActivities ==
    /\ assessing = Idle
    /\ assessing' = [at |-> "activities", dur |-> [a \in Live \ Outside |-> activity[a]]]
    /\ UNCHANGED <<activity, lag, creating, latest, outrun>>

\* A statement of its own: the dependencies whose predecessor is in the
\* schedule.  compute_critical_path works on what was read.
ReadDependencies ==
    /\ assessing.at = "activities"
    /\ assessing' = [at |-> "computed",
                     result |-> ComputeCriticalPath(DOMAIN assessing.dur, assessing.dur, ScheduleDeps)]
    /\ UNCHANGED <<activity, lag, creating, latest, outrun>>

\* The model has narrated: the INSERT.
StoreAssessment ==
    /\ assessing.at = "computed"
    /\ latest' = IF assessing.result.cyclic THEN "cycle" ELSE "path"
    /\ assessing' = Idle
    /\ UNCHANGED <<activity, lag, creating, outrun>>

AbandonAssessment ==
    /\ assessing # Idle
    /\ assessing' = Idle
    /\ UNCHANGED <<activity, lag, creating, latest, outrun>>

Next ==
    \/ \E a \in Activities, d \in Durations : CreateActivity(a, d) \/ UpdateActivity(a, d)
    \/ \E a \in Activities : DeleteActivity(a)
    \/ \E w \in Workers :
          \/ \E p, s \in Activities : CheckDependency(w, p, s)
          \/ \E l \in Lags : InsertDependency(w, l)
          \/ AbandonDependency(w)
    \/ \E e \in Pairs : DeleteDependency(e)
    \/ ReadActivities \/ ReadDependencies \/ StoreAssessment \/ AbandonAssessment

Spec == Init /\ [][Next]_vars

-----------------------------------------------------------------------------
(* Properties.                                                             *)

Acyclic(E) == \A a \in Activities : a \notin Descendants(a, E)

\* A cycle takes two inserts that close it together, each past a check that
\* did not see the other: the check alone is enough over all schedules,
\* whatever is deleted between a check and its insert, and nothing but the
\* check prevents a cycle.
CycleOnlyByRace == ~outrun => Acyclic(Deps)

\* Nor does an assessment report a cycle otherwise ("shouldn't happen"),
\* although it reads activities and dependencies at two moments and both may
\* have changed in between.
CycleReportedOnlyByRace == latest = "cycle" => outrun

\* The assessment is the longest path of what was read: its length, and
\* exactly the activities on a path of that length.  Not for negative lags,
\* nor for negative durations: the activity that ends the project may then end
\* after all its successors, which leaves it off the path, and the path may be
\* empty, as for a(3) -> b(-2).
CriticalPathIsLongest ==
    [][ReadDependencies =>
          LET N == DOMAIN assessing.dur
              L == Known(N, ScheduleDeps)
          IN N # {} /\ (\A n \in N : assessing.dur[n] >= 0) /\ (\A e \in DOMAIN L : L[e] >= 0) =>
                assessing'.result = IF HasCycle(N, DOMAIN L) THEN Nothing(TRUE)
                                    ELSE LongestPath(N, assessing.dur, L)]_vars
=============================================================================
