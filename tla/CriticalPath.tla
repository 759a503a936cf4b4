---------------------------- MODULE CriticalPath ----------------------------
(***************************************************************************)
(* compute_critical_path (ml/pipelines/schedulepilot.py): Kahn's           *)
(* algorithm, then a forward and a backward pass over the activities of a  *)
(* schedule and their dependencies.                                        *)
(*                                                                         *)
(* N is the set of activities, dur their durations in days; lag maps the   *)
(* pairs <<predecessor, successor>> to lag_days, so that DOMAIN lag is the *)
(* set of dependencies.  Durations and lags may be negative.  A dependency *)
(* of any relationship type advances the earliest finish, as in the code:  *)
(* the loop does not look at the type (its docstring says that only FS     *)
(* ones do).  Codes, dates, slip against the baseline and the counts of    *)
(* the summary are left out.                                               *)
(***************************************************************************)
EXTENDS Integers, FiniteSets, FiniteSetsExt

Preds(n, E) == {e[1] : e \in {d \in E : d[2] = n}}
Succs(n, E) == {e[2] : e \in {d \in E : d[1] = n}}

\* Fault: a dependency on an activity that is not in the list stays.
Orphaned(N, lag) == [e \in {d \in DOMAIN lag : d[2] \in N} |-> lag[e]]

\* A dependency on an activity that is not in the list is ignored.
Known(N, lag) == [e \in DOMAIN lag \cap (N \X N) |-> lag[e]]

\* Kahn's queue, a level at a time: what it has emptied after k levels.
Sorted(N, E) ==
    LET level[k \in 0..Cardinality(N)] ==
            IF k = 0 THEN {} ELSE {n \in N : Preds(n, E) \subseteq level[k - 1]}
    IN level[Cardinality(N)]

\* Forward pass: the earliest finish, in days from the project's start.
EarliestFinish(N, dur, lag) ==
    LET ef[n \in N] ==
            dur[n] + Max({0} \cup {ef[p] + lag[<<p, n>>] : p \in Preds(n, DOMAIN lag)})
    IN ef

\* Fault: the backward pass forgets the lag.
LatestStartNoLag(N, dur, lag, finish) ==
    LET ls[n \in N] ==
            LET S == Succs(n, DOMAIN lag)
            IN (IF S = {} THEN finish ELSE Min({ls[s] : s \in S})) - dur[n]
    IN ls

\* Backward pass: the latest start that does not move the end of the project.
LatestStart(N, dur, lag, finish) ==
    LET ls[n \in N] ==
            LET S == Succs(n, DOMAIN lag)
            IN (IF S = {} THEN finish ELSE Min({ls[s] - lag[<<n, s>>] : s \in S})) - dur[n]
    IN ls

Nothing(cyclic) == [critical |-> {}, duration |-> 0, cyclic |-> cyclic]

ComputeCriticalPath(N, dur, all) ==
    LET lag == Known(N, all)
    IN IF N = {} THEN Nothing(FALSE)
       ELSE IF Sorted(N, DOMAIN lag) # N THEN Nothing(TRUE)
       ELSE LET ef     == EarliestFinish(N, dur, lag)
                finish == Max({ef[n] : n \in N})
                ls     == LatestStart(N, dur, lag, finish)
            IN [critical |-> {n \in N : ls[n] - (ef[n] - dur[n]) <= 0},
                duration |-> finish, cyclic |-> FALSE]

-----------------------------------------------------------------------------
(* What it should compute, by the paths themselves.                        *)

\* The paths without repetition, as sequences.
Paths(N, E) ==
    {p \in UNION {[1..k -> N] : k \in 1..Cardinality(N)} :
        /\ \A i \in 1..(Cardinality(DOMAIN p) - 1) : <<p[i], p[i + 1]>> \in E
        /\ \A i, j \in DOMAIN p : p[i] = p[j] => i = j}

Length(p, dur, lag) ==
    LET last == Cardinality(DOMAIN p)
    IN MapThenSumSet(LAMBDA i : dur[p[i]] + (IF i < last THEN lag[<<p[i], p[i + 1]>>] ELSE 0), 1..last)

HasCycle(N, E) ==
    \E p \in Paths(N, E) : <<p[Cardinality(DOMAIN p)], p[1]>> \in E

\* The activities on a longest path, and its length.
LongestPath(N, dur, lag) ==
    LET P    == Paths(N, DOMAIN lag)
        days == Max({Length(p, dur, lag) : p \in P})
    IN [critical |-> UNION {{p[i] : i \in DOMAIN p} : p \in {q \in P : Length(q, dur, lag) = days}},
        duration |-> days, cyclic |-> FALSE]
=============================================================================
