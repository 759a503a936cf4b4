-------------------------- MODULE MCSchedulePilot --------------------------
(* The instance of SchedulePilot that TLC checks. *)
EXTENDS SchedulePilot, TLC

\* Durations of either sign.
MCDurations == {-2, 3}

\* Workers are interchangeable, and so are the activities of one schedule.
Symmetry == Permutations(Workers) \cup Permutations(Activities \ Outside)
=============================================================================
