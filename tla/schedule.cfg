SPECIFICATION Spec
CONSTANTS
    Activities = {a1, a2, a3}
    Outside = {}
    Durations <- MCDurations
    Unborn = Unborn
    Deleted = Deleted
    Lags = {2}
    Workers = {w1, w2}
    MaxDeps = 3
SYMMETRY Symmetry
INVARIANTS
    TypeOK
    CycleOnlyByRace
    CycleReportedOnlyByRace
PROPERTIES
    CriticalPathIsLongest
CHECK_DEADLOCK FALSE
