SPECIFICATION Spec
CONSTANTS
    Deliveries = {d1, d2}
    Subs = {s1}
    Workers = {w1, w2}
    Batch = 2
    MaxAttempts = 2
    DisableAfter = 2
    None = None
SYMMETRY Symmetry
INVARIANTS
    TypeOK
    DeliveredWasAccepted
    FailedWasTriedInFull
    UnsettledIsRetryable
    AutoDisableIsEarned
CHECK_DEADLOCK FALSE
