SPECIFICATION FairSpec
CONSTANTS
    Deliveries = {d1}
    Subs = {s1}
    Workers = {w1, w2}
    Batch = 1
    MaxAttempts = 2
    DisableAfter = 2
    None = None
PROPERTIES
    EventuallySettled
CHECK_DEADLOCK FALSE
