SPECIFICATION Spec
CONSTANTS
    Deliveries = {d1, d2}
    Subs = {s1, s2}
    Workers = {w1}
    Batch = 2
    MaxAttempts = 2
    DisableAfter = 2
    None = None
SYMMETRY Symmetry
PROPERTIES
    KeepsContract
CHECK_DEADLOCK FALSE
