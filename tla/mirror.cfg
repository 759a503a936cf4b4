SPECIFICATION OfficeSpec
CONSTANTS
    Claims = {c1, c2}
    Items = {i1, i2}
    Amounts = {990}
    One = 100
    Rates <- MCRates
    Workers = {w1, w2}
    MaxPayments = 2
    Followed = {c1}
    NoLine = NoLine
    Clerks = {k1, k2}
    MaxEdits = 2
    Owners = {o1}
    StripeSubs = {s1}
    NoStripe = NoStripe
    BillingMonths = 2
    Warranties = {"roof", "lift"}
    Expiry <- MCExpiry
    Windows = {1, 2}
    LastDay = 2
    Incidents = {1, 2, 3}
    DateOf <- MCDateOf
    Jobs = {j1, j2}
    Noted = {2}
    Callers = {r1, r2}
    CallLimit = 2
    Capacities = {2, 5}
    Window = 3
    MaxErrors = 1
INVARIANT DetectedIsRecorded
CHECK_DEADLOCK FALSE
