SPECIFICATION Spec
CONSTANTS
    Suppliers = {s1, s2}
    MaxTries = 2
    MaxQuotes = 2
SYMMETRY Symmetry
INVARIANTS
    TypeOK
    DispatchedWasMailed
    QuoteIffResponded
    ExpiredOnlyOverdue
CHECK_DEADLOCK FALSE
