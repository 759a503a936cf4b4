SPECIFICATION Spec
CONSTANTS
    People = {p1, p2}
    Invites = {i1}
    Editors = {e1, e2}
    Visitors = {v1, v2}
SYMMETRY Symmetry
INVARIANTS
    TypeOK
    OwnerlessOnlyByRace
    TokenIsSingleUse
    AcceptedCanSignIn
CHECK_DEADLOCK FALSE
