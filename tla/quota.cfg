SPECIFICATION Spec
CONSTANTS
    Users = {u1, u2}
    Routes = {"permit-checklist", "scan"}
    Weight <- MCWeight
    Tokens = {1}
    Limits = {5}
    Unlimited = Unlimited
    Workers = {w1, w2}
    LastMonth = 2
    MaxCalls = 3
SYMMETRY Symmetry
INVARIANTS
    TypeOK
    OvershootBounded
    AccountsAgree
    OneMailUnlessForgotten
PROPERTIES
    WarnedBeforeCommit
CHECK_DEADLOCK FALSE
