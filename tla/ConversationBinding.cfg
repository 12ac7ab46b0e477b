CONSTANTS
    Accounts = {a1, a2}
    Requests = {r1, r2}
    Models = {m1}
    NoRow = NoRow
    None = None
SYMMETRY Symmetry
SPECIFICATION Spec
INVARIANTS
    TypeOK
    ColdStartsConverge
    RebindFollowsSuccess
PROPERTIES
    GivenUpBindingStays
    NoBlindCreate
CHECK_DEADLOCK FALSE
