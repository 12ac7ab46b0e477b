CONSTANTS
    c1 = c1
    c2 = c2
    p1 = p1
    p2 = p2
    Callers = {c1, c2}
    Processes = {p1, p2}
    Home <- TwoHomes
    Accounts = {a1, a2}
    Operations = {o1, o2}
    Redeems = {r1, r2, r3}
    LegacyOps = {o1, o2}
    NoOp = NoOp
    NoGuard = NoGuard
    NoId = NoId
    Idle = Idle
SYMMETRY Symmetry
SPECIFICATION Spec
INVARIANTS
    TypeOK
    OneRedemptionPerAccount
    OneIdPerOperation
    FirstTryFailureIsFree
PROPERTIES
    RefinesLedger
