CONSTANTS
    c1 = c1
    c2 = c2
    p1 = p1
    p2 = p2
    Callers = {c1}
    Processes = {p1}
    Home <- OneHome
    Accounts = {a1}
    Operations = {o1, o2}
    Redeems = {r1, r2, r3}
    LegacyOps = {}
    NoOp = NoOp
    NoGuard = NoGuard
    NoId = NoId
    Idle = Idle
SPECIFICATION Spec
INVARIANTS
    NoChargeAfterUncertain
