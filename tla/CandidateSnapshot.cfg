CONSTANTS
    Accounts = {a1, a2}
    Requests = {r1, r2}
    Pool = {a1}
    NoEntry = NoEntry
    NoTx = NoTx
    MaxWrites = 1
SPECIFICATION FairSpec
INVARIANTS
    ModesKeptApart
PROPERTIES
    EventuallyFresh
CHECK_DEADLOCK FALSE
