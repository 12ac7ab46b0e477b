CONSTANTS
    Accounts = {a1}
    Callers = {c1, c2}
    Slots = 2
    MaxIssued = 3
    None = None
SPECIFICATION FairSpec
INVARIANTS
    GrantKept
    OnlyLostGrantsPresentedAgain
    QuietAfterDrain
PROPERTIES
    NeverOverwritesNewer
    DrainEnds
