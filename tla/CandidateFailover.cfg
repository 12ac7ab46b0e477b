CONSTANTS
    Accounts = {a1, a2}
    Requests = {r1, r2}
    MaxCandidates = 2
    Limit = 1
    None = None
SYMMETRY Symmetry
SPECIFICATION Spec
INVARIANTS
    TypeOK
    InflightExact
    OneOutcome
    LastCandidateAnswers
    NoHammering
PROPERTIES
    NothingSentForGoneClient
CHECK_DEADLOCK FALSE
