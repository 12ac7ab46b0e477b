CONSTANTS
    Accounts = {a1, a2, a3}
    Enqueuers = {e1, e2}
    Workers = {w1, w2}
    Capacity = 2
    None = None
SPECIFICATION FairSpec
INVARIANTS
    MarksExact
PROPERTIES
    MarksReleased
    WorkersEnd
