CONSTANTS
    Accounts = {a1, a2}
    Reasons <- MCReasons
    Secs <- MCSecs
    Statuses <- MCStatuses
    Ladder <- MCLadder
    ForgetAfter = 3
    CleanupInterval = 2
    MaxCount = 4
    MaxNow = 6
SYMMETRY Symmetry
SPECIFICATION Spec
INVARIANTS
    TypeOK
    OffenseMapsAgree
    EscalationIsEarned
PROPERTIES
    NoEarlyRelease
    ImplementsCooldownDeadlines
CHECK_DEADLOCK FALSE
