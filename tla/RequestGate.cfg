CONSTANTS
    Requests = {r1, r2, r3}
    Keys = {k1, k2}
    Locks = {l1, l2}
    NoLock = NoLock
SPECIFICATION GateFairSpec
INVARIANTS
    GateTypeOK
    MutualExclusion
    NoLostWakeup
PROPERTIES
    StarvedOnlyByNewcomers
