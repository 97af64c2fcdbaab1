SPECIFICATION MCFairSpec
CONSTANTS
    Proc = {p1, p2}
    NumFiles = 2
    Version = {v1, v2, v3}
    Live = {v3}
    Reopening = {v2}
    Token = {k1, k2, k3, k4, k5}
    NoToken = NoToken
    NoJournal = NoJournal
    MaxPlans = 1
    MaxEdits = 1
    MaxFaults = 3
    MaxTasks = 1
INVARIANTS
    TypeOK
    HalfAppliedIsFenced
    SoleTransaction
    NoMutualFence
PROPERTIES
    RecordedWritesStand
    Atomic
    RecoveryCompletes
CHECK_DEADLOCK FALSE
