SPECIFICATION Spec
CONSTANTS
    Task <- MCSiblings
    DependsOn <- MCSiblingsDependsOn
    Implementation = {}
    MaxAttempts = 1
    MaxRepairs = 0
    HumanReason = {"why"}
    MaxFaults = 1
INVARIANTS
    NoReplay
    FenceStaysRecoverable
CHECK_DEADLOCK FALSE
