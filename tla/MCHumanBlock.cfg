SPECIFICATION Spec
CONSTANTS
    Task <- MCOneTask
    DependsOn <- MCOneTaskDependsOn
    Implementation <- MCImplementation
    MaxAttempts = 1
    MaxRepairs = 0
    HumanReason = {"why"}
    MaxFaults = 1
INVARIANTS
    HumanBlockIsFinal
CHECK_DEADLOCK FALSE
