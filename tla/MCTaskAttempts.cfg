SPECIFICATION FairSpec
CONSTANTS
    Task <- MCOneTask
    DependsOn <- MCOneTaskDependsOn
    Implementation <- MCImplementation
    MaxAttempts = 2
    MaxRepairs = 0
    HumanReason = {"why"}
    MaxFaults = 1
INVARIANTS
    NoLaunchRecovered
    AcceptanceCanBeRepeated
PROPERTIES
    FailureIsRecovered
    CommandsEnd
CHECK_DEADLOCK FALSE
