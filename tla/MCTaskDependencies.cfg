SPECIFICATION Spec
CONSTANTS
    Task <- MCTask
    DependsOn <- MCDependsOn
    Implementation <- MCImplementation
    MaxAttempts = 1
    MaxRepairs = 1
    HumanReason = {"why"}
    MaxFaults = 1
INVARIANTS
    TypeOK
    DependenciesFirst
    RunCanSettle
    ReadableIsAssessable
PROPERTIES
    CompletedIsFinal
CHECK_DEADLOCK FALSE
