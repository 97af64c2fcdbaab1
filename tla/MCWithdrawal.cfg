\* One task and one message that is withdrawn; nothing else fails.
SPECIFICATION Spec
CONSTANTS
    Capacity = 2
    MaxMessages = 2
    MaxAttempts = 2
    MaxTurns = 2
    MaxTools = 1
    MaxFaults = 0
INVARIANT InterruptionIsNotFailure
CHECK_DEADLOCK FALSE
