SPECIFICATION MCSpec
CONSTANTS
    NumTasks = 3
    ItemOf <- MCItemOf
    Scheduled = {1, 3}
    Policy = {"component"}
    NoItem = "none"
    NoLedger = NoLedger
    NoReview = NoReview
    NoCheckpoint = NoCheckpoint
    MaxActs = 0
    MaxFaults = 1
INVARIANT
    CheckpointRetriable
CHECK_DEADLOCK FALSE
