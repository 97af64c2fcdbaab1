SPECIFICATION MCFairSpec
CONSTANTS
    NumTasks = 3
    ItemOf <- MCItemOf
    Scheduled = {1, 3}
    Policy = {"item", "component", "manual"}
    NoItem = "none"
    NoLedger = NoLedger
    NoReview = NoReview
    NoCheckpoint = NoCheckpoint
    MaxActs = 2
    MaxFaults = 2
INVARIANTS
    TypeOK
    CompletedItemsCommitted
    CheckpointsHoldWholeItems
    PublishedIsKnown
    NoUnknownEffects
    ItemCheckpointRetriable
PROPERTIES
    BranchOnlyGrows
    StagingKept
    PendingSettles
CHECK_DEADLOCK FALSE
