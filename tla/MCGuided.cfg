\* One task and two messages, or two tasks and one, into a mailbox of two.
SPECIFICATION FairSpec
CONSTANTS
    Capacity = 2
    MaxMessages = 3
    MaxAttempts = 2
    MaxTurns = 2
    MaxTools = 2
    MaxFaults = 1
INVARIANTS
    TypeOK
    DispositionsAreTrue
    CancelStaysWithItsPrompt
PROPERTIES
    ActsOnAllGuidance
    GuidanceSettles
\* The worker waits for prompts that may never come.
CHECK_DEADLOCK FALSE
