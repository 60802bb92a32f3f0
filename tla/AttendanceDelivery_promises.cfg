SPECIFICATION FairSpec
CONSTANTS
    BaseDelay = 1
    MaxDelay = 2
    MaxJitter = 0
    MaxEvents = 2
    FrameFaces = 2
    BatchLimit = 2
    MaxAttempts = 2
    Headers <- MCHeaders
    MaxTime = 1
    MaxFaults = 3
PROPERTIES
    PauseAndRefusalsKept
    ImplementsQueue
    OutboxDrains
    PendingResolved
