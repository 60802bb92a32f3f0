SPECIFICATION Spec
CONSTANTS
    BaseDelay = 1
    MaxDelay = 2
    MaxJitter = 1
    MaxEvents = 3
    FrameFaces = 2
    BatchLimit = 2
    MaxAttempts = 2
    Headers <- MCTwoHeaders
    MaxTime = 1
    MaxFaults = 3
INVARIANTS
    TypeOK
    CommittedNeverLost
    OneTable
    BatchStillQueued
    EndpointGate
    NothingSilentlyLost
