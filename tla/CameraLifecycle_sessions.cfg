SPECIFICATION FairSpec
CONSTANTS
    c1 = c1
    c2 = c2
    MaxFailures = 2
    Values <- MCValues
    ForceConstant = TRUE
    RestoreOnStop = TRUE
    Callbacks <- MCTwoCallbacks
    MaxFrames = 2
    MaxStarts = 2
INVARIANTS
    TypeOK
    NoFrameAfterStop
    LegacyRecoverable
PROPERTIES
    FramesInOrder
    StartTerminates
    FailureSurfaces
    StopTerminatesIfBlocked
CHECK_DEADLOCK FALSE
