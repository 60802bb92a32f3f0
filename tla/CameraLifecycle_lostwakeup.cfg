SPECIFICATION FairSpec
CONSTANTS
    c1 = c1
    c2 = c2
    MaxFailures = 2
    Values <- MCValues
    ForceConstant = TRUE
    RestoreOnStop = TRUE
    Callbacks <- MCOneCallback
    MaxFrames = 3
    MaxStarts = 1
PROPERTIES
    StopTerminates
CHECK_DEADLOCK FALSE
