SPECIFICATION Spec
CONSTANTS
    c1 = c1
    c2 = c2
    MaxFailures = 2
    Values <- MCValues
    ForceConstant = TRUE
    RestoreOnStop = TRUE
    Callbacks <- MCOneCallback
    MaxFrames = 1
    MaxStarts = 2
INVARIANTS
    SettingRestored
CHECK_DEADLOCK FALSE
