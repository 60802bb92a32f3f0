SPECIFICATION FairSpec
CONSTANTS
    BaseDelay = 1
    MaxDelay = 2
    MaxJitter = 0
    MaxCredentials = 2
    Poll = 2
    MaxAttempts = 2
    Headers <- MCHeaders
    MaxVersions = 2
    MaxFaults = 1
PROPERTY
    ReconnectReconciles
