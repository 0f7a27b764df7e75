CONSTANTS
    Interval = 1
    Timeout = 3
    StreakFree = 1
    BackoffStep = 2
    BackoffCap = 5
    ApiDelay = 1
    RecoveryPause = 2
    ReinitTime = 1
    PollTime = 1
    DrainPolls = 1
    CameraTime = 1
    MaxSkew = 1
    Horizon = 18
SPECIFICATION Spec
INVARIANTS TypeOK AskedInTime StopLatency ShutdownLatency
PROPERTY OutageKeepsSession
