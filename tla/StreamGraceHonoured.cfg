CONSTANTS
    Interval = 1
    Timeout = 3
    StreakFree = 1
    BackoffStep = 2
    BackoffCap = 3
    ApiDelay = 0
    RecoveryPause = 2
    ReinitTime = 0
    PollTime = 1
    DrainPolls = 1
    CameraTime = 0
    MaxSkew = 0
    Horizon = 10
SPECIFICATION Spec
PROPERTY GraceHonoured
