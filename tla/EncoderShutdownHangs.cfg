CONSTANTS
    LoopFirst = FALSE
    Buffers = 1
SPECIFICATION FairSpec
PROPERTY ShutdownReturns
CHECK_DEADLOCK FALSE
