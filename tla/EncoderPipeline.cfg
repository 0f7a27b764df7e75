CONSTANTS
    LoopFirst = TRUE
    Buffers = 3
SPECIFICATION FairSpec
INVARIANTS TypeOK PushIntoLivePipeline LoopOutlivesThread RequestsGoRound
PROPERTIES ShutdownReturns ErrorEndsSession
