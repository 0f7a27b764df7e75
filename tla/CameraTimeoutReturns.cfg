SPECIFICATION FairSpec
PROPERTY TimeoutReturns
CHECK_DEADLOCK FALSE
