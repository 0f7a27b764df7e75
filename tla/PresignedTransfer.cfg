CONSTANTS
    MaxAttempts = 4
    RequestTimeout = 1
    BackoffUnit = 1
    MaxLength = 2
    MaxWrites = 3
SPECIFICATION FairSpec
INVARIANTS TypeOK TransferTime
PROPERTIES TransferReturns ImplementsTransfer
