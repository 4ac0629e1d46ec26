\* Batches of three, eight events, two failed flushes.
SPECIFICATION FairSpec
CONSTANTS
    BatchSize = 3
    MaxEvents = 8
    MaxFailures = 2
INVARIANTS
    TypeOK
    PendingIsTail
    NothingLost
    FirstReceivedInOrder
PROPERTIES
    DestroyReturns
    ImplementsChannel
