\* A change, two fetches at a time, a lost connection, a failed fetch or change,
\* and an application that connects again when its first fetch fails.
SPECIFICATION FairSpec
CONSTANTS
    f1 = f1
    f2 = f2
    Flag = {f1, f2}
    SeedFlag = {f1}
    MaxChanges = 1
    MaxFetches = 2
    MaxSockets = 1
    MaxDrops = 1
    MaxFailures = 1
INVARIANTS
    TypeOK
    StaleOnlyForCause
PROPERTIES
    ConnectReturns
    Reconnects
    CopyConverges
CHECK_DEADLOCK FALSE
