\* One change during an outage, no failed fetch, one fetch at a time.
SPECIFICATION Spec
CONSTANTS
    f1 = f1
    f2 = f2
    Flag = {f1, f2}
    SeedFlag = {f1}
    MaxChanges = 1
    MaxFetches = 1
    MaxSockets = 1
    MaxDrops = 1
    MaxFailures = 0
INVARIANT ReconnectCatchesUp
CHECK_DEADLOCK FALSE
