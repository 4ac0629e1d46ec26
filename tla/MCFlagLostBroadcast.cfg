\* Two administrators change the status of one flag; no call fails.
SPECIFICATION Spec
CONSTANTS
    f1 = f1
    f2 = f2
    f3 = f3
    k1 = k1
    k2 = k2
    b1 = b1
    b2 = b2
    R1 = R1
    R2 = R2
    None = None
    NoRules = NoRules
    Flag = {f1, f2}
    Key = {k1, k2}
    Body = {b1, b2}
    RuleList = {R1, R2}
    Request = {r1, r2}
    Fetch = {}
    SeedFlag = {f1}
    SeedKey <- OneSeedKey
    SeedBody = b1
    Command <- StatusCommands
    IOFailures = FALSE
INVARIANT ChangesAreBroadcast
CHECK_DEADLOCK FALSE
