\* Two concurrent writers of any kind on one seeded flag, and a handler that
\* reads through the cache; any awaited call may fail.
SPECIFICATION FairSpec
CONSTANTS
    f1 = f1
    f2 = f2
    f3 = f3
    k1 = k1
    k2 = k2
    b1 = b1
    b2 = b2
    R1 = R1
    R2 = R2
    None = None
    NoRules = NoRules
    Flag = {f1, f2, f3}
    Key = {k1, k2}
    Body = {b1, b2}
    RuleList = {R1, R2}
    Request = {r1, r2}
    Fetch = {q1}
    SeedFlag = {f1}
    SeedKey <- OneSeedKey
    SeedBody = b1
    Command <- EditCommands
    IOFailures = TRUE
INVARIANTS
    TypeOK
    LiveKeysUnique
    AckedVersionsDiffer
    VersionsRecorded
    AckedIsRecorded
    QuietHistoryIsTrue
    StaleOnlyByRace
PROPERTIES
    KillSticks
    StaleCacheHeals
