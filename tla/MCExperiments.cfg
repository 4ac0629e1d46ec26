\* A batch of events, two lifecycle requests, calls and workers fail.
SPECIFICATION FairSpec
CONSTANTS
    e1 = e1
    e2 = e2
    v1 = v1
    j1 = j1
    None = None
    Experiment = {e1, e2}
    SeedStatus <- OneRunning
    Variant = {v1}
    Request = {r1, r2}
    Command <- CountCommands
    Job = {j1}
    Batch <- OneBatch
    Attempts = 2
    MaxStalls = 1
    Concurrency = 1
    IOFailures = TRUE
INVARIANTS
    TypeOK
    ConversionsHaveImpressions
    CountsAreBounded
    CompletedIsCounted
    FrontCountsMore
    RunningHasVariants
PROPERTIES
    JobsSettle
    StoppedLeftOnlyByRace
CHECK_DEADLOCK FALSE
