\* Batches of two, three events, one failed flush.
SPECIFICATION FairSpec
CONSTANTS
    BatchSize = 2
    MaxEvents = 3
    MaxFailures = 1
PROPERTIES
    OpenEventsAreFlushed
