SPECIFICATION FairSpec
CONSTANTS
    r1 = r1
    r2 = r2
    t1 = t1
    t2 = t2
    blank = blank
    short = short
    long = long
    w1 = w1
    w2 = w2
    NoWorker = NoWorker
    Requests = {r1}
    Tenants = {t1}
    Contents = {blank, short, long}
    NChunks <- MCNChunks
    Workers = {w1, w2}
    MaxTries = 2
    MaxJobs = 1
    BatchSize = 2
    TaskCallFits = TRUE
    ChunkBuilds = TRUE
INVARIANTS
    CompletedIsSearchable
    DeadLetterIsFinal
    NoRejectedAdvance
    CompletedJobTold
    ErrorIffFailed
PROPERTIES
    ImplementsLifecycle
    JobsSettle
CHECK_DEADLOCK FALSE
