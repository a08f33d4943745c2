SPECIFICATION FairSpec
CONSTANTS
    r1 = r1
    r2 = r2
    t1 = t1
    t2 = t2
    blank = blank
    short = short
    long = long
    w1 = w1
    w2 = w2
    NoWorker = NoWorker
    Requests = {r1, r2}
    Tenants = {t1}
    Contents = {short}
    NChunks <- MCShort
    Workers = {w1}
    MaxTries = 2
    MaxJobs = 1
    BatchSize = 2
    TaskCallFits = TRUE
    ChunkBuilds = FALSE
INVARIANTS
    ProcessingAnswerIsBacked
    DuplicatesOverlap
PROPERTY
    JobsSettle
CHECK_DEADLOCK FALSE
