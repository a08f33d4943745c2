SPECIFICATION FairSpec
CONSTANTS
    Clients = {c1, c2}
    TTL = 2
    MaxDelay = 1
    MaxWrites = 3
    None = None
INVARIANTS
    TypeOK
    StaleBound
    InvalidationWorks
    SerialUnlessStale
PROPERTY
    EventuallyCurrent
