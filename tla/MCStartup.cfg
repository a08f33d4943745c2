SPECIFICATION FairSpec
CONSTANTS
    Apis = {a1, a2}
    Workers = {w}
    NumFields = 3
    MaxFaults = 2
INVARIANTS
    ReadyHasCollection
    IndexedUnlessInterrupted
    OnlyUnclosedLeft
PROPERTY
    ComesUp
