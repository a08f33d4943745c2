SPECIFICATION BWFairSpec
CONSTANTS
    MaxTasks = 4
    MaxConcurrent = 2
INVARIANTS
    BWTypeOK
    ConcurrencyBound
    EachTaskOnce
    StartsInOrder
PROPERTY
    TasksSettle
