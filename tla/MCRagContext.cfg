SPECIFICATION Spec
CONSTANTS
    TopK = 3
    Scores = {1, 2, 3}
    Threshold = 2
    MaxBlock = 3
    MaxContext = 4
INVARIANTS
    CitationsMatch
    BestAreUsed
    FillsBudget
CHECK_DEADLOCK FALSE
