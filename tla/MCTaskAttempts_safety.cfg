SPECIFICATION Spec
CONSTANTS
    t1 = t1
    t2 = t2
    Tasks <- MCTasks
    MaxRuns = 3
    MaxAttempts = 3
SYMMETRY TaskSymmetry
INVARIANTS
    TypeOK
    OneStableKey
    CompletedNeverRerun
    CompletionIsDurable
PROPERTY NoBlindReplay
CHECK_DEADLOCK FALSE
