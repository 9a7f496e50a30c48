CONSTANTS
    Times <- MCTimes
    Passes = 4
    Bucket <- MCBucket
    MaxLimit = 2
SPECIFICATION Spec
INVARIANTS
    LoopKeepsRule
    NewestStays
CHECK_DEADLOCK FALSE
