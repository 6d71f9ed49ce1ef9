SPECIFICATION Spec
CONSTANTS
    a1 = a1
    b1 = b1
    NoAsset = NoAsset
    Before <- OneBefore
    After <- OneAfter
    Stubborn <- None
    Modes <- Foreground
    MaxGen = 1
    MaxRuns = 1
INVARIANT RemainingTerminated
CHECK_DEADLOCK FALSE
