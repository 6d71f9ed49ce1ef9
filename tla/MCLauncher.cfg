SPECIFICATION Spec
CONSTANTS
    a1 = a1
    b1 = b1
    NoAsset = NoAsset
    Before <- OneBefore
    After <- None
    Stubborn <- OneBefore
    Modes <- AllModes
    MaxGen = 3
    MaxRuns = 1
INVARIANTS
    TypeOK
    OneCleanup
    OneActivation
PROPERTY CleanWhenReported
CHECK_DEADLOCK FALSE
