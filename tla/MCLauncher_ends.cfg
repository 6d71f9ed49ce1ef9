SPECIFICATION FairSpec
CONSTANTS
    a1 = a1
    b1 = b1
    NoAsset = NoAsset
    Before <- OneBefore
    After <- OneAfter
    Stubborn <- OneAfter
    Modes <- AllModes
    MaxGen = 1
    MaxRuns = 2
PROPERTIES
    CleanupEnds
    OneDownAllDown
    CleanWhenReported
CHECK_DEADLOCK FALSE
