SPECIFICATION FairSpec
CONSTANTS
    s1 = s1
    s2 = s2
    NoSlot = NoSlot
    NoMessage = NoMessage
    Slots <- TwoSlots
    MaxConn = 1
    MaxCalls = 2
    MaxTries = 2
    Overlap = FALSE
PROPERTIES
    EveryCallEnds
    CallsAsPromised
CHECK_DEADLOCK FALSE
