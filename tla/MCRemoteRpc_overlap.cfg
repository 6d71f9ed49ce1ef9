SPECIFICATION Spec
CONSTANTS
    s1 = s1
    s2 = s2
    NoSlot = NoSlot
    NoMessage = NoMessage
    Slots <- TwoSlots
    MaxConn = 1
    MaxCalls = 1
    MaxTries = 2
    Overlap = TRUE
INVARIANT TakesOwnReply
CHECK_DEADLOCK FALSE
