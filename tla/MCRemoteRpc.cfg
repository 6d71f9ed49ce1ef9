SPECIFICATION Spec
CONSTANTS
    s1 = s1
    s2 = s2
    NoSlot = NoSlot
    NoMessage = NoMessage
    Slots <- OneSlot
    MaxConn = 3
    MaxCalls = 2
    MaxTries = 1
    Overlap = FALSE
INVARIANTS
    TypeOK
    AnswerIsOwnOrLeftover
    PollsFreely
    RefusesOnlyWhenBusy
    RegisteredIsConnected
    RegisteredIsKnown
PROPERTY
    RunsOnce
CHECK_DEADLOCK FALSE
