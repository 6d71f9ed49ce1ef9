SPECIFICATION FairSpec
CONSTANTS
    c1 = c1
    t1 = t1
    t2 = t2
    p1 = p1
    p2 = p2
    NoClient = NoClient
    NoPoller = NoPoller
    Clients <- OneClient
    Callers <- TwoCallers
    Pollers <- TwoPollers
    MaxPending = 2
    MaxId = 2
INVARIANTS
    TypeOK
    GuardIsPending
    OneInFlightUnlessRefused
    TimedOutIsSettled
    NoFutureDropped
    PollMutex
    ResultIsOwn
PROPERTY
    EveryFutureCompletes
CHECK_DEADLOCK FALSE
