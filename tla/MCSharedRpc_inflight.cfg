SPECIFICATION Spec
CONSTANTS
    c1 = c1
    t1 = t1
    t2 = t2
    p1 = p1
    p2 = p2
    NoClient = NoClient
    NoPoller = NoPoller
    Clients <- OneClient
    Callers <- TwoCallers
    Pollers <- OnePoller
    MaxPending = 2
    MaxId = 3
INVARIANT OneInFlight
CHECK_DEADLOCK FALSE
