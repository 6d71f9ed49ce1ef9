CONSTANTS
    Launches = {l1, l2}
    Ctls = {}
    Commands = {}
    Failing = {}
    Modes = {"immediate"}
    Ports = {p1, p2}
    None = None
    MaxCrashes = 0
SPECIFICATION Spec
INVARIANT RefusesLiveSession
CHECK_DEADLOCK FALSE
