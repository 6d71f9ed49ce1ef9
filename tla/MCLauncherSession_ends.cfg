CONSTANTS
    Launches = {l1, l2}
    Ctls = {}
    Commands = {}
    Failing = {}
    Modes = {"immediate"}
    Ports = {p1, p2}
    None = None
    MaxCrashes = 1
SPECIFICATION LiveSpec
INVARIANTS
    TerminalIsOver
    OneLauncherOperates
PROPERTIES
    LaunchReturns
    ReplacedEnds
    UnreachableEnds
CHECK_DEADLOCK FALSE
