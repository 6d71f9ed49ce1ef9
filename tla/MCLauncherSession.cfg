CONSTANTS
    Launches = {l1, l2}
    Ctls = {c1}
    Commands = {"start", "terminate"}
    Failing = {l1}
    Modes = {"activate-only"}
    Ports = {p1, p2}
    None = None
    MaxCrashes = 0
SYMMETRY Symmetry
SPECIFICATION Spec
INVARIANTS
    TypeOK
    TerminalIsOver
    OneLauncherOperates
    SuccessMeansStarted
CHECK_DEADLOCK FALSE
