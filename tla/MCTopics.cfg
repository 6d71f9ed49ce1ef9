CONSTANTS
    Conns = {c1, c2, c3}
    PduKeys = {k1, k2}
    Names = {n1, n2}
    MaxInbox = 1
    MaxReady = 1
SYMMETRY Symmetry
SPECIFICATION Spec
INVARIANTS
    TypeOK
    TablesAgree
    NoZombie
    
    HandlerIsOwn
    
    ChannelsUnique
CHECK_DEADLOCK FALSE
