CONSTANTS
    s1 = s1
    s2 = s2
    s3 = s3
    None = None
    Servers <- Three
    DeadPings = 1
    Environments <- Faulty
SPECIFICATION Spec
SYMMETRY Symmetry
INVARIANTS
    TypeOK
    RolesDistinct
    PendingChangeNumbered
    ViewsAgree
PROPERTIES
    NoNewViewBeforeAck
    NobodyDeposedInVain
