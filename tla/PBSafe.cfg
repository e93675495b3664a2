CONSTANTS
    s1 = s1
    s2 = s2
    c1 = c1
    c2 = c2
    k1 = k1
    None = None
    Servers <- Two
    Clerks <- TwoClerks
    Keys <- OneKey
    DeadPings = 1
    Environments <- Safe
    MaxDepth = 3
SPECIFICATION Spec
SYMMETRY Symmetry
INVARIANTS
    TypeOK
    MutexSound
    NoMutexCycle
    ReplicasAgree
    AckedWhileConnected
PROPERTIES
    FailoverKeepsValues
    IsRegister
