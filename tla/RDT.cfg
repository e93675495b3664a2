CONSTANTS
    MAX_SEQ = 6
    WIN_SIZE = 3
    BSIZE = 3
    Lifetime = 3
    MaxMsg = 2
    MaxSent = 8
    MaxFlight = 2
SPECIFICATION FairSpec
CHECK_DEADLOCK FALSE
INVARIANTS
    TypeOK
    CountsElements
    TimerArmed
    WindowFirst
    ForgetsOnlyDelivered
PROPERTIES
    IsTransport
    AllArrives
