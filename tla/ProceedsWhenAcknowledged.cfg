CONSTANTS
    s1 = s1
    s2 = s2
    None = None
    Servers <- Two
    DeadPings = 1
    MaxViewnum = 4
SPECIFICATION Spec
PROPERTIES
    ProceedsWhenAcknowledged
