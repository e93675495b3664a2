CONSTANTS
    Routers = {1, 2, 3}
    Costs <- Triangle
    Edits <- TwoEnds
    MAX_COST = 100
    SEQ_PERIOD = 3
    SeqMod = 65536
    Settle = 8
    MaxChanges = 2
    MaxQuiet = 9
SPECIFICATION Spec
INVARIANTS TypeOK LookupFinds RoutesLead CutOffIsInfinite
CHECK_DEADLOCK FALSE
