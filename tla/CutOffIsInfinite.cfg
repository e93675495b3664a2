CONSTANTS
    Routers = {1, 2, 3, 4}
    Costs <- Line
    Edits <- MiddleBreaks
    MAX_COST = 100
    SEQ_PERIOD = 2
    SeqMod = 65536
    Settle = 6
    MaxChanges = 1
    MaxQuiet = 6
SPECIFICATION Spec
INVARIANT CutOffIsInfinite
CHECK_DEADLOCK FALSE
