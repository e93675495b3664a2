CONSTANTS
    w1 = w1
    w2 = w2
    w3 = w3
    None = None
    Workers <- Three
    NRPC <- SomeFail
    nMap = 3
    nReduce = 2
    Cap = 3
    Words = {"a", "b", "c"}
    Hash <- HashOf
    Inputs <- TextFiles
    Leftovers <- OldSplits
SPECIFICATION FairSpec
CHECK_DEADLOCK FALSE
INVARIANTS
    TypeOK
    EverySplitIsRead
    OneJobPerWorker
    SameAsSequential
    ResultIsWordCount
PROPERTIES
    MapFilesFrozen
    RunEnds
