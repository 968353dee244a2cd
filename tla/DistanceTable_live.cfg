SPECIFICATION FairSpec
CONSTANTS
    t1 = t1  t2 = t2  x1 = x1  x2 = x2
    Threads <- TwoThreads
    Tables <- TwoTables
    NULL = NULL
    Known <- NoNodeZero
    Args <- ZeroArg
    MaxNode = 1
    MaxFile = 1
    StoreReorder = TRUE
    HotAdd = TRUE
    HotRemove = TRUE
    MaxCalls = 1
PROPERTIES CallsReturn
CHECK_DEADLOCK FALSE
