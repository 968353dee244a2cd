SPECIFICATION Spec
CONSTANTS
    t1 = t1  t2 = t2  m1 = m1  m2 = m2  m3 = m3  m4 = m4
    Threads <- OneThread
    MaskIds <- FourMasks
    NULL = NULL
    MaxNode = 0
    NWords = 1
    StoreReorder = FALSE
    MaxVersion = 1
    MaxCalls = 2
INVARIANT FaultyNotCached
CHECK_DEADLOCK FALSE
