SPECIFICATION Spec
CONSTANTS
    t1 = t1  t2 = t2  m1 = m1  m2 = m2  m3 = m3  m4 = m4
    Threads <- TwoThreads
    MaskIds <- FourMasks
    NULL = NULL
    MaxNode = 0
    NWords = 1
    StoreReorder = TRUE
    MaxVersion = 0
    MaxCalls = 2
SYMMETRY Symmetry
INVARIANTS TypeOK MasksSafe LeakBound
PROPERTIES SlotsKept FirstPublishGood
CHECK_DEADLOCK FALSE
