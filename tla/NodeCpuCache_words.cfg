SPECIFICATION FairSpec
CONSTANTS
    t1 = t1  t2 = t2  m1 = m1  m2 = m2  m3 = m3  m4 = m4
    Threads <- TwoThreads
    MaskIds <- TwoMasks
    NULL = NULL
    MaxNode = 0
    NWords = 2
    StoreReorder = FALSE
    MaxVersion = 1
    MaxCalls = 1
INVARIANTS AnswerComplete FreshForConsumer
PROPERTY CallsReturn
CHECK_DEADLOCK FALSE
