SPECIFICATION Spec
CONSTANTS
    Worlds <- MCWorlds
    Matching <- MCMatching
    Hash <- MCHash
    Unit <- MCUnit
    HASH_TABLE_SIZE = 5
    PageSize = 2
    HugeSize = 5
    FirstPids = 1
    ScreenWidth = 10
    HeaderWidth = 3
    Wide = 4
    Narrow = 2
    MaxArgs = 3
INVARIANTS PidsRight SystemTableRight 
PROPERTIES ProcessTableRight
CHECK_DEADLOCK FALSE
