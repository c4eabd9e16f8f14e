CONSTANTS
    Keys = {1, 2, 3, 4}
    Values = {v, w}
    NoView = NoView
    hash <- WrappingHash
    IndexMod = 65536
    MIN_CAPACITY = 2
    MIN_HT_CAPACITY = 4
    LOAD_FACTOR_CONSTANT = 16
    MIN_REBUILD_OP_COUNT = 8
    FillTables = TRUE
SPECIFICATION TableSpec
INVARIANT FindsEveryBucket
