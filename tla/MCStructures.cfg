CONSTANTS
    MaxNodes = 4
    MaxRank = 2
    SBags = {s1, s2, s3}
    PBags = {p1}
    NoBag = NoBag
    Entries = {x, y}
    Keys = {1, 2, 3, 4}
    Values = {v, w}
    NoView = NoView
    hash <- WrappingHash
    IndexMod = 65536
    MIN_CAPACITY = 2
    MIN_HT_CAPACITY = 4
    LOAD_FACTOR_CONSTANT = 2
    MIN_REBUILD_OP_COUNT = 8
    FillTables = FALSE
SPECIFICATION StructuresSpec
SYMMETRY StructureSymmetry
INVARIANTS
    RefCountsExact
    BagHoldsRoot
    RanksIncrease
    OccupancyCounts
    LoadBounded
PROPERTIES
    ImplementsPartition
    ImplementsMap
\* No bag exists, or no node is free.
CHECK_DEADLOCK FALSE
