CONSTANTS
    CallIDs = {"call"}
    Holders = {h1, h2}
    Nodes = {1, 2, 3, 4}
    MaxPushes = 5
    ReportPushes = 1
    AccIDs = {1, 2}
    AccTypes = {0, 1}
    AllocIDs = {0, 7}
    MaxReports = 2
SPECIFICATION Spec
INVARIANTS
    RefCountsReflectPointers
    CommonContextIsShared
    DistinctRaces
PROPERTY CallStacksPersist
CHECK_DEADLOCK FALSE
