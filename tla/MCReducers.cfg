CONSTANTS
    MaxDepth = 4
    MaxFrames = 4
    MaxDS = 7
    MaxIters = 2
    MaxRegs = 2
    SyncRegCounts = {2}
    VersionMod = 2
    LoopBodySpawns = FALSE
    Keys = {k}
    MaxViews = 3
    MaxUpdates = 3
    RegisterInContinuation = FALSE
SPECIFICATION ReducersSpec
INVARIANTS
    SerialOrder
    ViewsExact
    FreshFrameHasNoViews
PROPERTY ParallelStrandsHaveOwnViews
\* The program under test ends.
CHECK_DEADLOCK FALSE
