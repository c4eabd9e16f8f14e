CONSTANTS
    MaxDepth = 4
    MaxFrames = 4
    MaxDS = 7
    MaxIters = 0
    MaxRegs = 1
    SyncRegCounts = {1}
    VersionMod = 2
    LoopBodySpawns = FALSE
    Keys = {k, l}
    MaxViews = 3
    MaxUpdates = 3
    RegisterInContinuation = TRUE
SPECIFICATION ReducersSpec
INVARIANT NoDanglingView
CHECK_DEADLOCK FALSE
