CONSTANTS
    MaxDepth = 4
    MaxFrames = 4
    MaxDS = 10
    MaxIters = 3
    MaxRegs = 2
    SyncRegCounts = {0, 2}
    VersionMod = 2
    LoopBodySpawns = FALSE
SPECIFICATION Spec
INVARIANTS
    TypeOK
    NoFalseParallelism
    NoMissedParallelism
    NoDanglingBag
    ParentContinIsNearest
PROPERTY OnlySyncSerialises
