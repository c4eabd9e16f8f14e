CONSTANTS
    MaxDepth = 4
    MaxFrames = 4
    MaxDS = 9
    MaxIters = 3
    MaxRegs = 1
    SyncRegCounts = {1}
    VersionMod = 2
    LoopBodySpawns = FALSE
    Locs = {x}
    MaxAccesses = 3
    LoopBodyCalls = FALSE
    ReuseInStrand = FALSE
SPECIFICATION DetectorSpec
CONSTRAINT SmallPrograms
INVARIANTS
    ReportsAreRaces
    RacesAreReported
    ShadowIsLive
    EntriesStandForAll
\* The program under test ends.
CHECK_DEADLOCK FALSE
