CONSTANTS
    MaxDepth = 4
    MaxFrames = 4
    MaxDS = 7
    MaxIters = 2
    MaxRegs = 2
    SyncRegCounts = {0, 2}
    VersionMod = 2
    LoopBodySpawns = FALSE
    MaxNest = 7
    SyncAfterLoop = TRUE
SPECIFICATION DriverSpec
INVARIANTS
    DriverTypeOK
    RunsOnItsFrame
    SerialHasNoParallel
    UnseenStaySerial
\* The program under test ends.
CHECK_DEADLOCK FALSE
