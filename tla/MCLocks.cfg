CONSTANTS
    NStrands = 3
    Mutexes = {m1, m2}
    MaxIds = 2
    MaxAccesses = 3
    RelocksInStrand = FALSE
SPECIFICATION Spec
INVARIANTS
    LocksetIsHeld
    ReportsAreDataRaces
    PlainRacesReported
    IntersectOneSided
\* The program under test ends.
CHECK_DEADLOCK FALSE
