CONSTANTS
    NUnits = 3
    NumEntries <- MCNumEntries
    Readers = {r1}
    PerTable = 2
    Capacity = 1
SPECIFICATION Spec
INVARIANTS
    LookupsFindEntry
    TablesAgree
PROPERTY UnitsInitialised
