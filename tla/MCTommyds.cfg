SPECIFICATION Spec
CONSTANTS
    None = None
    Junk = Junk
INVARIANTS
    ReallocationInTime
    StructureKept
PROPERTIES
    TablesRefine
    StoresRefine
CHECK_DEADLOCK FALSE
