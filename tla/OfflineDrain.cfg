SPECIFICATION Spec
CONSTANTS
    PageSize = 2
    MaxQueue = 5
    MaxAsked = 2
    MaxGeneration = 3
INVARIANTS
    NoSilentStall
PROPERTIES
    NeverAbandoned
    DrainCompletes
CHECK_DEADLOCK FALSE
