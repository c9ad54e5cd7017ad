SPECIFICATION Spec
CONSTANTS
    Msgs = {m1, m2}
    None = none
    MaxSkipped = 1
    Give = 3
    MaxAsked = 3
    MaxBases = 3
    MaxCounter = 8
    MaxFaults = 2
INVARIANTS
    Announced
PROPERTIES
    OpensOnce
    
CHECK_DEADLOCK FALSE
