SPECIFICATION Spec
CONSTANTS
    Msgs = {m1, m2}
    None = none
    MaxSkipped = 1
    Give = 3
    MaxAsked = 3
    MaxBases = 4
    MaxCounter = 8
    MaxFaults = 1
INVARIANT KeyUsedOnce
CHECK_DEADLOCK FALSE
