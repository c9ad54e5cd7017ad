SPECIFICATION Spec
CONSTANTS
    Peers = {p1, p2}
    None = none
    Low = 1
    Wanted = 2
    Give = 1
    MaxFaults = 2
INVARIANTS
    PublishedKept
PROPERTIES
    Refilled
CHECK_DEADLOCK FALSE
