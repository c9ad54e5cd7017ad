SPECIFICATION Spec
CONSTANTS
    Instances = {a, b}
    None = none
    TTL = 3
    MaxLag = 1
    MaxDial = 1
    MaxSkew = 1
    MaxStops = 2
INVARIANTS
    ConfirmedExclusive
    NoLeakedLease
PROPERTIES
    HandsOver
    HandoffCompletes
