SPECIFICATION FairSpec
CONSTANTS
    Agents = {a1, a2}
    Followed = a1
    NoAgent = none
    Half = 2
    Rocs = 3
    MaxPackets = 6
CHECK_DEADLOCK FALSE
INVARIANTS
    TypeOK
    InStep
    EntryLive

    
