SPECIFICATION Spec
CONSTANTS
    Collections = {critical}
    QrLimit = 2
    MaxDrivers = 2
    MaxCallers = 2
INVARIANTS
    TypeOK
    OneDriver
    NoOrphan
PROPERTIES
    RejectedHalts
    
    SyncEnds
    
CHECK_DEADLOCK FALSE
