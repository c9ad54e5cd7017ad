SPECIFICATION Spec
CONSTANTS
    Inbound = {msg}
    Outbound = {reply}
    Reports = {"sent", "delivered", "read"}
    Tasks = {k1, k2}
    Targets = {hook, redis}
    Webhooks = {hook}
    Healthy = {redis}
    NoTarget = none
    Capacity = 2
    MaxRetries = 1
    MaxDeliveries = 3
    MaxRestarts = 1
INVARIANTS
    
    RowAnnounced
    DueIsNews

    
    
CHECK_DEADLOCK FALSE
