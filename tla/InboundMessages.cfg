SPECIFICATION Spec
CONSTANTS
    Msgs = {msg, other}
    Target = msg
    None = none
    Give = 2
    MaxFaults = 1
    MaxResends = 1

    
PROPERTIES
    
    ContentKept
    Surfaced
CHECK_DEADLOCK FALSE
