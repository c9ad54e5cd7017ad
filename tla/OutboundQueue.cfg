SPECIFICATION Spec
CONSTANTS
    Msgs = {text, photo}
    Media = {photo}
    None = none
    MaxFaults = 2
INVARIANTS
    NoLostMessage
    
PROPERTIES
    KeepsCustody
    Redriven
CHECK_DEADLOCK FALSE
