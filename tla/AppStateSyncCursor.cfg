SPECIFICATION Spec
CONSTANTS
    Log <- TwoKeys
    MaxReplies = 3
    MaxFaults = 1
INVARIANT CursorHonest
CHECK_DEADLOCK FALSE
