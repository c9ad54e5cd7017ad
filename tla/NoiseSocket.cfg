SPECIFICATION Spec
CONSTANTS
    Base = 3
    Quad = 2
    PackedMax = 127
    FrameBase = 4
    Stanzas <- MCStanzas
    Certs <- MCCerts
    Callers = {1}
    MaxDown = 1
    Bulky <- MCBulky
    Pieces = {2, 5}
INVARIANTS
    Intelligible
    NoMissedReply
PROPERTIES
    InOrder
    Handed
CHECK_DEADLOCK FALSE
