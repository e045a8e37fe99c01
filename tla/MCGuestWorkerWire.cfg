SPECIFICATION Spec
CONSTANTS
    ByteBase = 4
    Magic = 141
    Scripts <- MCScripts
    Chunks = {9, 64}
    Foreign = {1, 5, 7, 9, 13, 20, 29, 48}
    Capacity = 64
INVARIANTS
    DeliveredAsSent
    CanonicalFrames
PROPERTIES
    ReceiverReturns
CHECK_DEADLOCK FALSE
