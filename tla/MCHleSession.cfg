CONSTANTS
    CellBase = 128
    MaxCell = 109
    Readable <- MCReadable
    Writable <- MCWritable
    Executable <- MCExecutable
    CodeAlign = 16
    LowWidth = 2
    HighWidth = 3
    Undecodable <- MCUndecodable
    InitialMemories <- MCInitialMemories
    InitialContext <- MCInitialContext
    GuestEffects <- MCGuestEffects
    GuestStops <- MCGuestStops
    Bindings <- MCBindings
    MaxGateStops = 2
SPECIFICATION Spec
INVARIANT EventsChain
PROPERTIES PreparedHeadersAreRefused HandlersAreExact
CHECK_DEADLOCK FALSE
