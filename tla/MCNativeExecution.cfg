SPECIFICATION Spec
CONSTANTS
    Callers = {c1, c2}
    GuestSignals <- MCSignals
    Images <- MCImages
    HalfBase = 4
    Stride = 2
    PageSize = 2
    Granularity = 4
    Headroom = 2
    Denied <- MCDenied
    X32Bit = 8
    LegacyFirst = 5
    LegacyEnd = 6
    Numbers = {0, 3, 5, 9}
    FaultPoints = {0, 3, 6, 7, 8, 9}
    NoCaller = NoCaller
SYMMETRY CallerSymmetry
INVARIANTS
    NothingLeftBehind
    HostFaultsReachHost
    FilterDecides
    SyscallsReported
    FailedRestorationIsReported
CHECK_DEADLOCK FALSE
