CONSTANTS
    MaxWord = 63
    MaxUpdateBytes = 8
    Hosts <- MCHosts
    Requests <- MCRequests
SPECIFICATION Spec
INVARIANTS ResourcesAreReleased ReadbackIsExact
CHECK_DEADLOCK FALSE
