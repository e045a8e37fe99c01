CONSTANTS
    MaxWord = 16383
    AddressWord = 128
    MaxPitchBytes = 1023
    MaxUpdateBytes = 8
    MaxWordCount = 100
    LastRecord = 40
    MaxShaders = 2
    MaxRanges = 3
    MaxViews = 2
    Goals <- MCGoals
    Submissions <- MCSubmissions
    Shaders <- MCShaders
    LinkCalls <- MCLinkCalls
    Allocations <- MCAllocations
    Buffers <- MCBuffers
    Resized <- MCResized
    LinkWritable <- MCLinkWritable
SPECIFICATION Spec
INVARIANTS AcceptedWorkFitsTheExecutors LinkReportsWhatItWrote
PROPERTY PlannedDrawIsTheSubmittedOne
CHECK_DEADLOCK FALSE
