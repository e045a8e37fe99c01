SPECIFICATION Spec
CONSTANTS
    MaxWord = 65535
    WaveLanes = 1
    SignificandBits = 3
    ExponentBits = 3
    CaseFamilies <- MCCaseFamilies
INVARIANTS AddsAreExact ProbeDrawsTheExport
PROPERTY BlocksFollowTheProgram
CHECK_DEADLOCK FALSE
