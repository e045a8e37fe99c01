SPECIFICATION Spec
SYMMETRY SlotAndKeySymmetry
CONSTANTS
    MaxAddress = 13
    FileSize = 1
    Slots = {s1, s2}
    Guests <- MCGuests
    PageSize = 2
    Granularity = 4
    MaxEpoch = 3
    MaxGeneration = 3
    MaxActive = 2
    Keys = {k1, k2}
    PatchWidth = 2
    Targets = {6, 8, 9, 10}
    HostPages = {4}
    MaxBatch = 2
    MaxPreparations = 2
INVARIANTS
    PagesHaveOneOwner
    AccessIsBacked
    BindingsAreLive
