SPECIFICATION LinkSpec
CONSTANTS
    MaxAddress = 31
    FileSize = 16
    Programs <- MCPrograms
    Settings <- MCSettings
    Granularity = 4
    Counts = {1, 2, 3, 5}
    RelSize = 1
    RelaSize = 2
    SymbolSize = 2
    MaxBuckets = 2
    MaxBloomWords = 2
    MaxSymbols = 4
    ByteBase = 6
    WordSize = 2
    GateStride = 2
    MaxArguments = 1
    MaxRelativePatches = 2
    MaxImportPatches = 2
    MaxModules = 2
    MaxDependencies = 2
    MaxExports = 2
    InvalidKeys = {""}
    Biases = {30}
    Slots = {0, 1}
    MaxBatches = 2
INVARIANTS
    BuiltImageInitializes
    PlanIsExact
    AccessesAreExact
    LinkedWordsAreExact
CHECK_DEADLOCK FALSE
