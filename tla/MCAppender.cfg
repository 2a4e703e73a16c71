CONSTANTS
    Timestamps <- MCTimestamps
    MaxCalls = 4
    maxSamplesInMemory = 2
    blockFlushDuration = 2
SPECIFICATION AppenderSpec
INVARIANTS
    AddInv
    MemoryBounded
    LossOnlyBetweenFlushes
