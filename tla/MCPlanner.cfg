CONSTANTS
    MsPerSec = 10
    NsPerMs = 10
    BlockDuration = 80
    Times <- MCTimes
    Intervals <- MCIntervals
    SampleTimes <- MCSampleTimes
    StaleTimes <- MCStaleTimes
    LateTimes <- MCLateTimes
    NaNTimes <- MCNaNTimes
    maxQueryRetryAttempts = 2
SPECIFICATION ExecSpec
INVARIANTS
    ExecInv
    RangeIsPlanned
    MigratedOnceUnlessLate
    OnlyNaNLeavesGaps
PROPERTIES
    ChunksInOrder
    JobEnds
