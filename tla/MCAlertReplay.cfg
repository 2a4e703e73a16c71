CONSTANTS
    Series = {s1, s2}
    maxChunkDuration = 2
    MaxTime = 4
    Ends <- MCEnds
    Intervals <- MCIntervals
    HoldDurations <- MCHoldDurations
    Limits <- MCLimits
    resolvedRetention = 1
SPECIFICATION FairSpec
INVARIANTS
    ReplayInv
    ReplayIsFaithful
    NoFiringMissed
PROPERTIES
    Termination
\* The test is over.
CHECK_DEADLOCK FALSE
