CONSTANTS
    Consumers = {c1, c2}
    Chunks <- MCChunks
    Rules = {r1}
    MaxSeries = 3
    MaxPoints = 2
SPECIFICATION FairSpec
INVARIANTS
    IteratorInv
PROPERTIES
    CompleteEntry
    RunReturns
