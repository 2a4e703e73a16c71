CONSTANTS
    Queriers = {q1, q2}
    r1 = r1
    r2 = r2
    Requests = {r1, r2}
    MaxChunks <- MCMaxChunks
    attempts = 1
SPECIFICATION FairSpec
INVARIANTS
    RemoteInv
    NoSendOnClosed
    CompleteUnlessCancelled
PROPERTIES
    QueriesEnd
    StopEnds
