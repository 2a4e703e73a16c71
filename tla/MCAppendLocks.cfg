CONSTANTS
    NumConsumers = 3
    MaxAdds = 2
SPECIFICATION FairSpec
INVARIANTS
    LocksInv
    KilledOnlyByErrors
PROPERTIES
    AppendersClosed
\* A mutex that was spoilt may leave a consumer asleep for good.
CHECK_DEADLOCK FALSE
