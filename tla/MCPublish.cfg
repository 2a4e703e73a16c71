CONSTANTS
    NumRuns = 2
    MaxPieces = 3
    MaxTime = 1
    Retention = 1
SPECIFICATION Spec
INVARIANTS
    DirectoryInv
    OutputIsFinishedWork
    DoneMeansPublished
    NothingLostBeforeNextRun
