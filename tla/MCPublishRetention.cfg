CONSTANTS
    NumRuns = 1
    MaxPieces = 3
    MaxTime = 1
    Retention = 1
SPECIFICATION Spec
INVARIANTS
    EverythingIsPublished
