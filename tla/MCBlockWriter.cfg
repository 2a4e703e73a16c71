CONSTANTS
    NumBlocks = 3
    PlanLen <- MCPlanLen
    NumCPU = 259
    parallelism = 4
SPECIFICATION FairSpec
INVARIANTS
    WriterInv
    BlockBarrier
    NoAddAfterClose
PROPERTIES
    InPlanOrder
    ImplementsPlannedWrite
    EverybodyStops
