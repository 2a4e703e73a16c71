CONSTANTS
    Consumers = {c1, c2}
    NumBlocks = 3
    ChunksPerBlock = 2
    SamplesPerChunk = 1
SYMMETRY ConsumerSymmetry
SPECIFICATION StateSpec
INVARIANTS
    StateInv
