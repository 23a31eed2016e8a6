SPECIFICATION Spec
CONSTANTS
    Blocks = {0, 1}
    ChunkBlocks = 2
    MaxSeqNum = 3
    MaxFaults = 0
    MaxOpens = 2
INVARIANTS ReplayKeepsRecords
CHECK_DEADLOCK FALSE
