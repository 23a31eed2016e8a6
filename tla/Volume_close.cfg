SPECIFICATION Spec
CONSTANTS
    Blocks = {0, 2}
    ChunkBlocks = 1
    MaxSeqNum = 3
    MaxFaults = 1
    MaxOpens = 2
INVARIANTS CloseKeepsRecords
CHECK_DEADLOCK FALSE
