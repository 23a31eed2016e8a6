SPECIFICATION Spec
CONSTANTS
    NumBlocks = 4
    ChunkBlocks = 3
    Workers = 2
    Writers = 2
    MaxSeqNum = 4
    MaxFaults = 1
    MaxOpens = 1
INVARIANTS TypeOK ExtentsDisjoint MapFindsSealedBlock RefcountExact NewestWriteWins CheckpointRoundTrip
PROPERTY SeqNumAdvances
CHECK_DEADLOCK FALSE
