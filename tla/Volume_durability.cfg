SPECIFICATION Spec
CONSTANTS
    Blocks = {0,1}
    ChunkBlocks = 1
    MaxSeqNum = 2
    MaxFaults = 2
    MaxOpens = 3
INVARIANTS TypeOK FlushedSurvives SeqNumCoversMap ChunkIDsFresh
PROPERTIES LoadedAdvances VolumeIsDisk
CHECK_DEADLOCK FALSE
