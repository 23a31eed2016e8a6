SPECIFICATION Spec
CONSTANTS
    NumBlocks = 2
    ChunkBlocks = 2
    Writers = 2
    MaxSeqNum = 5
INVARIANTS TypeOK ReadsFresh ReadsOpen SpliceKeepsNewest IndexesAgree
CHECK_DEADLOCK FALSE
