SPECIFICATION SnapSpec
CONSTANTS
    Writers = {w1, w2}
    Nobody = Nobody
    Window = 2
    MaxSeqNum = 5
    MaxBatch = 2
    SeqBound = 5
    MaxMints = 1
    MaxSnaps = 1
INVARIANTS IssuedBelowDurable
CHECK_DEADLOCK FALSE
