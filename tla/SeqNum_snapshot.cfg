SPECIFICATION SnapSpec
CONSTANTS
    Writers = {w1, w2}
    Nobody = Nobody
    Window = 2
    MaxSeqNum = 3
    MaxBatch = 2
    SeqBound = 3
    MaxMints = 1
    MaxSnaps = 1
INVARIANTS SnapNonceUnique
PROPERTY DurableNeverRegresses
CHECK_DEADLOCK FALSE
