SPECIFICATION Spec
CONSTANTS
    Writers = {w1, w2}
    Nobody = Nobody
    Window = 2
    MaxSeqNum = 6
    MaxBatch = 2
    SeqBound = 6
    MaxMints = 1
    MaxSnaps = 0
INVARIANTS TypeOK NonceUnique IssuedBelowDurable SealedUuidIsDurable
PROPERTY DurableNeverRegresses
CHECK_DEADLOCK FALSE
