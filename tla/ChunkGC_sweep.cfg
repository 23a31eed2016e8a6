SPECIFICATION Spec
CONSTANTS
    Blocks = {b1, b2}
    Kinds = {"own", "daemon"}
    MaxObj = 3
    MaxOpens = 2
    MaxSnaps = 1
    MaxFaults = 1
SYMMETRY BlockSymmetry
INVARIANTS TypeOK  SnapshotChunksExist IDsNotReissued
PROPERTY FallbackSpared
CHECK_DEADLOCK FALSE
