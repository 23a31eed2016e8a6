SPECIFICATION Spec
CONSTANTS
    Blocks = {0}
    Halves = {low, high}
    Encrypted = FALSE
    MaxSources = 2
    MaxVolumes = 3
    MaxWrites = 2
    MaxChunks = 3
    MaxSnaps = 2
    MaxStops = 1
    MaxFaults = 1
SYMMETRY Symmetry
INVARIANTS TypeOK CloneReads SnapshotFaithful
PROPERTY SnapshotFrozen
CHECK_DEADLOCK FALSE
