SPECIFICATION Spec
CONSTANTS
    Writers = {w1, w2}
    Uploader = Uploader
    Free = Free
    Blocks = {0, 1}
    MaxReq = 2
    High = 2
    MaxFailures = 2
    FaultKinds = {"rmw", "flush", "rotate", "upload", "save", "nospace", "pressure"}
    MaxUnits = 3
    MaxFaults = 1
INVARIANTS TypeOK CounterExact BufferBounded
PROPERTIES WaitEnds WritesResume
CHECK_DEADLOCK FALSE
