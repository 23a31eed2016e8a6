SPECIFICATION Spec
CONSTANTS
    Blocks = {b1}
    Kinds = {}
    MaxObj = 4
    MaxOpens = 1
    MaxSnaps = 0
    MaxFaults = 0
INVARIANTS NoDanglingReference
CHECK_DEADLOCK FALSE
