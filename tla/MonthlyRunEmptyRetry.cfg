SPECIFICATION FairSpec
CONSTANTS
    Company = {c1}
    Canvas = {k1}
    NoCanvas = NoCanvas
    MaxRetries = 1
    Faults = {}
    MaxFaults = 0
    EmptyRetries = TRUE
CHECK_DEADLOCK FALSE
PROPERTIES
    RunEnds
