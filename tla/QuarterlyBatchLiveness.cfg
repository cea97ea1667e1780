SPECIFICATION FairSpec
CONSTANTS
    Company = {c1, c2}
    Canvas = {k1, k2}
    NoCanvas = NoCanvas
    MaxRetries = 1
    MaxFaults = 1
    Faults = {"crash"}
CHECK_DEADLOCK FALSE
INVARIANTS
    RetryNotOrphaned
PROPERTIES
    BatchEnds
