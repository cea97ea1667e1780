SPECIFICATION FairSpec
CONSTANTS
    Company = {c1, c2}
    Canvas = {k1, k2}
    NoCanvas = NoCanvas
    MaxRetries = 1
    Faults = {"crash", "duplicate", "refusal", "raise"}
    MaxFaults = 1
    EmptyRetries = FALSE
CHECK_DEADLOCK FALSE
INVARIANTS
    RunSound
PROPERTIES
    ResultsFinal
    SummaryCatchesUp
    RunEnds
