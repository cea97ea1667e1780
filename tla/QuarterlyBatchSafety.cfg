SPECIFICATION Spec
CONSTANTS
    Company = {c1, c2}
    Canvas = {k1, k2}
    NoCanvas = NoCanvas
    MaxRetries = 1
    MaxFaults = 1
    Faults = {"crash", "duplicate", "partial", "scope"}
SYMMETRY Symmetry
CHECK_DEADLOCK FALSE
INVARIANTS
    TypeOK
    TerminalMeansSettled
    TerminalSummaryExact
    OutputBacked
    AttemptIsolated
PROPERTIES
    ResultsFinal
    RetryOwnershipKept
    KeepsContract
