SPECIFICATION FairSpec
CONSTANTS
    Writeback = {w1}
    Task = {t1, t2}
    NoWriteback = NoWriteback
    MaxRetries = 1
    Faults = {"crash", "database", "response", "refusal", "unconfigured"}
    MaxFaults = 3
CHECK_DEADLOCK FALSE
INVARIANTS
    TypeOK
    SuccessIsReal
    OneOwner
PROPERTIES
    SuccessIsFinal
    Ends
