SPECIFICATION Spec
CONSTANTS
    Run = {1, 2, 3}
    Monitor = {m1, m2}
    Executor = {t1, t2}
    Reviewer = {w1, w2}
    GroupTax = {w2}
    None = None
    MaxActions = 4
SYMMETRY Symmetry
CHECK_DEADLOCK FALSE
INVARIANTS
    TypeOK
    CaseBacksAlert
    SummaryIsNewest
    TrailConnected
PROPERTIES
    VersionCounts
