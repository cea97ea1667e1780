SPECIFICATION Spec
CONSTANTS
    c1 = c1
    c2 = c2
    q1 = q1
    v1 = v1
    w1 = w1
    d1 = d1
    m1 = m1
    m2 = m2
    t1 = t1
    t2 = t2
    Company = {c1, c2}
    Period = {1}
    Batch = {q1, v1, w1, d1}
    DatasetOf <- MCDatasetOf
    PeriodOf <- MCPeriodOf
    FilesOf <- MCFilesOf
    Metrics <- MCMetrics
    Master = {m1, m2}
    MasterOf <- MCMasterOf
    Event <- MCEvent
    SetKey = {k1, k2}
    MinMembers = 1
    Client = {t1, t2}
    Unknown = Unknown
    NoItem = NoItem
    None = None
SYMMETRY Symmetry
CHECK_DEADLOCK FALSE
INVARIANTS
    PublicationSound
PROPERTIES
    PublishedStays
