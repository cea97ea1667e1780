SPECIFICATION ServiceSpec
CONSTANTS
    Delivery = {w1, w2}
    Downloader = {c1, c2}
    MaxCaseState = 2
    ExportFaults = {"crash", "database", "render", "audit", "duplicate", "dispatch"}
    MaxExportFaults = 3
    Request = {q1}
    Reader = {w1, w2, w3}
    Remote = {w3}
    NoReader = NoReader
    Permits = 1
    MaxAttempts = 2
    MaxSource = 2
    FetchFaults = {"stall", "crash", "corrupt", "cache", "source"}
    MaxFetchFaults = 1
    Fetcher = {w1, w2}
    NoFetcher = NoFetcher
    SourceTable <- MCSourceTable
    PageSize = 2
    MaxRecords = 4
    MaxPages = 3
    MaxTokenEnds = 1
    DgcFaults = {"short", "change", "error", "iam"}
    MaxDgcFaults = 1
    Books <- MCBooks
    NoRef = NoRef
    Attempt = {w1, w2}
    MaxTaskRetries = 1
    TaskFaults = {"gate", "answer", "technical", "stop", "company"}
    MaxTaskFaults = 1
INVARIANTS
    DgcSound
PROPERTIES
    ExportSound
    FetchSound
    EntertainmentSound
    ServicesEnd
\* Jobs are done, calls have returned and fetches have ended.
CHECK_DEADLOCK FALSE
