SPECIFICATION RecordSpec
CONSTANTS
    doc1 = doc1
    doc2 = doc2
    sap1 = sap1
    sap2 = sap2
    co1 = co1
    co2 = co2
    monthly1 = monthly1
    monthly2 = monthly2
    quarterly = quarterly
    Document = {doc1, doc2}
    Voucher = {sap1, sap2}
    NoVoucher = NoVoucher
    Detected <- MCDetected
    ExactLink <- MCExactLink
    Label = {"misclassified", "insufficient", "reasonable"}
    Suspicious = {"misclassified"}
    Insufficient = {"insufficient"}
    Client = {w1, w2}
    MaxCaseVersion = 2
    BaseRows <- MCBaseRows
    ReportCompanies <- MCReportCompanies
    AlertMonitor <- MCMonitor
    MonitorScope <- MCMonitorScope
    Cadence <- MCCadence
    Report = {1, 2}
    MonthOf <- MCMonthOf
    Alert <- MCAlert
    MaxPerMonitor = 1
    BatchLimit = 1
    Script = {w1, w2}
    MaxScriptRuns = 3
    Grain = 2
    RateScale = 10
    AmountLimit = 35
    StoredScale = 20
    RuleCode = {"QUARTERLY_V1", "QUARTERLY_V3"}
    Choice <- MCChoice
    LastQuarter = 2
    claim1 = claim1
    claim2 = claim2
    ReimbursementRows <- MCReimbursement
    AllocationRows <- MCAllocation
    ExcludedCode = {"X"}
    NotApproved = 99
    HesiLimit = 8
    ContextRange = 5
    Radix = 2
    MaxDelivered = 5
    MaxRepeats = 2
    LastQuarterEnd = 6
    ProfitRow <- MCProfitRow
    TurnoverRow <- MCTurnoverRow
    BalanceRow <- MCBalanceRow
    DetailRow <- MCDetailRow
    BatchCurrency = "CNY"
    SapLimit = 6
    MaxSapRows = 3
    FirmCode = {co1, co2}
    Content <- MCContent
    NoContent = NoContent
    Importer = {w1, w2}
    Asked = {"monthly"}
    TotalLimit = 5
    MaxImports = 2
    ann = ann
    Ann = Ann
    bob = bob
    Scope <- MCScope
    Dictionary <- MCDictionary
    Artifact <- MCArtifact
    ArtifactType = {"MODEL", "PROMPT"}
    Governed = {co1, co2}
    Person = {ann, Ann, bob}
    Folded <- MCFolded
    Publisher = {w1, w2}
    NoUpload = NoUpload
    MasterUpload <- MCMasterUpload
    MasterSender = {ann, Ann, bob}
    SameSender <- MCSameSender
    FirmState <- MCFirmState
    FirstState <- MCFirstState
    Clerk = {w1, w2}
    Reviewer = {w1, w2}
    NoMasterUpload = NoMasterUpload
    MaxMembers = 3
    MaxMemberSize = 6
    MaxTotalSize = 8
    MaxRatio = 4
    MaxSheetRows = 3
    MaxSheetCells = 6
    LossLimit = 5
    OpenEnd = 4
    MaxMasterUploads = 2
    LedgerWriter = {w1, w2}
    FirstTable <- MCFirstTable
    RecordId = {1, 2, 3, 4}
    NoRecordId = 0
    LedgerPage = 2
    MaxLedgerPages = 2
    MaxLedgerEdits = 1
    LedgerFaults = {"error", "lost", "silent", "ignored"}
    MaxLedgerFaults = 1
    RefundWorkbook <- MCRefundWorkbook
    RefundYear = {1, 2}
    Taxpayer = {"t1", "t2"}
    Uploader = {w1, w2}
    GivenVersion = {named}
    NoRefundBook = NoRefundBook
    Permit = 1
    MaxBookSize = 1
    FloatGrain = 2
    CentGrain = 10
    MaxRefundUploads = 3
    DrillStages <- MCDrillStages
    CheckedStage = {"decide"}
    BundleStage = {"deploy"}
    Bundle = {"release1", "release2"}
    ChangeId = {g1}
    Drill = {w1, w2}
    NoDrillFile = NoDrillFile
    MaxDrillRuns = 2
    MaxDrillFaults = 1
    SignInName = {ann, Ann, bob}
    FoldedName <- MCFolded
    SignInAddress = {"here"}
    Accounts <- MCAccounts
    SupportedRole = {"tax", "audit"}
    FeishuUser <- MCFeishuUser
    OwnTenant = 1
    LandingPage = {"/cases", "elsewhere"}
    SafePage = {"/cases"}
    Tab = {w1, w2}
    SignInThread = {w1, w2}
    NoCookie = NoCookie
    MaxFailures = 1
    FailureWindow = 1
    SessionTtl = 1
    TransactionTtl = 1
    LastTick = 2
    MaxSignIns = 3
    CompanyTable <- MCCompanyTable
    CompanyPage = 2
    MaxCompanyPages = 4
    MaxCompanyRows = 5
    MaxTableChanges = 2
    Books <- MCBooks
    ThroughMonth = 2
    LimitUnit = 10
    LimitOf <- MCLimitOf
    MaxAdjustmentFaults = 2
    RefundFirm <- MCRefundFirm
    CentUnit = 10
    MaxValidationFaults = 2
    FirmOrder <- MCFirmOrder
    BaseFirms <- MCBaseFirms
    Findings <- MCFindings
    Validator = {w1, w2}
    NoReportFile = NoReportFile
    MaxReportRuns = 3
    MaxBaseChanges = 1
SYMMETRY Symmetry
PROPERTIES
    SemanticSound
    AlertSound
    VerdictsSound
    MetricsSound
    ImportSound
    GovernanceSound
    FilesSound
\* Cases may all be merged, script runs and quarters are bounded.
CHECK_DEADLOCK FALSE
