------------------------------ MODULE MCRecords ------------------------------
(***************************************************************************)
(* Parts that keep records and share none of them: the semantic cases, the *)
(* tables of alerts in Feishu, the quarterly formulas, the figures read    *)
(* from Hesi and SAP, the batches they are imported in, the versions that  *)
(* are governed, the workbooks that are uploaded, the Feishu table of      *)
(* refunds, the rollback drill, signing in, the tax adjustment check and   *)
(* the validation scripts with their files.  A behaviour is one of a       *)
(* single part, the subject; the others stay as they begin.                *)
(***************************************************************************)
EXTENDS SemanticCase, AlertTables, QuarterlyCalculation, HesiNoInvoice, SapMetrics,
        SourceImport, Governance, MasterWorkbook, LedgerTable, RefundBook,
        RollbackDrill, CompanyReader, TaxAdjustment, FullValidation,
        ValidationReport, TLC

CONSTANTS doc1, doc2, sap1, sap2, co1, co2, monthly1, monthly2, quarterly,
          claim1, claim2, ann, Ann, bob

VARIABLE subject \* the part that runs

figureVars == <<hesiVars, sapVars, companyVars, adjustmentVars, fullVars>>
fileVars == <<workbookVars, ledgerVars, refundBookVars, drillVars, reportVars>>
stateVars == <<semanticVars, alertVars, calculationVars, importVars, versionVars, signInVars>>

recordVars == <<stateVars, figureVars, fileVars, subject>>

\* The first document is seen alone, the second alone and with a voucher; each
\* has exact evidence for a voucher of its own, which is not the one seen.
MCDetected ==
    {[document |-> doc1, voucher |-> NoVoucher], [document |-> doc2, voucher |-> NoVoucher],
     [document |-> doc2, voucher |-> sap1]}
MCExactLink ==
    {[document |-> doc1, voucher |-> sap1], [document |-> doc2, voucher |-> sap2]}

\* One company is linked, the other has two rows.  The first report has two
\* monthly alerts of the one, the second only one of them and one of the other.
MCBaseRows ==
    <<[company |-> co1, record |-> TRUE], [company |-> co2, record |-> TRUE],
      [company |-> co2, record |-> TRUE]>>
MCReportCompanies == <<co2, co1>>
MCMonitor == {monthly1, monthly2, quarterly}
MCMonitorScope == {MCMonitor, {monthly1}}
MCCadence == [m \in MCMonitor |-> IF m = quarterly THEN "quarter" ELSE "month"]
MCMonthOf == [r \in {1, 2} |-> 1]
MCAlert ==
    {[report |-> 1, company |-> co1, monitor |-> monthly1, result |-> 1],
     [report |-> 1, company |-> co1, monitor |-> monthly2, result |-> 1],
     [report |-> 2, company |-> co1, monitor |-> monthly1, result |-> 1],
     [report |-> 2, company |-> co2, monitor |-> quarterly, result |-> 1]}

\* Amounts around zero, the threshold and the limit of a column, odd ones for
\* the rounding.
MCChoice ==
    [taxRate |-> {1, 3}, deferredRate |-> {1}, averageBurden |-> {2}, loss |-> {0, 5},
     profit |-> {-7, 9, 33}, dividends |-> {0, 3}, fairValue |-> {-2}, currentTax |-> {4},
     revenue |-> {0, 21}, accruals |-> {7}, noInvoice |-> {3}, deferredExpense |-> {2}]

\* A claim with an invoice whose type the amounts tell, one whose rows are equal
\* in amount but not in type; lines of an excluded type, of another quarter, not
\* approved, taken back and not readable.  In these tables an amount of zero
\* stands for one that cannot be read.
Line(c, month, code, x, readable) ==
    [claim |-> c, approved |-> month, code |-> code, amount |-> x, readable |-> readable]
InvoiceRow(c, invoice, type, expense, x) ==
    [claim |-> c, invoice |-> invoice, typeId |-> type, line |-> expense, amount |-> x,
     readable |-> x # 0]
MCReimbursement ==
    <<Line(claim1, 2, "B", 3, TRUE), Line(claim1, 2, "A", 3, TRUE), Line(claim1, 5, "B", 2, TRUE),
      Line(claim1, 2, "X", 2, TRUE), Line(claim2, 5, "B", 2, TRUE), Line(claim2, 5, "A", -1, TRUE),
      Line(claim2, 99, "B", 1, TRUE), Line(claim2, 2, "B", 1, FALSE)>>
MCAllocation ==
    <<InvoiceRow(claim1, 1, 1, 3, 1), InvoiceRow(claim1, 1, 2, 2, 3), InvoiceRow(claim1, 2, 1, 9, 4),
      InvoiceRow(claim2, 3, 1, 2, 1)>>

\* Rows that are equal in metric and not in value, of another company, ledger or
\* month, of both signs and two currencies.
ProfitLine(ledger, company, x) ==
    [ledger |-> ledger, company |-> company, metric |-> "profit", month |-> 3, amount |-> x,
     readable |-> x # 0]
MCProfitRow ==
    {ProfitLine("main", "own", 1), ProfitLine("main", "own", 2), ProfitLine("main", "own", 0),
     ProfitLine("main", "other", 2), ProfitLine("other", "own", 2)}
TurnoverLine(month, debit, credit, readable) ==
    [month |-> month, debit |-> debit, credit |-> credit, readable |-> readable]
MCTurnoverRow ==
    {TurnoverLine(3, 2, -1, TRUE), TurnoverLine(4, 3, 0, TRUE), TurnoverLine(7, 0, -4, TRUE),
     TurnoverLine(4, 0, 0, FALSE)}
BalanceLine(month, account, x) ==
    [month |-> month, account |-> account, closing |-> x, readable |-> x # 0]
MCBalanceRow ==
    {BalanceLine(3, "payable", -3), BalanceLine(3, "payable", 2), BalanceLine(6, "payable", -1),
     BalanceLine(6, "deferred", 2), BalanceLine(6, "payable", 0)}
DetailLine(month, account, worded, currency, x) ==
    [month |-> month, account |-> account, worded |-> worded, currency |-> currency, amount |-> x,
     readable |-> x # 0]
MCDetailRow ==
    {DetailLine(2, "dividend", TRUE, "CNY", -3), DetailLine(5, "dividend", TRUE, "USD", -1),
     DetailLine(5, "dividend", FALSE, "USD", -2), DetailLine(5, "dividend", TRUE, "CNY", 3),
     DetailLine(5, "taxExpense", FALSE, "CNY", 3), DetailLine(5, "taxPayable", FALSE, "CNY", 0)}

\* A source with a wrong header, one without rows, one with every fault and a
\* repeated key, one whose total depends on who is active.
SourceRow(key, company, x, fault) ==
    [key |-> key, company |-> company, amount |-> x, fault |-> fault]
MCContent ==
    {[header |-> FALSE, rows |-> <<SourceRow(1, co1, 1, "none")>>],
     [header |-> TRUE, rows |-> <<>>],
     [header |-> TRUE, rows |-> <<SourceRow(1, co1, 2, "mismatch"), SourceRow(1, co2, 1, "none"),
                                  SourceRow(2, co2, 1, "unreadable"), SourceRow(2, co2, 3, "none"),
                                  SourceRow(3, co1, 2, "none")>>],
     [header |-> TRUE, rows |-> <<SourceRow(1, co1, 2, "none"), SourceRow(2, co2, 2, "none")>>]}

\* Scopes that share a day, one with a company more; dictionaries that share a
\* name or a day; artifacts that share a name or a day, sent under one name in
\* two spellings.
MCScope ==
    {[by |-> ann, from |-> 1, to |-> 2, companies |-> {co1}],
     [by |-> bob, from |-> 2, to |-> 3, companies |-> {co1, co2}],
     [by |-> ann, from |-> 3, to |-> 3, companies |-> {co2}]}
MCDictionary ==
    {[by |-> ann, from |-> 1, to |-> 2, name |-> 1], [by |-> bob, from |-> 2, to |-> 3, name |-> 1],
     [by |-> bob, from |-> 3, to |-> 3, name |-> 2]}
MCArtifact ==
    {[by |-> ann, from |-> 1, to |-> 2, name |-> 1, type |-> "MODEL"],
     [by |-> bob, from |-> 1, to |-> 2, name |-> 1, type |-> "MODEL"],
     [by |-> Ann, from |-> 2, to |-> 3, name |-> 2, type |-> "MODEL"],
     [by |-> bob, from |-> 1, to |-> 3, name |-> 1, type |-> "PROMPT"]}
MCFolded == [p \in {ann, Ann, bob} |-> IF p = bob THEN bob ELSE ann]

MCDrillStages == <<"deploy", "decide">>

\* One address in two spellings.  Workbooks with every kind of fault; the sizes
\* are small numbers around the limits.
MCSameSender == MCFolded
MasterRow(company, from, to, loss, fault) ==
    [company |-> company, name |-> 1, from |-> from, to |-> to, loss |-> loss, fault |-> fault]
WorkSheet(declared, cells) ==
    [declaredRows |-> declared, declaredCells |-> 0, rows |-> <<1, 2>>, cells |-> cells]
SquareCells == {[column |-> x, row |-> y] : x \in 1 .. 2, y \in 1 .. 2}
FiledBook(rows) ==
    [members |-> <<[name |-> "types", size |-> 1, packed |-> 1],
                   [name |-> "sheet", size |-> 4, packed |-> 1]>>,
     sheetIds |-> {1}, types |-> {"sheet"},
     relations |-> {[id |-> 1, kind |-> "worksheet", part |-> "sheet", external |-> FALSE]},
     sheets |-> [p \in {"sheet"} |-> WorkSheet(0, SquareCells)], header |-> TRUE, rows |-> rows]
MCOneRow == FiledBook(<<MasterRow(co1, 1, 0, 2, "none")>>)
MCTwoRows == FiledBook(<<MasterRow(co1, 2, 3, 1, "none"), MasterRow(co2, 2, 0, 1, "none")>>)
MCFaultyRows == FiledBook(<<MasterRow(co1, 1, 2, 1, "none"), MasterRow(co1, 3, 1, 2, "none")>>)
MCBook ==
    {MCOneRow, MCTwoRows, MCFaultyRows,
     \* Periods that meet, the earlier row without an end; rows of which some are
     \* not read, the last blank; one blank between.
     FiledBook(<<MasterRow(co1, 1, 0, 1, "none"), MasterRow(co1, 2, 2, 1, "none")>>),
     FiledBook(<<MasterRow(co1, 1, 1, 1, "uncached"), MasterRow(co2, 1, 1, -1, "none"),
             MasterRow(co2, 1, 1, 0, "blank")>>),
     FiledBook(<<MasterRow(co1, 1, 1, 1, "none"), MasterRow(co1, 1, 1, 0, "blank"),
             MasterRow(co2, 1, 1, 1, "none")>>),
     FiledBook(<<MasterRow("unknown", 1, 1, 2, "none"), MasterRow(co1, 1, 1, 3, "none")>>),
     FiledBook(<<>>), [MCOneRow EXCEPT !.header = FALSE],
     \* Too long, packed too well, without its sheet, spread too wide.
     [MCOneRow EXCEPT !.members[2].size = 9], [MCOneRow EXCEPT !.members[2].packed = 0],
     [MCOneRow EXCEPT !.types = {}], [MCOneRow EXCEPT !.relations = {}],
     [MCOneRow EXCEPT !.sheets["sheet"] = WorkSheet(4, SquareCells)],
     [MCOneRow EXCEPT !.sheets["sheet"].cells =
         {[column |-> 3, row |-> 1], [column |-> 3, row |-> 2], [column |-> 3, row |-> 3]}]}
MCMasterUpload == {[by |-> ann, name |-> 1, book |-> b] : b \in MCBook}
      \cup {[by |-> Ann, name |-> 1, book |-> MCOneRow],
            [by |-> bob, name |-> 1, book |-> MCTwoRows]}
MCFirmState == [c \in {co1, co2} |->
    IF c = co2 THEN {} ELSE [active : {TRUE}, name : {1, 2}] \cup {[active |-> FALSE, name |-> 1]}]
MCFirstState == [c \in {co1, co2} |-> [active |-> TRUE, name |-> 1]]

\* Tables of up to three entries, of which the company's may be any, may already
\* stand as wanted or may be missing.
LedgerEntry(id, code, status) == [id |-> id, code |-> code, status |-> status]
MCFirstTable ==
    {<<>>, <<LedgerEntry(1, "near", "other"), LedgerEntry(2, "near", "other"),
            LedgerEntry(3, "own", "other")>>,
     <<LedgerEntry(1, "near", "other"), LedgerEntry(2, "own", "wanted")>>,
     <<LedgerEntry(1, "own", "other"), LedgerEntry(2, "near", "other"),
       LedgerEntry(3, "own", "wanted")>>}

\* Workbooks with one or two rows; the amounts are odd ones for the rounding.
RefundRow(company, credit, first, amount, cell, receipt) ==
    [blank |-> FALSE, company |-> company, named |-> TRUE, credit |-> credit,
     involved |-> <<first, "no">>, amount |-> <<amount, amount>>, cell |-> cell, receipt |-> receipt]
BlankRefundRow == [RefundRow("", "", "", 0, "text", "") EXCEPT !.blank = TRUE, !.involved = <<"", "">>]
YearSheet(years, rows) == [years |-> years, rows |-> rows]
RefundFile(rows) == [size |-> 1, sheets |-> <<YearSheet({}, <<>>), YearSheet({1, 2}, rows)>>]
MCRefundWorkbook ==
    {RefundFile(<<RefundRow("t1", "", "yes", 13, "text", ""),
                  BlankRefundRow,
                  RefundRow("t2", "", "yes", 49, "number", "received")>>),
     RefundFile(<<RefundRow("t1", "k1", "yes", 13, "text", ""),
                  RefundRow("t2", "", "no", 0, "text", "")>>),
     [RefundFile(<<RefundRow("t1", "", "yes", 27, "text", ""),
                   [RefundRow("t2", "", "no", 33, "text", "") EXCEPT !.involved = <<"no", "yes">>]>>)
         EXCEPT !.sheets[1].years = {}],
     RefundFile(<<RefundRow("t1", "", "yes", 13, "text", "received")>>),
     RefundFile(<<RefundRow("t1", "", "yes", 13, "text", ""),
                  RefundRow("t1", "", "yes", 16, "text", "")>>),
     RefundFile(<<RefundRow("t1", "", "yes", 13, "text", ""),
                  RefundRow("t2", "", "maybe", 16, "text", "")>>),
     RefundFile(<<RefundRow("t1", "", "yes", 4, "text", "")>>),
     RefundFile(<<RefundRow("t3", "", "yes", 14, "text", "")>>),
     [RefundFile(<<>>) EXCEPT !.size = 2], [RefundFile(<<>>) EXCEPT !.sheets[2].years = {2}]}

\* Accounts that may not be configured: a role nobody knows, a name twice.
MCAccounts ==
    {<<[name |-> Ann, roles |-> {"tax"}]>>,
     <<[name |-> ann, roles |-> {"tax"}], [name |-> bob, roles |-> {"other"}]>>,
     <<[name |-> ann, roles |-> {"tax"}], [name |-> Ann, roles |-> {"tax"}]>>,
     <<[name |-> ann, roles |-> {"tax", "audit"}]>>}
MCFeishuUser ==
    {[id |-> 1, tenant |-> 1, mapped |-> TRUE], [id |-> 2, tenant |-> 1, mapped |-> FALSE],
     [id |-> 3, tenant |-> 2, mapped |-> TRUE]}

\* Tables of whole pages and with a short last one, in another order, with a row
\* of another company, longer than the client takes.
CompanyRow(id) == [id |-> id, own |-> TRUE]
MCCompanyTable ==
    {<<>>, <<CompanyRow(1), CompanyRow(2)>>, <<CompanyRow(1), CompanyRow(2), CompanyRow(3)>>,
     <<CompanyRow(2), CompanyRow(3), CompanyRow(4), CompanyRow(5)>>,
     <<CompanyRow(4), CompanyRow(1), CompanyRow(2)>>,
     <<CompanyRow(1), CompanyRow(2), [id |-> 3, own |-> FALSE]>>, [i \in 1 .. 6 |-> CompanyRow(i)]}

\* Details of every subject, in and out of the months that are checked, with
\* documents that Hesi shows up itself, through an application, or not at all;
\* bases around the limits.
SettledRow(s, m, abnormal, x, document) ==
    [subject |-> s, month |-> m, abnormal |-> abnormal, amount |-> x, document |-> document]
MCSettlements ==
    {<<SettledRow("welfare", 1, TRUE, 3, 0), SettledRow("donation", 2, TRUE, 2, 0),
       SettledRow("business", 2, FALSE, 1, 1)>>,
     <<SettledRow("welfare", 2, FALSE, 2, 0), SettledRow("welfare", 2, TRUE, 2, 0),
       SettledRow("donation", 3, TRUE, 4, 0), SettledRow("welfare", 0, TRUE, 4, 0)>>,
     <<SettledRow("business", 1, FALSE, 1, 1), SettledRow("business", 2, FALSE, 1, 2),
       SettledRow("business", 3, TRUE, 1, 3)>>,
     <<SettledRow("business", 1, TRUE, 1, 0), SettledRow("donation", 2, TRUE, 2, 0),
       SettledRow("donation", 1, FALSE, -1, 0), SettledRow("other", 1, TRUE, 9, 1)>>}
HesiDetail(document, abnormal) == [document |-> document, abnormal |-> abnormal]
HesiInvoice(document, application) == [document |-> document, application |-> application]
HesiApplication(application, abnormal) == [application |-> application, abnormal |-> abnormal]
HesiTables(details, invoices, applications) ==
    [details |-> details, invoices |-> invoices, applications |-> applications]
MCHesiTables ==
    {HesiTables({HesiDetail(1, FALSE)}, {HesiInvoice(1, 7)}, {HesiApplication(7, TRUE)}),
     HesiTables({HesiDetail(1, FALSE), HesiDetail(2, FALSE), HesiDetail(2, TRUE)},
                {HesiInvoice(1, 0), HesiInvoice(3, 7)}, {HesiApplication(7, TRUE)}),
     HesiTables({}, {HesiInvoice(2, 0), HesiInvoice(2, 8)},
                {HesiApplication(7, TRUE), HesiApplication(8, FALSE)})}
ProfitBase(total, x) == [total |-> total, amount |-> x]
MCBooks ==
    {h @@ [settlement |-> s, salary |-> w, profit |-> p, foreign |-> f] :
        s \in MCSettlements, w \in {<<10, 5, 20>>, <<10, 18, 0>>, <<15, 15, 0>>},
        p \in {{}, {ProfitBase(TRUE, 10), ProfitBase(FALSE, 50)}, {ProfitBase(TRUE, -5)},
               {ProfitBase(TRUE, 20)}},
        h \in MCHesiTables,
        f \in {{}, {"settlement"}, {"salary", "applications"}, {"profit", "details"}, {"invoices"}}}
MCLimitOf == [s \in {"welfare", "donation"} |-> 1]

\* Amounts that are equal to the cent or not, in several families and currencies.
BookedLine(kind, currency, x) == [family |-> kind, currency |-> currency, amount |-> x]
MCRefundFirm ==
    [involved : {"yes"}, amount : {104}, status : {"", "received"},
     lines : {<<>>, <<BookedLine("taxExpense", "CNY", 98)>>,
              <<BookedLine("taxExpense", "CNY", 100), BookedLine("taxesPayable", "CNY", 100)>>,
              <<BookedLine("taxExpense", "USD", 100), BookedLine("taxesPayable", "CNY", 95)>>,
              <<BookedLine("taxExpense", "CNY", 100), BookedLine("taxExpense", "CNY", 104)>>,
              <<BookedLine("taxesPayable", "CNY", 95), BookedLine("otherIncome", "CNY", 94)>>}]
    \cup [involved : {"yes"}, amount : {0}, status : {""}, lines : {<<BookedLine("taxExpense", "CNY", 0)>>}]
    \cup [involved : {"no", "unclear"}, amount : {104}, status : {""},
          lines : {<<BookedLine("otherIncome", "CNY", 104)>>}]

\* The second company joins the base; it alerts and is not wholly
\* judged, the first is clear with a candidate.
MCFirmOrder == <<co1, co2>>
MCBaseFirms == {{co1}, {co1, co2}}
CheckedFirm(w, b, x, y) ==
    [status |-> [s \in {"welfare", "business"} |-> IF s = "welfare" THEN w ELSE b],
     candidates |-> [s \in {"welfare", "business"} |-> IF s = "welfare" THEN x ELSE y]]
MCFindings ==
    {[c \in {co1, co2} |-> IF c = co1 THEN CheckedFirm("CLEAR", "CLEAR", 1, 0)
                           ELSE CheckedFirm("ALERT", "ERROR", 1, 0)]}

\* A part that does not run stands in the first of its states; so do the two
\* releases, which are interchangeable.
Standing(part, x, all) == x \in IF subject = part THEN all ELSE {CHOOSE v \in all : TRUE}

RecordInit ==
    /\ subject \in {"semantic", "alerts", "calculation", "hesi", "sap", "import", "versions",
                   "workbook", "ledger", "book", "drill", "signin", "reader", "adjustment",
                   "full", "report"}
    /\ SemanticInit /\ AlertInit /\ CalculationInit /\ HesiInit /\ SapInit /\ ImportInit
    /\ VersionInit /\ WorkbookInit /\ LedgerInit /\ RefundBookInit /\ DrillInit
    /\ subject # "calculation" =>
           /\ rule = "QUARTERLY_V1"
           /\ master = [taxRate |-> 1, deferredRate |-> 1, averageBurden |-> 2, loss |-> 0]
    /\ subject # "import" => channel = "sap"
    /\ subject # "versions" => family = "artifact"
    /\ subject # "ledger" => table = <<>> /\ column = "text" /\ pageLength = 1
    /\ bundle = "release1"
    /\ Standing("signin", accounts, MCAccounts) /\ Standing("signin", entrance, {"password", "feishu"})
    /\ Standing("reader", dataset, Dataset)
    /\ Standing("reader", served, [rows : CompanyTable, longest : 1 .. CompanyPage])
    /\ Standing("adjustment", books, Books)
    /\ Standing("full", taxpayer, RefundFirm)
    /\ baseFirms = {co1}
    /\ (subject = "signin" /\ entrance = "feishu" =>
           accounts = CHOOSE list \in Accounts : Configurable(list))
    /\ SignInInit /\ CompanyInit /\ AdjustmentInit /\ FullInit /\ ReportInit

\* Through Feishu there are no more sign-ins than tabs (a bound).
RecordNext ==
    /\ UNCHANGED subject
    /\ \/ /\ subject = "semantic" /\ SemanticNext
          /\ UNCHANGED <<alertVars, calculationVars, importVars, versionVars, signInVars, figureVars, fileVars>>
       \/ /\ subject = "alerts" /\ AlertNext
          /\ UNCHANGED <<semanticVars, calculationVars, importVars, versionVars, signInVars, figureVars, fileVars>>
       \/ /\ subject = "calculation" /\ CalculationNext
          /\ UNCHANGED <<semanticVars, alertVars, importVars, versionVars, signInVars, figureVars, fileVars>>
       \/ /\ subject = "import" /\ ImportNext
          /\ UNCHANGED <<semanticVars, alertVars, calculationVars, versionVars, signInVars, figureVars, fileVars>>
       \/ /\ subject = "versions" /\ VersionNext
          /\ UNCHANGED <<semanticVars, alertVars, calculationVars, importVars, signInVars, figureVars, fileVars>>
       \/ /\ subject = "signin" /\ SignInNext
          /\ entrance = "feishu" => signIns' <= Cardinality(Tab)
          /\ UNCHANGED <<semanticVars, alertVars, calculationVars, importVars, versionVars, figureVars, fileVars>>
       \/ /\ subject = "hesi" /\ HesiNext
          /\ UNCHANGED <<stateVars, sapVars, companyVars, adjustmentVars, fullVars, fileVars>>
       \/ /\ subject = "sap" /\ SapNext
          /\ UNCHANGED <<stateVars, hesiVars, companyVars, adjustmentVars, fullVars, fileVars>>
       \/ /\ subject = "reader" /\ CompanyNext
          /\ UNCHANGED <<stateVars, hesiVars, sapVars, adjustmentVars, fullVars, fileVars>>
       \/ /\ subject = "adjustment" /\ AdjustmentNext
          /\ UNCHANGED <<stateVars, hesiVars, sapVars, companyVars, fullVars, fileVars>>
       \/ /\ subject = "full" /\ FullNext
          /\ UNCHANGED <<stateVars, hesiVars, sapVars, companyVars, adjustmentVars, fileVars>>
       \/ /\ subject = "workbook" /\ WorkbookNext
          /\ UNCHANGED <<stateVars, figureVars, ledgerVars, refundBookVars, drillVars, reportVars>>
       \/ /\ subject = "ledger" /\ LedgerNext
          /\ UNCHANGED <<stateVars, figureVars, workbookVars, refundBookVars, drillVars, reportVars>>
       \/ /\ subject = "book" /\ RefundBookNext
          /\ UNCHANGED <<stateVars, figureVars, workbookVars, ledgerVars, drillVars, reportVars>>
       \/ /\ subject = "drill" /\ DrillNext
          /\ UNCHANGED <<stateVars, figureVars, workbookVars, ledgerVars, refundBookVars, reportVars>>
       \/ /\ subject = "report" /\ ReportNext
          /\ UNCHANGED <<stateVars, figureVars, workbookVars, ledgerVars, refundBookVars, drillVars>>

RecordSpec == RecordInit /\ [][RecordNext]_recordVars

\* The figures of SAP and Hesi that the imports and the checks use are sound:
\* what is read is what the tables hold, once each, and what is made of it.
MetricsSound ==
    /\ [](subject = "hesi" => NoInvoiceHolds)
    /\ [](subject = "sap" => SapHolds)
    /\ NoInvoiceSteps /\ SapSteps
    /\ [](WholeTable /\ ProfitsAreWhole /\ NoRowOfTheCompanyTwice /\ OwnRowsOnly)

\* What the quarterly formulas, the tax adjustment check and the full validation
\* conclude follows from all the figures they need, and from nothing missing.
VerdictsSound ==
    /\ [](subject = "calculation" => CalculationHolds)
    /\ [](subject = "adjustment" => AdjustmentSound)
    /\ [](subject = "full" => FullSound)
    /\ ReplayKeepsResult

\* What is read from workbooks, from the table of refunds, from the drill's
\* checkpoint and from the files of the checks is what they hold, and what is
\* written is what was asked or done.
FilesSound ==
    /\ WorkbookSound /\ RefundBookSound /\ DrillSound /\ ReportSound
    /\ [](subject = "ledger" => LedgerHolds) /\ OnlyOwnRecord

\* Those that do the same work are interchangeable.  Only one part runs, so the
\* workers of each are the same values, which keeps the permutations few.
Symmetry == Permutations(Clerk)
=============================================================================
