----------------------------- MODULE SapMetrics -----------------------------
(***************************************************************************)
(* The quarterly metrics that are read from four SAP tables for one        *)
(* company and year: the profit statement, the turnover of the current tax *)
(* account, the account balances at the quarter's end and the details of   *)
(* the settlement accounts.  Amounts are integers with SAP's signs.  In a  *)
(* step a table gains a row, or the same row again, or a quarter ends.     *)
(***************************************************************************)
EXTENDS Integers, FiniteSets, FiniteSetsExt

CONSTANTS
    ProfitRow,     \* ledger ("main" or another), company ("own" or another), metric, month,
                   \* amount, readable (of every row: its amounts can be read)
    TurnoverRow,   \* month, debit, credit, readable
    BalanceRow,    \* month, account ("payable", "deferred" or another), closing, readable
    DetailRow,     \* month, account ("dividend", "otherIncome", "taxExpense", "taxPayable"),
                   \* worded (a text that tells of a dividend), currency, amount, readable
    BatchCurrency, \* currency of the batch the metrics are imported into
    SapLimit,      \* the first amount that a NUMERIC column does not hold
    MaxSapRows     \* rows delivered in one behaviour (a bound)

ASSUME SapAssumption == SapLimit \in Nat \ {0} /\ MaxSapRows \in Nat

SapRow == ProfitRow \cup TurnoverRow \cup BalanceRow \cup DetailRow

VARIABLES
    delivered, \* how often each row was delivered
    sapThrough \* last month of the quarter that is imported

sapVars == <<delivered, sapThrough>>

SapInRange(x) == -SapLimit < x /\ x < SapLimit

Present(rows) == {row \in rows : delivered[row] > 0}

\* None of these tables drops a repeated row: it is added as often as it comes.
Added(Amount(_), rows) == MapThenSumSet(LAMBDA row : delivered[row] * Amount(row), rows)

NoMetric(reason) == [status |-> reason]

-----------------------------------------------------------------------------
(* Turnover of the current tax account.                                    *)

\* Mutant: the first month of the quarter counts as one before it.
MutBeforeQuarter(month) == month <= sapThrough - 2

BeforeQuarter(month) == month < sapThrough - 2

\* One row that cannot be read refuses the table.
TurnoverRead == \A row \in Present(TurnoverRow) : row.readable

\* Debits and credits are added with the signs they have.
Turnover ==
    LET present == Present(TurnoverRow)
        reached == {row \in present : row.month <= sapThrough}
        Net(row) == row.debit + row.credit
        prior == Added(Net, {row \in reached : BeforeQuarter(row.month)})
        current == Added(Net, {row \in reached : ~BeforeQuarter(row.month)})
    IN  IF ~TurnoverRead THEN NoMetric("INVALID_RESPONSE_VALUE")
        ELSE IF present # {} /\ reached = {} THEN NoMetric("NO_ROWS_THROUGH_PERIOD")
        ELSE IF ~(SapInRange(prior) /\ SapInRange(current)) THEN NoMetric("AGGREGATE_AMOUNT_OUT_OF_RANGE")
        ELSE [status |-> "adapted", prior |-> prior, current |-> current]

-----------------------------------------------------------------------------
(* Account balances.                                                       *)

\* Mutant: balances on the wrong side are set off.
MutOwed(row) == -row.closing

\* What is owed on an account: a debit balance is no claim on the others.
Owed(row) == IF row.closing < 0 THEN -row.closing ELSE 0

\* A row of another month refuses the table like one that cannot be read.
BalancesRead == \A row \in Present(BalanceRow) : row.readable /\ row.month = sapThrough

Balances ==
    LET present == Present(BalanceRow)
        Closing(row) == row.closing
        payables == Added(Owed, {row \in present : row.account = "payable"})
        deferred == Added(Closing, {row \in present : row.account = "deferred"})
    IN  IF ~BalancesRead THEN NoMetric("DgcSapAccountBalanceError")
        ELSE IF ~(SapInRange(payables) /\ SapInRange(deferred)) THEN NoMetric("AGGREGATE_AMOUNT_OUT_OF_RANGE")
        ELSE [status |-> "adapted", payables |-> payables, deferred |-> deferred]

-----------------------------------------------------------------------------
(* Settlement account details.                                             *)

\* The table is refused as a whole, whatever account is asked for.
DetailsRead == \A row \in Present(DetailRow) : row.readable

Matched(account) ==
    {row \in Present(DetailRow) :
        row.month <= sapThrough /\ row.account = account /\ (account = "dividend" => row.worded)}

Mixed(rows) == Cardinality({row.currency : row \in rows}) > 1

\* Income stands on the credit side: its sign is turned.
Income(account) ==
    LET rows == Matched(account)
        Ksl(row) == row.amount
        amount == -Added(Ksl, rows)
    IN  IF ~DetailsRead THEN NoMetric("DgcSapDividendDetailError")
        ELSE IF Mixed(rows) THEN NoMetric("MIXED_MATCHED_CURRENCIES")
        ELSE IF ~SapInRange(amount) THEN NoMetric("AGGREGATE_AMOUNT_OUT_OF_RANGE")
        ELSE [status |-> "adapted", amount |-> amount, currencies |-> {row.currency : row \in rows}]

\* Mutant: the batch takes the metric whatever its currency.
MutForeignCurrency(currencies) == FALSE

ForeignCurrency(currencies) == currencies # {} /\ currencies # {BatchCurrency}

\* Only the dividends become a metric of the batch.
DividendMetric ==
    LET dividends == Income("dividend")
    IN  IF dividends.status = "adapted" /\ ForeignCurrency(dividends.currencies)
        THEN NoMetric("DGC_RESPONSE_CURRENCY_MISMATCH") ELSE dividends

\* Tax expense and tax payable stay single lines, sign turned.
TaxLines(account) ==
    IF DetailsRead THEN {[row |-> row, amount |-> -row.amount] : row \in Matched(account)} ELSE {}

-----------------------------------------------------------------------------
(* Profit statement.                                                       *)

\* Other ledgers and lines that no metric asks for are skipped.
Classified == {row \in Present(ProfitRow) : row.ledger = "main" /\ row.metric # "none"}

SameMetric(row, other) ==
    row.company = other.company /\ row.month = other.month /\ row.metric = other.metric

\* Mutant: rows that differ are told apart, the same row twice is not.
MutDuplicated(row) == FALSE

\* A metric that two rows give is given by neither, be one of them unreadable.
Duplicated(row) ==
    delivered[row] > 1 \/ \E other \in Classified \ {row} : SameMetric(row, other)

ProfitRowOutcome(row) ==
    IF row.company # "own" THEN "DGC_RESPONSE_SCOPE_MISMATCH"
    ELSE IF Duplicated(row) THEN "DUPLICATE_FINANCIAL_METRIC"
    ELSE IF ~row.readable THEN "INVALID_DECIMAL"
    ELSE "value"

ProfitValues == {row \in Classified : ProfitRowOutcome(row) = "value"}

\* The rows handed on for one metric and month: each delivery on its own.
HandedOn(metric, month) ==
    MapThenSumSet(LAMBDA row : delivered[row],
                  {row \in ProfitValues : row.metric = metric /\ row.month = month})

-----------------------------------------------------------------------------
(* The tables over the year.                                               *)

SapInit ==
    /\ delivered = [row \in SapRow |-> 0]
    /\ sapThrough = 3

DeliverSapRow(row) ==
    /\ delivered' = [delivered EXCEPT ![row] = @ + 1]
    /\ UNCHANGED sapThrough

\* The balances of the quarter before are not asked for again.
EndSapQuarter ==
    /\ sapThrough < 12
    /\ sapThrough' = sapThrough + 3
    /\ delivered' = [row \in SapRow |-> IF row \in BalanceRow /\ row.month = sapThrough THEN 0 ELSE delivered[row]]

SapNext ==
    \/ /\ MapThenSumSet(LAMBDA r : delivered[r], SapRow) < MaxSapRows
       /\ \E row \in SapRow : DeliverSapRow(row)
    \/ EndSapQuarter

SapSpec == SapInit /\ [][SapNext]_sapVars

-----------------------------------------------------------------------------
(* What the metrics promise.                                               *)

\* The current tax of a quarter is the prior tax of the next: nothing is
\* counted twice or lost at a quarter's end, as the accrual monitor needs it.
QuarterCarriesOver ==
    [][sapThrough' # sapThrough /\ Turnover.status = "adapted" /\ Turnover'.status = "adapted" =>
           Turnover'.prior = Turnover.prior + Turnover.current]_sapVars

\* Dividends are an amount of the batch's currency, whatever came in others;
\* as more quarters are read they differ by what the new months brought.
DividendsInOneCurrency ==
    LET metric == DividendMetric
        Ksl(row) == row.amount
    IN  metric.status = "adapted" =>
            /\ metric.amount = -Added(Ksl, {row \in Matched("dividend") : row.currency = BatchCurrency})
            /\ metric.amount # 0 => metric.currencies = {BatchCurrency}

\* What is owed never shrinks because another account's balance comes along.
PayablesNeverSetOff ==
    [][delivered' # delivered /\ sapThrough' = sapThrough /\ Balances.status = "adapted"
           /\ Balances'.status = "adapted" =>
           Balances'.payables >= Balances.payables]_sapVars

\* A month has one value of a metric or none, however often pages repeat it.
OneProfitValue ==
    \A row \in Present(ProfitRow) : HandedOn(row.metric, row.month) <= 1

\* A value that another row or another page withdrew never comes back.
ProfitValueStays ==
    [][delivered' # delivered =>
           \A row \in ProfitValues' : delivered[row] = 1 => row \in ProfitValues]_sapVars

\* Every income tax line stands for the row it came from, and rows read in an
\* earlier quarter are read in the later ones.
TaxLinesKept ==
    [][(delivered' # delivered \/ sapThrough' # sapThrough) /\ DetailsRead' =>
           \A account \in {"taxExpense", "taxPayable"} :
               TaxLines(account) \subseteq TaxLines(account)']_sapVars

SapTypeOK == delivered \in [SapRow -> 0 .. MaxSapRows] /\ sapThrough \in {3, 6, 9, 12}

SapHolds == SapTypeOK /\ DividendsInOneCurrency /\ OneProfitValue

SapSteps == QuarterCarriesOver /\ PayablesNeverSetOff /\ ProfitValueStays /\ TaxLinesKept
=============================================================================
