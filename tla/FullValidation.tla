--------------------------- MODULE FullValidation ---------------------------
(***************************************************************************)
(* How the full validation judges one company: its row of the Feishu base  *)
(* is read, six tables are fetched, each may fail, the figures are taken   *)
(* from them, each may be unreadable, and five monitors decide on what is  *)
(* left.  The formulas themselves are in QuarterlyCalculation; here is     *)
(* which of them may be computed, what becomes of one whose amounts do not *)
(* fit NUMERIC(38,12), and what is said of the refund, which is matched    *)
(* with booked amounts.                                                    *)
(***************************************************************************)
EXTENDS Integers, Sequences, FiniteSets, SequencesExt

CONSTANTS
    RefundFirm,  \* [involved, amount, status, lines]: the refund of a company and the lines
                 \* booked for it, a sequence of [family, currency, amount]
    CentUnit,    \* amounts are in parts of a cent; so many are a cent
    MaxValidationFaults \* fields, tables and figures missing, amounts too wide (a bound)

ASSUME FullValidationAssumption == CentUnit \in Nat \ {0} /\ MaxValidationFaults \in Nat

VARIABLES
    taxpayer,     \* the company's refund
    lacking,  \* fields, tables and figures that could not be had
    excess,   \* amounts that do not fit their column: the loss, results of formulas
    step,     \* what the validation does next
    judged    \* monitor to its result

fullVars == <<taxpayer, lacking, excess, step, judged>>

MasterField == {"taxRate", "deferredRate", "loss", "averageBurden"}

SourceTable == {"profitTable", "trial", "balance", "settlement", "reimbursement", "invoice"}

\* Figures taken from the settlement details, in the order they are taken.
SettlementFigures == <<"dividends", "taxExpense", "otherIncome", "taxesPayable">>

Figure == {"profit", "fairValue", "revenue", "currentTax", "deferredTax", "noInvoice"}
              \cup Range(SettlementFigures)

\* Results of the formulas that are tested for their width: the base and its
\* tax, which three monitors have in common, and those of one monitor each.
Result == {"base", "accrual", "adjustment", "potential"}

CompanyMonitor == {"currentTaxAccrual", "deferredTax", "taxBurden", "potentialTaxCost"}

FullInit ==
    /\ taxpayer \in RefundFirm
    /\ lacking = {}
    /\ excess = {}
    /\ step = "base"
    /\ judged = <<>>

\* As many of a set as may still be lost or be too wide.
Few(set) ==
    {s \in SUBSET set : Cardinality(s) + Cardinality(lacking) + Cardinality(excess) <= MaxValidationFaults}

Lose(of, wide, next) ==
    /\ \E lost \in Few(of), over \in Few(wide) :
          /\ lost \cap over = {}
          /\ Cardinality(lost) + Cardinality(over) + Cardinality(lacking) + Cardinality(excess)
                 <= MaxValidationFaults
          /\ lacking' = lacking \cup lost
          /\ excess' = excess \cup over
    /\ step' = next
    /\ UNCHANGED <<taxpayer, judged>>

\* A loss may come with more digits than an amount has; rates are between zero
\* and one.
ReadBase == step = "base" /\ Lose(MasterField, {"loss"}, "fetch")

FetchTables == step = "fetch" /\ Lose(SourceTable, {}, "adapt")

\* The figures of the tables fit, or their adapter fails.  What the formulas
\* make of them may not.
ReadFigures == step = "adapt" /\ Lose(Figure, Result, "evaluate")

FigureTable(figure) ==
    CASE figure \in {"profit", "fairValue", "revenue"} -> "profitTable"
      [] figure = "currentTax"  -> "trial"
      [] figure = "deferredTax" -> "balance"
      [] OTHER -> "settlement"

\* Mutant: a figure is there when its own adapter can read it.
MutTaken(figure) == figure \notin lacking

\* One adapter after the other takes figures from the settlement details: the
\* first that fails keeps those after it from being taken, not those before.
\* The balance has one adapter, which gives the accruals with the deferred tax.
Taken(figure) ==
    CASE figure = "noInvoice" -> {"reimbursement", "invoice", "noInvoice"} \cap lacking = {}
      [] figure \in Range(SettlementFigures) ->
             /\ "settlement" \notin lacking
             /\ \A i \in DOMAIN SettlementFigures :
                    SettlementFigures[i] = figure => Range(SubSeq(SettlementFigures, 1, i)) \cap lacking = {}
      [] OTHER -> {FigureTable(figure), figure} \cap lacking = {}

\* Reasons that three of the monitors have in common.
CommonReasons ==
    {"taxRate", "loss"} \cap lacking # {} \/ \E f \in {"profit", "fairValue", "dividends"} : ~Taken(f)

\* Mutant: the loss is forgotten where only profit and rate were thought of.
MutReasonsOf(m) ==
    CASE m = "currentTaxAccrual" -> CommonReasons \/ ~Taken("currentTax")
      [] m = "deferredTax" -> "deferredRate" \in lacking \/ ~Taken("profit") \/ ~Taken("deferredTax")
      [] m = "taxBurden" -> CommonReasons \/ ~Taken("revenue") \/ "averageBurden" \in lacking
      [] m = "potentialTaxCost" -> CommonReasons \/ ~Taken("deferredTax") \/ ~Taken("noInvoice")

ReasonsOf(m) ==
    CASE m = "currentTaxAccrual" -> CommonReasons \/ ~Taken("currentTax")
      [] m = "deferredTax" ->
             {"deferredRate", "loss"} \cap lacking # {} \/ ~Taken("profit") \/ ~Taken("deferredTax")
      [] m = "taxBurden" -> CommonReasons \/ ~Taken("revenue") \/ "averageBurden" \in lacking
      [] m = "potentialTaxCost" -> CommonReasons \/ ~Taken("deferredTax") \/ ~Taken("noInvoice")

\* Rounded half away from zero.
InCents(x) ==
    IF x >= 0 THEN (2 * x + CentUnit) \div (2 * CentUnit)
    ELSE -((CentUnit - 2 * x) \div (2 * CentUnit))

\* Mutant: the currency of a line is not looked at.
MutBookingLines(families) ==
    {i \in DOMAIN taxpayer.lines : /\ taxpayer.lines[i].family \in families
                               /\ InCents(taxpayer.lines[i].amount) = InCents(taxpayer.amount)}

\* Lines of some families that book the amount of the refund to the cent.
BookingLines(families) ==
    {i \in DOMAIN taxpayer.lines : /\ taxpayer.lines[i].family \in families
                               /\ taxpayer.lines[i].currency = "CNY"
                               /\ InCents(taxpayer.lines[i].amount) = InCents(taxpayer.amount)}

\* Mutant: the three families are matched at once.
MutBookedRefund == BookingLines({"taxExpense", "otherIncome", "taxesPayable"})

\* The taxes payable are matched only when the other two have no line.
BookedRefund ==
    LET first == BookingLines({"taxExpense", "otherIncome"})
    IN IF first # {} THEN first ELSE BookingLines({"taxesPayable"})

RefundStatus ==
    CASE taxpayer.involved = "no" -> "NOT_APPLICABLE"
      [] taxpayer.involved = "unclear" -> "BLOCKED"
      [] taxpayer.involved = "yes" /\ taxpayer.status = "received" -> "CLEAR"
      [] OTHER ->
           IF taxpayer.amount <= 0 \/ \E f \in {"taxExpense", "otherIncome", "taxesPayable"} : ~Taken(f)
           THEN "BLOCKED"
           ELSE IF BookedRefund = {} THEN "CLEAR"
           ELSE IF Cardinality(BookedRefund) > 1 THEN "ALERT"
           ELSE IF \A i \in BookedRefund : taxpayer.lines[i].family = "taxExpense" THEN "CLEAR" ELSE "ALERT"

\* The formula of a monitor fails when one of its results does not fit.
Fails(m) ==
    CASE m = "currentTaxAccrual" -> {"base", "accrual"} \cap excess # {}
      [] m = "deferredTax"       -> "adjustment" \in excess
      [] m = "taxBurden"         -> "base" \in excess
      [] m = "potentialTaxCost"  -> {"base", "potential"} \cap excess # {}

\* Mutant: a potential cost that was not calculated is clear like the others.
MutStatusOf(m) ==
    IF ReasonsOf(m) THEN "BLOCKED" ELSE IF ~Fails(m) THEN "COMPUTED" ELSE "CLEAR"

\* A monitor that can be computed alerts or is clear.  One that failed has no
\* alert and is shown as clear, but for the potential cost.
StatusOf(m) ==
    IF ReasonsOf(m) THEN "BLOCKED"
    ELSE IF ~Fails(m) THEN "COMPUTED"
    ELSE IF m = "potentialTaxCost" THEN "BLOCKED" ELSE "CLEAR"

\* Mutant: a loss that does not fit is one more reason to block.
MutAborts == FALSE

\* The inputs of a formula refuse a loss that does not fit: the script ends, for
\* this company and all others.  A monitor that is blocked makes no inputs.
Aborts == "loss" \in excess /\ \E m \in CompanyMonitor : ~ReasonsOf(m)

EvaluateCompany ==
    /\ step = "evaluate"
    /\ IF Aborts THEN step' = "aborted" /\ UNCHANGED judged
       ELSE /\ judged' = [m \in CompanyMonitor \cup {"refund"} |->
                             IF m = "refund" THEN RefundStatus ELSE StatusOf(m)]
            /\ step' = "done"
    /\ UNCHANGED <<taxpayer, lacking, excess>>

FullNext == ReadBase \/ FetchTables \/ ReadFigures \/ EvaluateCompany

FullSpec == FullInit /\ [][FullNext]_fullVars

-----------------------------------------------------------------------------

\* What each formula reads, by the inputs it is given, and the table behind.
Reads(m) ==
    CASE m = "currentTaxAccrual" ->
             {"taxRate", "loss", "profit", "fairValue", "dividends", "currentTax",
              "profitTable", "settlement", "trial"}
      [] m = "deferredTax" -> {"deferredRate", "loss", "profit", "deferredTax", "profitTable", "balance"}
      [] m = "taxBurden" ->
             {"taxRate", "loss", "profit", "fairValue", "dividends", "revenue", "averageBurden",
              "profitTable", "settlement"}
      [] m = "potentialTaxCost" ->
             {"taxRate", "loss", "profit", "fairValue", "dividends", "deferredTax", "noInvoice",
              "profitTable", "settlement", "balance", "reimbursement", "invoice"}

\* What each formula makes, by the steps of its calculation.
Makes(m) ==
    CASE m = "deferredTax" -> {"adjustment"}
      [] m = "currentTaxAccrual" -> {"base", "accrual"}
      [] m = "taxBurden" -> {"base"}
      [] m = "potentialTaxCost" -> {"base", "potential"}

\* A monitor is computed exactly when all it reads is there and all it makes
\* fits: none is computed from what is missing, and a table that fails blocks
\* only those that read it.  A result that does not fit blocks the potential
\* cost only, and a loss that does not fit is never computed with
\* (run_real_full_validation.py:638, domain/quarterly.py:61).
BlockedByItsOwn ==
    /\ step = "aborted" => "loss" \in excess
    /\ step = "done" =>
           \A m \in CompanyMonitor :
               LET there == Reads(m) \cap lacking = {}
                   fits == Makes(m) \cap excess = {}
               IN  /\ judged[m] = "COMPUTED" <=> there /\ fits
                   /\ judged[m] = "BLOCKED" <=> ~there \/ (m = "potentialTaxCost" /\ ~fits)
                   /\ there => "loss" \notin excess

\* A refund is found in a wrong place or in doubt only when some line of it is
\* not in the tax expense, or two are; and one in the taxes payable does not
\* put one in the tax expense in doubt (run_real_full_validation.py:931).
RefundIsWhereItIs ==
    (step = "done" /\ judged["refund"] \in {"ALERT", "CLEAR"} /\ taxpayer.status # "received") =>
        LET equal(family) ==
                Cardinality({i \in DOMAIN taxpayer.lines :
                    /\ taxpayer.lines[i].family = family /\ taxpayer.lines[i].currency = "CNY"
                    /\ (2 * taxpayer.lines[i].amount + CentUnit) \div (2 * CentUnit)
                           = (2 * taxpayer.amount + CentUnit) \div (2 * CentUnit)})
        IN judged["refund"] = "ALERT" <=>
               \/ equal("taxExpense") > 1 \/ equal("otherIncome") > 0
               \/ equal("taxExpense") = 0 /\ equal("taxesPayable") > 0

\* Nobody looks for a refund that is not due or has been received, whatever is
\* missing; one that is due is never passed over for want of a table
\* (run_real_full_validation.py:898).
RefundNotPassedOver ==
    step = "done" =>
        /\ taxpayer.involved = "no" => judged["refund"] = "NOT_APPLICABLE"
        /\ (taxpayer.involved = "yes" /\ taxpayer.status # "received"
                /\ {"settlement", "taxExpense", "otherIncome", "taxesPayable"} \cap lacking # {}) =>
               judged["refund"] = "BLOCKED"

FullSound == BlockedByItsOwn /\ RefundIsWhereItIs /\ RefundNotPassedOver
=============================================================================
