------------------------ MODULE QuarterlyCalculation ------------------------
(***************************************************************************)
(* The quarterly formulas for one company through a fiscal year: each      *)
(* quarter a snapshot is frozen, a run calculates the accrual, deferred    *)
(* tax, tax burden and potential cost monitors from it, and the company    *)
(* may post what they advise and be calculated again.                      *)
(*                                                                         *)
(* An amount is an integer number of the smallest fraction that is stored; *)
(* Grain of them make one unit of the company's amount scale.  A rate is   *)
(* an integer number of parts of RateScale.  The arithmetic is exact, as   *)
(* Money computes it, and rounded half up where the code quantizes.        *)
(***************************************************************************)
EXTENDS Integers

CONSTANTS
    Grain,       \* stored fractions in one unit of the amount scale
    RateScale,   \* parts of one in a rate
    AmountLimit, \* the first amount that a NUMERIC column does not hold
    StoredScale, \* parts of one in a stored tax burden
    RuleCode,    \* rule codes a run may pin
    Choice,      \* per input, the values it may have (a bound)
    LastQuarter  \* quarters in one behaviour (a bound)

ASSUME CalculationAssumption ==
    /\ Grain \in Nat \ {0} /\ RateScale \in Nat \ {0} /\ StoredScale \in Nat \ {0}
    /\ AmountLimit \in Nat /\ LastQuarter \in 1 .. 4
    /\ RuleCode \subseteq {"QUARTERLY_V1", "QUARTERLY_V2", "QUARTERLY_V3"}

VARIABLES
    quarter,    \* the quarter under way
    master,     \* frozen tax master: rates and the loss carried forward
    rule,       \* rule that the runs of the year pin
    priorTax,   \* current tax booked in the quarters before
    inputs,     \* metrics of the frozen snapshot
    detections, \* results of the run, per monitor
    answer,     \* what the last execution returned
    runStatus,  \* of the monitoring run
    standing,   \* company active, master and rule effective and unchanged
    advised     \* quarters the company closed as it was advised to

calculationVars ==
    <<quarter, master, rule, priorTax, inputs, detections, answer, runStatus, standing, advised>>

-----------------------------------------------------------------------------
(* Exact amounts.                                                          *)

Magnitude(x) == IF x < 0 THEN -x ELSE x

\* n / d to the nearest integer, halves away from zero.
RoundHalfUp(n, d) ==
    LET q == (2 * Magnitude(n) + d) \div (2 * d) IN IF n < 0 THEN -q ELSE q

Quantized(x) == RoundHalfUp(x, Grain) * Grain

TaxOn(base, rate) == RoundHalfUp(base * rate, RateScale * Grain) * Grain

Fits(x) == Magnitude(x) < AmountLimit
FloorAtZero(x) == IF x > 0 THEN x ELSE 0
AllFit(amounts) == \A x \in amounts : Fits(x)

-----------------------------------------------------------------------------
(* The monitors.                                                           *)

\* Mutant: a failure is reported as an alert.
MutFailed(reason) == [status |-> "FAILED", input |-> 0, amount |-> 0, difference |-> 0,
                      alert |-> reason, reason |-> reason]

Failed(reason) == [status |-> "FAILED", input |-> 0, amount |-> 0, difference |-> 0,
                   alert |-> "none", reason |-> reason]
Calculated(input, amount, difference, alert) ==
    [status |-> "CALCULATED", input |-> input, amount |-> amount, difference |-> difference,
     alert |-> alert, reason |-> "none"]

BaseBeforeFloor(in) == in.profit - in.dividends - in.fairValue - master.loss
CumulativeTax(in) == TaxOn(FloorAtZero(BaseBeforeFloor(in)), master.taxRate)

\* Mutant: the base alone is compared with its column.
MutCommonOverflow(in) == ~Fits(CumulativeTax(in))

CommonOverflow(in) ==
    ~AllFit({BaseBeforeFloor(in), FloorAtZero(BaseBeforeFloor(in)), CumulativeTax(in)})

\* Mutant: what was booked in the quarters before is forgotten.
MutShouldAccrue(in) == Quantized(CumulativeTax(in))

ShouldAccrue(in) == Quantized(CumulativeTax(in) - in.priorTax)

Accrual(in) ==
    LET difference == Quantized(ShouldAccrue(in) - in.currentTax)
    IN  IF CommonOverflow(in) \/ ~AllFit({ShouldAccrue(in), difference}) THEN Failed("AMOUNT_OVERFLOW")
        ELSE Calculated(in.currentTax, ShouldAccrue(in), difference,
                 CASE difference > 0 -> "UNDER_ACCRUED"
                   [] difference < 0 -> "OVER_ACCRUED"
                   [] OTHER -> "none")

\* Mutant: half a percent for five.
MutThresholdParts == 200

\* Five percent is one part of so many.
ThresholdParts == 20

\* A tax burden is a fraction; its deviation from the average of three years,
\* times the revenue and RateScale.
BurdenDeviation(in) == CumulativeTax(in) * RateScale - master.averageBurden * in.revenue

\* Without revenue the burden is zero.  The alert is on the exact deviation,
\* what is stored is rounded; a burden that cannot be stored fails afterwards.
TaxBurden(in) ==
    LET withRevenue == in.revenue > 0
        over == IF withRevenue THEN BurdenDeviation(in) ELSE -master.averageBurden
        unit == IF withRevenue THEN in.revenue * RateScale ELSE RateScale
        stored == RoundHalfUp(over * StoredScale, unit)
        burden == IF withRevenue THEN RoundHalfUp(CumulativeTax(in) * StoredScale, in.revenue) ELSE 0
    IN  IF CommonOverflow(in) THEN Failed("AMOUNT_OVERFLOW")
        ELSE IF ~AllFit({burden, stored}) THEN Failed("RATE_VALUE_OVERFLOW")
        ELSE Calculated(CumulativeTax(in), burden, stored,
                 CASE ThresholdParts * over >= unit -> "TAX_BURDEN_HIGH"
                   [] ThresholdParts * over <= -unit -> "TAX_BURDEN_LOW"
                   [] OTHER -> "none")

\* Mutant: what may have to be added back is added to the floored base.
MutPotentialBase(in) == FloorAtZero(FloorAtZero(BaseBeforeFloor(in)) + in.accruals + in.noInvoice)

PotentialBase(in) == FloorAtZero(BaseBeforeFloor(in) + in.accruals + in.noInvoice)

Potential(in) ==
    LET tax == TaxOn(PotentialBase(in), master.taxRate)
        cost == Quantized(tax - CumulativeTax(in))
    IN  IF CommonOverflow(in) \/ ~AllFit({in.accruals + in.noInvoice, PotentialBase(in), tax, cost})
        THEN Failed("AMOUNT_OVERFLOW")
        ELSE Calculated(in.accruals + in.noInvoice, tax, cost,
                 IF cost # 0 THEN "POTENTIAL_TAX_COST" ELSE "none")

DeferredBase(in) ==
    IF rule = "QUARTERLY_V2" THEN master.loss + in.profit ELSE master.loss - in.profit

Deferred(in) ==
    LET target == TaxOn(DeferredBase(in), master.deferredRate)
        adjustment == Quantized(target - in.deferredExpense)
    IN  IF ~AllFit({DeferredBase(in), target, adjustment}) THEN Failed("AMOUNT_OVERFLOW")
        ELSE Calculated(in.deferredExpense, target, adjustment,
                 CASE adjustment > 0 -> "DEFERRED_TAX_TO_ACCRUE"
                   [] adjustment < 0 -> "DEFERRED_TAX_TO_REVERSE"
                   [] OTHER -> "none")

Monitors == {"accrual", "burden", "potential"} \cup (IF rule = "QUARTERLY_V1" THEN {} ELSE {"deferred"})

Results(in) ==
    [m \in Monitors |-> CASE m = "accrual" -> Accrual(in)
                          [] m = "burden" -> TaxBurden(in)
                          [] m = "potential" -> Potential(in)
                          [] OTHER -> Deferred(in)]

-----------------------------------------------------------------------------
(* Runs.                                                                   *)

NoDetections == <<>>
NoInputs ==
    [profit |-> 0, dividends |-> 0, fairValue |-> 0, priorTax |-> 0, currentTax |-> 0, revenue |-> 0,
     accruals |-> 0, noInvoice |-> 0, deferredExpense |-> 0, frozen |-> FALSE]

CalculationInit ==
    /\ quarter = 1
    /\ master \in [taxRate : Choice.taxRate, deferredRate : Choice.deferredRate,
                   averageBurden : Choice.averageBurden, loss : Choice.loss]
    /\ rule \in RuleCode
    /\ priorTax = 0
    /\ inputs = NoInputs
    /\ detections = NoDetections
    /\ answer = "none"
    /\ runStatus = "PENDING"
    /\ standing = TRUE
    /\ advised = 0

SnapshotMetrics ==
    [profit : Choice.profit, dividends : Choice.dividends, fairValue : Choice.fairValue, priorTax : {0},
     currentTax : Choice.currentTax, revenue : Choice.revenue, accruals : Choice.accruals,
     noInvoice : Choice.noInvoice, deferredExpense : Choice.deferredExpense, frozen : {FALSE}]

\* The snapshot of the quarter: every required metric once, the tax booked in
\* the quarters before among them.
FreezeSnapshot ==
    /\ ~inputs.frozen
    /\ \E in \in SnapshotMetrics : inputs' = [in EXCEPT !.frozen = TRUE, !.priorTax = priorTax]
    /\ UNCHANGED <<quarter, master, rule, priorTax, detections, answer, runStatus, standing, advised>>

\* Mutant: an execution again passes the checks of the first.
MutReplayable == runStatus # "PENDING" /\ standing

\* The run's own frozen evidence is all that a replay looks at.
Replayable == runStatus # "PENDING"

\* All detections of a snapshot are stored in one transaction: a complete set
\* is there, or none.
Execute ==
    /\ inputs.frozen
    /\ IF detections # NoDetections
       THEN answer' = (IF Replayable THEN "replayed" ELSE "refused") /\ UNCHANGED detections
       ELSE IF runStatus = "RUNNING" /\ standing
       THEN answer' = "calculated" /\ detections' = Results(inputs)
       ELSE answer' = "refused" /\ UNCHANGED detections
    /\ UNCHANGED <<quarter, master, rule, priorTax, inputs, runStatus, standing, advised>>

BeginRun ==
    /\ runStatus = "PENDING"
    /\ runStatus' = "RUNNING"
    /\ UNCHANGED <<quarter, master, rule, priorTax, inputs, detections, answer, standing, advised>>

FinishRun ==
    /\ runStatus = "RUNNING" /\ inputs.frozen
    /\ runStatus' = "SUCCEEDED"
    /\ UNCHANGED <<quarter, master, rule, priorTax, inputs, detections, answer, standing, advised>>

\* The company is deactivated, its master or the rule retired or succeeded.
LoseStanding ==
    /\ standing
    /\ standing' = FALSE
    /\ UNCHANGED <<quarter, master, rule, priorTax, inputs, detections, answer, runStatus, advised>>

Posted(monitor) ==
    IF monitor \in DOMAIN detections /\ detections[monitor].status = "CALCULATED"
    THEN detections[monitor].difference ELSE 0

\* The company posts the differences; a new snapshot and a new run follow.
PostAdvice ==
    /\ detections # NoDetections /\ runStatus = "SUCCEEDED" /\ standing
    /\ detections["accrual"].status = "CALCULATED"
    /\ advised < quarter
    /\ inputs' = [inputs EXCEPT !.currentTax = @ + Posted("accrual"),
                                !.deferredExpense = @ + Posted("deferred")]
    /\ detections' = NoDetections
    /\ answer' = "none" /\ runStatus' = "PENDING"
    /\ advised' = quarter
    /\ UNCHANGED <<quarter, master, rule, priorTax, standing>>

\* The next quarter; its cumulative amounts are new.
CloseQuarter ==
    /\ detections # NoDetections /\ runStatus = "SUCCEEDED"
    /\ quarter < LastQuarter
    /\ advised = quarter
    /\ quarter' = quarter + 1
    /\ priorTax' = priorTax + inputs.currentTax
    /\ inputs' = NoInputs /\ detections' = NoDetections
    /\ answer' = "none" /\ runStatus' = "PENDING"
    /\ UNCHANGED <<master, rule, standing, advised>>

CalculationNext ==
    \/ FreezeSnapshot
    \/ Execute \/ BeginRun \/ FinishRun \/ LoseStanding \/ PostAdvice \/ CloseQuarter

CalculationSpec == CalculationInit /\ [][CalculationNext]_calculationVars

-----------------------------------------------------------------------------
(* What the figures mean.                                                  *)

MonitorResult ==
    [status : {"CALCULATED", "FAILED"}, input : Int, amount : Int, difference : Int,
     alert : {"none", "UNDER_ACCRUED", "OVER_ACCRUED", "TAX_BURDEN_HIGH", "TAX_BURDEN_LOW",
              "POTENTIAL_TAX_COST", "DEFERRED_TAX_TO_ACCRUE", "DEFERRED_TAX_TO_REVERSE"},
     reason : {"none", "AMOUNT_OVERFLOW", "RATE_VALUE_OVERFLOW"}]

CalculationTypeOK ==
    /\ quarter \in 1 .. LastQuarter /\ advised \in 0 .. LastQuarter
    /\ priorTax \in Int
    /\ detections = NoDetections \/ detections \in [Monitors -> MonitorResult]
    /\ answer \in {"none", "calculated", "replayed", "refused"}
    /\ runStatus \in {"PENDING", "RUNNING", "SUCCEEDED"}
    /\ standing \in BOOLEAN

AtScale(x) == x % Grain = 0

\* A company that books amounts of its scale and posts what the monitors
\* advise is silent when it is calculated again, and what it has booked over
\* the quarters is the tax on its cumulative base: no rounding adds up.
AdviceSettles ==
    detections # NoDetections /\ advised = quarter /\ AtScale(inputs.currentTax) /\ AtScale(priorTax) =>
        \/ detections["accrual"].status = "FAILED"
        \/ /\ detections["accrual"].alert = "none"
           /\ priorTax + inputs.currentTax = CumulativeTax(inputs)

\* What is reported can be stored: a figure too large for its column fails its
\* own monitor alone, but a base too large fails every monitor that rests on it.
FailureContained ==
    detections # NoDetections =>
        /\ \A m \in Monitors : detections[m].status = "CALCULATED" =>
               AllFit({detections[m].amount, detections[m].difference})
        /\ Magnitude(BaseBeforeFloor(inputs)) >= AmountLimit =>
               \A m \in Monitors \ {"deferred"} : detections[m].status = "FAILED"

\* Expenses without an invoice cost no more than the tax on them, and nothing
\* as long as losses cover them.
PotentialIsBounded ==
    detections # NoDetections /\ detections["potential"].status = "CALCULATED"
        /\ inputs.accruals + inputs.noInvoice >= 0 =>
        /\ detections["potential"].difference >= 0
        /\ detections["potential"].difference * RateScale
               <= (inputs.accruals + inputs.noInvoice) * master.taxRate + Grain * RateScale
        /\ BaseBeforeFloor(inputs) + inputs.accruals + inputs.noInvoice <= 0 =>
               detections["potential"].alert = "none"

\* The deviation that a tax burden alert is shown with reaches the threshold,
\* though the alert was decided before rounding.
BurdenAlertShown ==
    detections # NoDetections =>
        /\ detections["burden"].alert = "TAX_BURDEN_HIGH" => 20 * detections["burden"].difference >= StoredScale
        /\ detections["burden"].alert = "TAX_BURDEN_LOW" => 20 * detections["burden"].difference <= -StoredScale

\* Once a run has calculated a snapshot it answers with the same results for
\* ever, whatever becomes of the company, the master and the rule.
ReplayKeepsResult ==
    [][detections # NoDetections /\ detections' # NoDetections =>
           detections' = detections /\ answer' # "refused"]_calculationVars

\* What the results of a run promise.
CalculationHolds ==
    CalculationTypeOK /\ AdviceSettles /\ FailureContained /\ PotentialIsBounded /\ BurdenAlertShown
=============================================================================
