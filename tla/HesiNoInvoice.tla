--------------------------- MODULE HesiNoInvoice ---------------------------
(***************************************************************************)
(* What a company reimbursed in Hesi without an invoice, for the year up   *)
(* to a quarter's end.  The data service delivers reimbursement lines and  *)
(* invoice allocations, some of them more than once because pages overlap. *)
(* An invoice carries no expense type that a reimbursement has: it is      *)
(* inferred from equal amounts.  In a step the source gains or repeats a   *)
(* row, or a quarter ends, and the figure is imported again.               *)
(*                                                                         *)
(* The totals are exact.  What a claim lacks is summed in the default      *)
(* context of Python's decimals, which keeps 28 digits while an amount may *)
(* have 38: large sums are rounded, in the order of the rows.              *)
(***************************************************************************)
EXTENDS Integers, Sequences, FiniteSets, SequencesExt

CONSTANTS
    ReimbursementRows, \* lines in the order of the source: claim, approved (month,
                   \* NotApproved if open), code, amount, readable
    AllocationRows, \* invoice rows in the order of the source: claim, invoice, typeId, line
                   \* (amount of the expense), amount, readable
    ExcludedCode,  \* expense types the law asks no invoice for
    NotApproved,   \* no approval date
    HesiLimit,     \* the first amount that a NUMERIC column does not hold
    ContextRange,  \* the first amount that has more digits than the context keeps
    Radix,         \* of the digits
    MaxDelivered,  \* rows delivered in one behaviour (a bound)
    MaxRepeats,    \* deliveries of one row (a bound)
    LastQuarterEnd \* last month that is imported through (a bound)

ASSUME HesiAssumption ==
    /\ {HesiLimit, ContextRange, Radix - 1} \subseteq Nat \ {0}
    /\ {MaxDelivered, MaxRepeats} \subseteq Nat
    /\ LastQuarterEnd \in {3, 6, 9, 12}

VARIABLES
    lines,       \* how often each reimbursement line was delivered
    allocations, \* how often each invoice allocation was delivered
    through,     \* month the figure runs through
    figure       \* result of the last import

hesiVars == <<lines, allocations, through, figure>>

Reimbursement == Range(ReimbursementRows)
Allocation == Range(AllocationRows)

Arrived(rows) == {row \in DOMAIN rows : rows[row] > 0}

\* Mutant: repeated rows are counted as often as they come.
MutWeight(times) == times

\* A row identical to one seen before is dropped.
Weight(times) == IF times > 0 THEN 1 ELSE 0

-----------------------------------------------------------------------------
(* Which lines count.                                                      *)

\* Mutant: the quarter alone, not the year up to its end.
MutInYear(line, month) == line.approved # NotApproved /\ line.approved \in month - 2 .. month

InYear(line, month) == line.approved # NotApproved /\ line.approved <= month

Included(ls, month) ==
    {line \in Arrived(ls) : InYear(line, month) /\ line.code \notin ExcludedCode}

ClaimsIncluded(ls, month) == {line.claim : line \in Included(ls, month)}

\* All lines of a claim in the year, excluded types among them: invoices are
\* matched against these.
LinesOf(claim, ls, month) == {line \in Arrived(ls) : line.claim = claim /\ InYear(line, month)}

Relevant(ls, as, month) == {a \in Arrived(as) : a.claim \in ClaimsIncluded(ls, month)}

\* Codes that have a line of the same amount.
Matching(a, ls, month) == {line.code : line \in {l \in LinesOf(a.claim, ls, month) : l.amount = a.line}}

\* Type ids that stood beside one code only tell the code of other allocations.
Inferred(typeId, ls, as, month) ==
    UNION {Matching(a, ls, month) :
           a \in {b \in Relevant(ls, as, month) :
                  b.typeId = typeId /\ Cardinality(Matching(b, ls, month)) = 1}}

\* Mutant: of several codes for a type id the first is taken.
MutConflicting(ls, as, month) == FALSE

Conflicting(ls, as, month) ==
    \E a \in Relevant(ls, as, month) : Cardinality(Inferred(a.typeId, ls, as, month)) > 1

\* Mutant: any approval date of the claim will do.
MutAmbiguous(ls, as, month) == FALSE

Ambiguous(ls, as, month) ==
    \E a \in Relevant(ls, as, month) :
        Cardinality({line.approved : line \in LinesOf(a.claim, ls, month)}) > 1

\* The codes an allocation may stand for: its own match, or else what its type
\* id tells unless that contradicts the amounts.
CodesOf(a, ls, as, month) ==
    LET matching == Matching(a, ls, month)
    IN  IF Cardinality(matching) = 1 THEN matching
        ELSE {code \in Inferred(a.typeId, ls, as, month) : matching = {} \/ code \in matching}

Unresolved(ls, as, month) ==
    \E a \in Relevant(ls, as, month) : CodesOf(a, ls, as, month) = {}

CodeOf(a, ls, as, month) == CHOOSE code \in CodesOf(a, ls, as, month) : TRUE

-----------------------------------------------------------------------------
(* The figure.                                                             *)

\* A claim one of whose invoices is spread over several type ids is compared as
\* a whole, any other per expense type.
ComparedWhole(claim, ls, as, month) ==
    \E a, b \in Relevant(ls, as, month) :
        a.claim = claim /\ b.claim = claim /\ a.invoice = b.invoice /\ a.typeId # b.typeId

Counted(ls, as, month) ==
    {a \in Relevant(ls, as, month) : CodeOf(a, ls, as, month) \notin ExcludedCode}

SumOfLines(ls, set) == MapThenSumSet(LAMBDA line : Weight(ls[line]) * line.amount, set)
SumOfAllocations(as, set) == MapThenSumSet(LAMBDA a : Weight(as[a]) * a.amount, set)

AbsAmount(x) == IF x < 0 THEN -x ELSE x

\* The nearest amount that has as many digits as the context keeps, the even one
\* of two.
InContext(x) ==
    LET grain == Radix ^ Min({k \in 0 .. AbsAmount(x) : AbsAmount(x) < ContextRange * Radix ^ k})
        below == x \div grain
        twice == 2 * (x % grain)
        up == twice > grain \/ (twice = grain /\ below % 2 = 1)
    IN  grain * (IF up THEN below + 1 ELSE below)

\* A sum that is rounded as each row is added.
ContextSum(weights, rows, set) ==
    FoldLeft(LAMBDA sum, row : IF row \in set THEN InContext(sum + Weight(weights[row]) * row.amount)
                               ELSE sum,
             0, rows)

\* Mutant: what is invoiced in excess for one type makes up for another.
MutUncovered(reimbursed, invoiced) == InContext(reimbursed - invoiced)

Uncovered(reimbursed, invoiced) == Max({InContext(reimbursed - invoiced), 0})

\* The groups of expense types that a claim is compared in.
GroupsOf(claim, ls, as, month) ==
    LET codes == {line.code : line \in {l \in Included(ls, month) : l.claim = claim}}
        invoiced == {CodeOf(a, ls, as, month) : a \in {b \in Counted(ls, as, month) : b.claim = claim}}
    IN  IF ComparedWhole(claim, ls, as, month) THEN {codes \cup invoiced} ELSE {{code} : code \in codes}

GroupLines(claim, group, ls, month) ==
    {line \in Included(ls, month) : line.claim = claim /\ line.code \in group}

GroupAllocations(claim, group, ls, as, month) ==
    {a \in Counted(ls, as, month) : a.claim = claim /\ CodeOf(a, ls, as, month) \in group}

\* What a claim lacks in invoices.
ClaimLacks(claim, ls, as, month) ==
    MapThenSumSet(LAMBDA group :
        Uncovered(ContextSum(ls, ReimbursementRows, GroupLines(claim, group, ls, month)),
                  ContextSum(as, AllocationRows, GroupAllocations(claim, group, ls, as, month))),
        GroupsOf(claim, ls, as, month))

Refused(reason) == [status |-> reason, reimbursed |-> 0, invoiced |-> 0, lacking |-> 0]

InRange(x) == -HesiLimit < x /\ x < HesiLimit

LinesRead(ls) == \A line \in Arrived(ls) : line.readable
AllocationsRead(as) == \A a \in Arrived(as) : a.readable

\* One row that cannot be read, matched or resolved refuses the whole import;
\* with several, which of the reasons is told depends on their order.
Adapted(ls, as, month) ==
    LET figures == [status |-> "imported",
                    reimbursed |-> SumOfLines(ls, Included(ls, month)),
                    invoiced |-> SumOfAllocations(as, Counted(ls, as, month)),
                    lacking |-> MapThenSumSet(LAMBDA claim : ClaimLacks(claim, ls, as, month),
                                              ClaimsIncluded(ls, month))]
    IN  IF ~(LinesRead(ls) /\ AllocationsRead(as)) THEN Refused("INVALID_RESPONSE_VALUE")
        ELSE IF Conflicting(ls, as, month) THEN Refused("CONFLICTING_INVOICE_EXPENSE_TYPE")
        ELSE IF Ambiguous(ls, as, month) THEN Refused("AMBIGUOUS_INVOICE_APPROVAL_DATE")
        ELSE IF Unresolved(ls, as, month) THEN Refused("UNRESOLVED_INVOICE_EXPENSE_TYPE")
        ELSE IF ~(InRange(figures.reimbursed) /\ InRange(figures.invoiced) /\ InRange(figures.lacking))
        THEN Refused("AGGREGATE_AMOUNT_OUT_OF_RANGE")
        ELSE figures

-----------------------------------------------------------------------------
(* The source over the year.                                               *)

HesiInit ==
    /\ lines = [line \in Reimbursement |-> 0]
    /\ allocations = [a \in Allocation |-> 0]
    /\ through = 3
    /\ figure = Adapted(lines, allocations, through)

ImportAgain == figure' = Adapted(lines', allocations', through')

Deliveries(rows) == MapThenSumSet(LAMBDA row : rows[row], DOMAIN rows)

DeliverLine(line) ==
    /\ lines[line] < MaxRepeats
    /\ lines' = [lines EXCEPT ![line] = @ + 1]
    /\ UNCHANGED <<allocations, through>>
    /\ ImportAgain

DeliverAllocation(a) ==
    /\ allocations[a] < MaxRepeats
    /\ allocations' = [allocations EXCEPT ![a] = @ + 1]
    /\ UNCHANGED <<lines, through>>
    /\ ImportAgain

EndQuarter ==
    /\ through < LastQuarterEnd
    /\ through' = through + 3
    /\ UNCHANGED <<lines, allocations>>
    /\ ImportAgain

Deliver ==
    /\ Deliveries(lines) + Deliveries(allocations) < MaxDelivered
    /\ \/ \E line \in Reimbursement : DeliverLine(line)
       \/ \E a \in Allocation : DeliverAllocation(a)

HesiNext == Deliver \/ EndQuarter

HesiSpec == HesiInit /\ [][HesiNext]_hesiVars

-----------------------------------------------------------------------------
(* What the figure promises.                                               *)

HesiTypeOK ==
    /\ lines \in [Reimbursement -> 0 .. MaxRepeats]
    /\ allocations \in [Allocation -> 0 .. MaxRepeats]
    /\ through \in {3, 6, 9, 12}
    /\ figure.reimbursed \in Int /\ figure.invoiced \in Int /\ figure.lacking \in Int

\* No sum of a claim reaches amounts that the context rounds
\* (dgc_hesi_no_invoice.py:273).
SummedExactly ==
    \A claim \in ClaimsIncluded(lines, through) :
        \A group \in GroupsOf(claim, lines, allocations, through) :
            \A rows \in {GroupLines(claim, group, lines, through),
                         GroupAllocations(claim, group, lines, allocations, through)} :
                MapThenSumSet(LAMBDA row : AbsAmount(row.amount), rows) < ContextRange

\* Nothing negative is lacking.  Where no sum is rounded, no more is lacking
\* than was reimbursed, and no less than what all invoices leave open.
LackingBounded ==
    figure.status = "imported" =>
        /\ figure.lacking >= 0
        /\ SummedExactly /\ (\A a \in Arrived(allocations) : a.amount >= 0) =>
               /\ figure.lacking >= figure.reimbursed - figure.invoiced
               /\ figure.lacking <= SumOfLines(lines, {line \in Included(lines, through) : line.amount > 0})

\* Rows that come again, as pages overlap, change nothing.
RepeatsIgnored ==
    [][figure' # figure =>
           \/ through' # through
           \/ Arrived(lines') # Arrived(lines)
           \/ Arrived(allocations') # Arrived(allocations)]_hesiVars

\* One more invoice never raises what is lacking, whatever expense type it
\* turns out to have and whatever it tells of the others, unless a sum is rounded
\* (dgc_hesi_no_invoice.py:266-305).
InvoiceNeverRaises ==
    [][allocations' # allocations /\ figure.status = "imported" /\ figure'.status = "imported"
           /\ SummedExactly /\ SummedExactly'
           /\ (\A a \in Arrived(allocations') : a.amount >= 0) =>
           figure'.lacking <= figure.lacking]_hesiVars

\* The figure runs from the year's start: it does not fall as quarters end,
\* unless reimbursements were taken back.
GrowsThroughYear ==
    [][through' # through /\ figure.status = "imported" /\ figure'.status = "imported"
           /\ (\A line \in Arrived(lines) : line.amount >= 0) =>
           figure'.lacking >= figure.lacking]_hesiVars

\* A claim that has an invoice lacks the same amount in every later quarter.
InvoicedClaimSettled ==
    [][through' # through /\ figure.status = "imported" /\ figure'.status = "imported" =>
           \A a \in Relevant(lines, allocations, through) :
               ClaimLacks(a.claim, lines, allocations, through')
                   = ClaimLacks(a.claim, lines, allocations, through)]_hesiVars

NoInvoiceHolds == HesiTypeOK /\ LackingBounded

NoInvoiceSteps == RepeatsIgnored /\ InvoiceNeverRaises /\ GrowsThroughYear /\ InvoicedClaimSettled
=============================================================================
