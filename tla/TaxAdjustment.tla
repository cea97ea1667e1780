--------------------------- MODULE TaxAdjustment ---------------------------
(***************************************************************************)
(* How one company's accounts are checked for what the annual adjustment   *)
(* would find wrong: the settlement details are read first, and what they  *)
(* hold decides which other tables are read at all: the salaries or the    *)
(* profit a limit is computed from, the Hesi documents and, where an       *)
(* invoice of a document names one, the Hesi applications.  A table that   *)
(* was not asked for reads as empty; one that failed must not.             *)
(***************************************************************************)
EXTENDS Integers, Sequences, FiniteSets, SequencesExt

CONSTANTS
    Books,          \* what the tables hold: [settlement, salary, profit, details, invoices,
                    \*  applications, foreign], see BooksOf below
    ThroughMonth,   \* last month that is checked
    LimitUnit,      \* 1 of a rate
    LimitOf,        \* rate of "welfare" and "donation"
    MaxAdjustmentFaults \* requests that fail in one behaviour (a bound)

(***************************************************************************)
(* settlement    sequence of [subject, month, abnormal, amount, document]; *)
(*               document 0: the row names none                            *)
(* salary        month to amount;  profit  set of [total, amount]          *)
(* details       set of [document, abnormal]                               *)
(* invoices      set of [document, application]; application 0: none       *)
(* applications  set of [application, abnormal]                            *)
(* foreign       tables that have rows of another company                  *)
(***************************************************************************)
ASSUME TaxAdjustmentAssumption ==
    /\ {ThroughMonth, LimitUnit} \subseteq Nat \ {0}
    /\ LimitOf \in [{"welfare", "donation"} -> Nat]
    /\ MaxAdjustmentFaults \in Nat

VARIABLES
    books,    \* the tables
    stage,    \* what the script does next
    answers,  \* requests that were sent, and whether they failed
    verdicts  \* subject to [status, rows]

adjustmentVars == <<books, stage, answers, verdicts>>

Subjects == {"welfare", "donation", "business"}

Unchecked == [status |-> "UNCHECKED", rows |-> {}]

AdjustmentInit ==
    /\ books \in Books
    /\ stage = "settlement"
    /\ answers = <<>>
    /\ verdicts = [s \in Subjects |-> Unchecked]

\* A request is a table, and for the salaries a month.
Request(table) == <<table, 0>>
SalaryRequests == {<<"salary", m>> : m \in 1 .. ThroughMonth}

Answered(request) == request \in DOMAIN answers /\ answers[request]
FailedRequest(request) == request \in DOMAIN answers /\ ~answers[request]

\* The requests are sent; some of them fail.
SendAll(requests) ==
    \E failing \in SUBSET requests :
        /\ Cardinality(failing) + Cardinality({r \in DOMAIN answers : ~answers[r]})
               <= MaxAdjustmentFaults
        /\ answers' = [r \in DOMAIN answers \cup requests |->
                          IF r \in requests THEN r \notin failing ELSE answers[r]]

\* Rows that are of another company refuse the table.
OwnTable(table) == Answered(Request(table)) /\ table \notin books.foreign

\* Mutant: the months after the last one that is checked count too.
MutRowsOf(subject) == {i \in DOMAIN books.settlement : books.settlement[i].subject = subject}

\* Rows of a subject's accounts in the months that are checked.
RowsOf(subject) ==
    IF ~OwnTable("settlement") THEN {}
    ELSE {i \in DOMAIN books.settlement :
             books.settlement[i].subject = subject /\ books.settlement[i].month \in 1 .. ThroughMonth}

Flagged(subject) == {i \in RowsOf(subject) : books.settlement[i].abnormal}

\* Mutant: only a row that is suspicious itself is looked up in Hesi.
MutDocuments == {books.settlement[i].document : i \in Flagged("business")} \ {0}

Documents == {books.settlement[i].document : i \in RowsOf("business")} \ {0}

FetchSettlement ==
    /\ stage = "settlement"
    /\ SendAll({Request("settlement")})
    /\ stage' = "bases"
    /\ UNCHANGED <<books, verdicts>>

\* Only a company with candidates needs the base of a limit, only one whose
\* rows name documents needs Hesi.
FetchBases ==
    /\ stage = "bases"
    /\ SendAll((IF Flagged("welfare") # {} THEN SalaryRequests ELSE {})
               \cup (IF Flagged("donation") # {} THEN {Request("profit")} ELSE {})
               \cup (IF Documents # {} THEN {Request("details"), Request("invoices")} ELSE {}))
    /\ stage' = "applications"
    /\ UNCHANGED <<books, verdicts>>

\* Applications that the invoices of a document name.
ApplicationsOf(document) ==
    IF ~OwnTable("invoices") THEN {}
    ELSE {i.application : i \in {j \in books.invoices : j.document = document}} \ {0}

\* Mutant: applications are read when the first invoice of a document names one.
MutApplicationsNeeded ==
    /\ OwnTable("details")
    /\ \A document \in Documents : ApplicationsOf(document) # {}

ApplicationsNeeded ==
    /\ OwnTable("details")
    /\ \E document \in Documents : ApplicationsOf(document) # {}

FetchApplications ==
    /\ stage = "applications"
    /\ SendAll(IF ApplicationsNeeded THEN {Request("applications")} ELSE {})
    /\ stage' = "decide"
    /\ UNCHANGED <<books, verdicts>>

\* Mutant: what cannot be computed is left as clear.
MutRefusedVerdict == [status |-> "CLEAR", rows |-> {}]

RefusedVerdict == [status |-> "ERROR", rows |-> {}]

Found(rows) == [status |-> IF rows = {} THEN "CLEAR" ELSE "ALERT", rows |-> rows]

SumOf(rows) == FoldSet(LAMBDA i, total : total + books.settlement[i].amount, 0, rows)

\* Mutant: a company whose expense reaches the limit is found too.
MutAdjustment(subject, base) == SumOf(RowsOf(subject)) * LimitUnit - base * LimitOf[subject] + 1

\* What the expense exceeds the limit by.
Adjustment(subject, base) ==
    LET excess == SumOf(RowsOf(subject)) * LimitUnit - base * LimitOf[subject]
    IN IF excess > 0 THEN excess ELSE 0

\* The candidates are found only when there is an adjustment.
OverLimit(subject, base) == Found(IF Adjustment(subject, base) > 0 THEN Flagged(subject) ELSE {})

WelfareVerdict ==
    IF Flagged("welfare") = {} THEN Found({})
    ELSE IF "salary" \in books.foreign \/ \E r \in SalaryRequests : ~Answered(r) THEN RefusedVerdict
    ELSE OverLimit("welfare", FoldSet(LAMBDA m, total : total + books.salary[m], 0, 1 .. ThroughMonth))

DonationVerdict ==
    LET totals == {p \in books.profit : p.total}
    IN IF Flagged("donation") = {} THEN Found({})
       ELSE IF ~OwnTable("profit") \/ totals = {} THEN RefusedVerdict
       ELSE OverLimit("donation", FoldSet(LAMBDA p, total : total + p.amount, 0, totals))

\* Mutant: a detail that could not be read is not looked at.
MutUnread(table) == FALSE

\* A table that was asked for is needed; one that was not asked for is empty.
Unread(table) == Request(table) \in DOMAIN answers /\ ~OwnTable(table)

Rows(table) == IF OwnTable(table) THEN books[table] ELSE {}

\* The texts of a row's document, in Hesi and in the applications its invoices
\* name, the row's own text first.
Misbooked(i) ==
    LET document == books.settlement[i].document
    IN \/ books.settlement[i].abnormal
       \/ /\ document # 0
          /\ \/ \E d \in Rows("details") : d.document = document /\ d.abnormal
             \/ \E a \in Rows("applications") : a.application \in ApplicationsOf(document) /\ a.abnormal

\* The tables are loaded for the first row that names a document; business
\* entertainment knows no limit.
BusinessVerdict ==
    IF /\ Documents # {}
       /\ \/ Unread("details") \/ Unread("invoices")
          \/ Unread("applications") /\ \E document \in Documents : ApplicationsOf(document) # {}
    THEN RefusedVerdict
    ELSE Found({i \in RowsOf("business") : Misbooked(i)})

Decide ==
    /\ stage = "decide"
    /\ verdicts' = IF ~OwnTable("settlement") THEN [s \in Subjects |-> RefusedVerdict]
                   ELSE [s \in Subjects |-> CASE s = "welfare" -> WelfareVerdict
                                              [] s = "donation" -> DonationVerdict
                                              [] s = "business" -> BusinessVerdict]
    /\ stage' = "decided"
    /\ UNCHANGED <<books, answers>>

AdjustmentNext == FetchSettlement \/ FetchBases \/ FetchApplications \/ Decide

AdjustmentSpec == AdjustmentInit /\ [][AdjustmentNext]_adjustmentVars

-----------------------------------------------------------------------------

Decided(s) == verdicts[s].status \in {"ALERT", "CLEAR"}

\* What is said of business entertainment is true of the tables themselves,
\* whichever of them were asked for: a row that its document or an application
\* behind it shows up is found, and no other (business_entertainment.py:281).
ChainIsFollowed ==
    Decided("business") =>
        verdicts["business"].rows =
            {i \in DOMAIN books.settlement :
                /\ books.settlement[i].subject = "business"
                /\ books.settlement[i].month \in 1 .. ThroughMonth
                /\ \/ books.settlement[i].abnormal
                   \/ /\ books.settlement[i].document # 0
                      /\ \/ \E d \in books.details :
                                d.document = books.settlement[i].document /\ d.abnormal
                         \/ \E v \in books.invoices, a \in books.applications :
                                /\ v.document = books.settlement[i].document
                                /\ v.application = a.application /\ a.abnormal}

\* Of the limited subjects the suspicious rows are found exactly when the
\* expense of all rows, suspicious or not, exceeds the limit of the whole
\* period (adjustment.py:52).
LimitDecides ==
    \A s \in {"welfare", "donation"} : Decided(s) =>
        LET mine == {i \in DOMAIN books.settlement :
                        books.settlement[i].subject = s /\ books.settlement[i].month \in 1 .. ThroughMonth}
            base == IF s = "welfare"
                    THEN FoldFunctionOnSet(+, 0, books.salary, 1 .. ThroughMonth)
                    ELSE FoldSet(LAMBDA p, t : t + p.amount, 0, {p \in books.profit : p.total})
            expense == FoldSet(LAMBDA i, t : t + books.settlement[i].amount, 0, mine)
            suspicious == {i \in mine : books.settlement[i].abnormal}
        IN verdicts[s].rows = IF expense * LimitUnit > base * LimitOf[s] THEN suspicious ELSE {}

\* A failed request never ends as a clear account: it concerns a subject whose
\* verdict then is an error (run_real_tax_adjustment_validation.py:967).
NoFailureIsClear ==
    stage = "decided" =>
        \A r \in DOMAIN answers : ~answers[r] =>
            verdicts[CASE r[1] = "salary" -> "welfare" [] r[1] = "profit" -> "donation"
                       [] r[1] = "settlement" -> "welfare" [] OTHER -> "business"].status = "ERROR"

\* A company whose tables are all read and its own is blocked for nothing but a
\* profit that is missing (adjustment.py:190).
OnlyFaultsBlock ==
    (stage = "decided" /\ books.foreign = {} /\ \A r \in DOMAIN answers : answers[r]) =>
        \A s \in Subjects : verdicts[s].status = "ERROR" =>
            s = "donation" /\ ~\E p \in books.profit : p.total

AdjustmentSound == ChainIsFollowed /\ LimitDecides /\ NoFailureIsClear /\ OnlyFaultsBlock
=============================================================================
