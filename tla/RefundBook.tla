------------------------------ MODULE RefundBook ------------------------------
(***************************************************************************)
(* The refund workbook: the sheet and the columns of a refund year are     *)
(* found, its rows are read all or none, and they become the targets of    *)
(* the year.  Uploads share a few permits; scans settle targets between    *)
(* them.  The import of one workbook is a single step (its race with a     *)
(* scan is in RefundScan).                                                 *)
(***************************************************************************)
EXTENDS Integers, Sequences, FiniteSets, FiniteSetsExt

CONSTANTS
    RefundWorkbook, \* workbooks: size and sheets, each with years and rows
    RefundYear,     \* tax years
    Taxpayer,       \* companies of the master data
    Uploader,       \* requests that can run at once
    GivenVersion,   \* versions that callers may give a workbook
    NoRefundBook,
    Permit,         \* ingest_upload_concurrency
    MaxBookSize,    \* ingest_max_upload_bytes
    FloatGrain,     \* units of an amount that numbers are rounded to first
    CentGrain,      \* units of an amount that the scale has
    MaxRefundUploads \* uploads in one behaviour (a bound)

\* What a file can hold: sheets and rows have places, amounts are whole units.
IsRefundSheet(s) ==
    /\ s.rows \in Seq({s.rows[i] : i \in DOMAIN s.rows})
    /\ \A i \in DOMAIN s.rows :
          s.rows[i].blank \in BOOLEAN /\ \A y \in RefundYear : s.rows[i].amount[y] \in Int

IsRefundWorkbook(b) ==
    /\ b.sheets \in Seq({b.sheets[n] : n \in DOMAIN b.sheets})
    /\ \A n \in DOMAIN b.sheets : IsRefundSheet(b.sheets[n])

ASSUME RefundBookAssumption ==
    /\ \A b \in RefundWorkbook : IsRefundWorkbook(b)
    /\ IsFiniteSet(Uploader)
    /\ FloatGrain \in Nat \ {0} /\ CentGrain \in Nat \ {0} /\ CentGrain % FloatGrain = 0
    /\ Permit \in Nat \ {0} /\ MaxBookSize \in Nat /\ MaxRefundUploads \in Nat

VARIABLES
    refundTarget,   \* the target of each year and company
    uploaders,      \* uploads under way
    permits,        \* of the semaphore
    refundUploads   \* uploads so far

refundBookVars == <<refundTarget, uploaders, permits, refundUploads>>

-----------------------------------------------------------------------------
(* Reading.  A row says, for each year, whether it has a refund ("yes",    *)
(* "no" or anything else) and of how much, with the kind of its cell       *)
(* ("number" or "text"; 0 is an amount that is not one); it names its      *)
(* company and its credit code or not ("").                                *)

\* The first sheet with the columns of the year.
SheetsOf(b, y) == {n \in DOMAIN b.sheets : y \in b.sheets[n].years}
SheetRows(b, y) == b.sheets[Min(SheetsOf(b, y))].rows

Nearest(x, grain) == ((2 * x + grain) \div (2 * grain)) * grain

\* Numbers are rounded as they are read, for what the spreadsheet adds to them.
RawAmount(row, y) ==
    IF row.cell = "number" THEN Nearest(row.amount[y], FloatGrain) ELSE row.amount[y]

\* Mutant: amounts are cut off.
MutBooked(row, y) == (RawAmount(row, y) \div CentGrain) * CentGrain

Booked(row, y) == Nearest(RawAmount(row, y), CentGrain)

\* Mutant: a row that is neither is no refund.
MutUnsure(rows, y) == {}

Unsure(rows, y) ==
    {i \in DOMAIN rows : rows[i].blank = FALSE /\ rows[i].involved[y] \notin {"yes", "no"}}
Due(rows, y) == {i \in DOMAIN rows : rows[i].involved[y] = "yes"}
Whole(row, y) == row.company # "" /\ row.named /\ RawAmount(row, y) > 0

\* Mutant: the last row of a company counts.
MutTwice(rows, y) == {}

Twice(rows, y) ==
    {j \in Due(rows, y) : \E i \in Due(rows, y) :
        /\ i < j /\ rows[i].company = rows[j].company
        /\ Whole(rows[i], y) /\ Whole(rows[j], y)}

RefundRowErrors(rows, y) ==
    Unsure(rows, y) \cup Twice(rows, y)
    \cup {i \in Due(rows, y) : ~Whole(rows[i], y) \/ rows[i].receipt \notin {"", "pending", "received"}}

-----------------------------------------------------------------------------
(* Targets.                                                                *)

NoRefundTarget == [receipt |-> "none"]

AtRestUploader == [pc |-> "idle", book |-> NoRefundBook, version |-> NoRefundBook, year |-> 0]

RefundBookInit ==
    /\ refundTarget = [y \in RefundYear |-> [c \in Taxpayer |-> NoRefundTarget]]
    /\ uploaders = [u \in Uploader |-> AtRestUploader]
    /\ permits = Permit
    /\ refundUploads = 0

\* The record's key has the credit code if there is one, else the company's.
RecordKey(row) == IF row.credit # "" THEN row.credit ELSE row.company

SameAmount(t, row, y) == t.receipt # "none" /\ t.amount = Booked(row, y)

Confirmed(t, row, y) ==
    row.receipt = "received" /\ SameAmount(t, row, y) /\ t.key = RecordKey(row)
Replayed(t, row, y, v) == SameAmount(t, row, y) /\ t.key = RecordKey(row) /\ t.version = v

\* Mutant: only a received target is settled.
MutSettled(t) == t.receipt = "RECEIVED"

Settled(t) == t.receipt = "RECEIVED" \/ (t.receipt = "PENDING" /\ t.scanned)

RefusedBook(t, row, y, v) == Settled(t) /\ ~Confirmed(t, row, y) /\ ~Replayed(t, row, y, v)

\* The book is the one that last gave the target, which nothing but the
\* properties asks for.
Imported(t, row, y, b, v) ==
    [receipt |-> IF row.receipt = "received" \/ t.receipt = "RECEIVED" THEN "RECEIVED" ELSE "PENDING",
     key     |-> RecordKey(row),
     amount  |-> Booked(row, y),
     version |-> v,
     book    |-> b,
     scanned |-> t.receipt # "none" /\ t.scanned]

RowOfTaxpayer(rows, y, c) == CHOOSE i \in Due(rows, y) : rows[i].company = c

\* What stops the import of rows that were read.
Conflicts(rows, y, v) ==
    \/ Due(rows, y) = {}
    \/ \E i \in Due(rows, y) :
           \/ rows[i].company \notin Taxpayer \/ Booked(rows[i], y) = 0
           \/ RefusedBook(refundTarget[y][rows[i].company], rows[i], y, v)

\* Mutant: an upload that is refused keeps its permit.
MutReleased(u) ==
    IF SheetsOf(uploaders[u].book, uploaders[u].year) = {} THEN permits ELSE permits + 1

Released(u) == permits + 1

\* The version is the caller's or the checksum of the file, for which the
\* workbook stands.  Without a permit left the request is refused at once, which
\* is no step.
TakePermit(u, b, y, v) ==
    /\ uploaders[u].pc = "idle" /\ permits > 0 /\ refundUploads < MaxRefundUploads
    /\ permits' = permits - 1
    /\ refundUploads' = refundUploads + 1
    /\ uploaders' = [uploaders EXCEPT ![u] = [pc |-> "inside", book |-> b, version |-> v, year |-> y]]
    /\ UNCHANGED refundTarget

\* The targets of a year after the rows of some companies.
Given(rows, y, b, v, companies) ==
    [c \in Taxpayer |->
        IF c \in companies THEN Imported(refundTarget[y][c], rows[RowOfTaxpayer(rows, y, c)], y, b, v)
        ELSE refundTarget[y][c]]

DueCompanies(rows, y) == {rows[i].company : i \in Due(rows, y)}

\* Mutant: rows that conflict are left out, the others are committed.
MutImportBook(b, y, v, rows) ==
    IF RefundRowErrors(rows, y) # {} THEN UNCHANGED refundTarget
    ELSE refundTarget' = [refundTarget EXCEPT ![y] =
             Given(rows, y, b, v, {c \in DueCompanies(rows, y) \cap Taxpayer :
                 LET row == rows[RowOfTaxpayer(rows, y, c)]
                 IN Booked(row, y) # 0 /\ ~RefusedBook(refundTarget[y][c], row, y, v)})]

ImportBook(b, y, v, rows) ==
    IF RefundRowErrors(rows, y) # {} \/ Conflicts(rows, y, v) THEN UNCHANGED refundTarget
    ELSE refundTarget' = [refundTarget EXCEPT ![y] = Given(rows, y, b, v, DueCompanies(rows, y))]

\* Too large, no sheet, errors in rows, a conflict, or the rows are targets: the
\* permit is given back whatever comes of it.
FinishUpload(u) ==
    /\ uploaders[u].pc = "inside"
    /\ LET b == uploaders[u].book
           y == uploaders[u].year
       IN IF b.size > MaxBookSize \/ SheetsOf(b, y) = {} THEN UNCHANGED refundTarget
          ELSE ImportBook(b, y, uploaders[u].version, SheetRows(b, y))
    /\ permits' = Released(u)
    /\ uploaders' = [uploaders EXCEPT ![u] = AtRestUploader]
    /\ UNCHANGED refundUploads

\* A scan leaves a result for a pending target, which may be its receipt.
ScanTarget(y, c, received) ==
    /\ refundTarget[y][c].receipt = "PENDING"
    /\ ~refundTarget[y][c].scanned \/ received
    /\ refundTarget' = [refundTarget EXCEPT ![y][c] =
           [@ EXCEPT !.scanned = TRUE, !.receipt = IF received THEN "RECEIVED" ELSE "PENDING"]]
    /\ UNCHANGED <<uploaders, permits, refundUploads>>

RefundBookNext ==
    \/ \E u \in Uploader, b \in RefundWorkbook, y \in RefundYear :
          \E v \in GivenVersion \cup {b} : TakePermit(u, b, y, v)
    \/ \E u \in Uploader : FinishUpload(u)
    \/ \E y \in RefundYear, c \in Taxpayer, received \in BOOLEAN : ScanTarget(y, c, received)

RefundBookSpec == RefundBookInit /\ [][RefundBookNext]_refundBookVars

-----------------------------------------------------------------------------

HasTarget(y, c) == refundTarget[y][c].receipt # "none"

GivenBy(t, b) == t.receipt # "none" /\ t.book = b

\* A target is what the workbook that gave it says of its company in its year, in
\* a row of its own: the amount but for the two roundings, and the receipt
\* (income_tax_refund_xlsx.py:222).
TargetsMatchBook ==
    \A y \in RefundYear, c \in Taxpayer : HasTarget(y, c) =>
        LET t == refundTarget[y][c]
            named == {i \in Due(SheetRows(t.book, y), y) : SheetRows(t.book, y)[i].company = c}
        IN /\ Cardinality(named) = 1
           /\ \A i \in named :
                 LET row == SheetRows(t.book, y)[i]
                     off == t.amount - row.amount[y]
                 IN /\ 2 * off <= CentGrain + FloatGrain /\ -2 * off <= CentGrain + FloatGrain
                    /\ t.amount > 0
                    /\ row.receipt = "received" => t.receipt = "RECEIVED"

\* A workbook leaves all its refunds or none: a step that makes it the giver of
\* one target makes it that of exactly the companies that are due in it, changes
\* no other target, and every row of it is sure (income_tax_refund_xlsx.py:241,
\* income_tax_refunds.py:170).
BooksAreWhole ==
    [][\A y \in RefundYear, b \in RefundWorkbook :
           (\E c \in Taxpayer : ~GivenBy(refundTarget[y][c], b) /\ GivenBy(refundTarget'[y][c], b)) =>
               LET rows == SheetRows(b, y)
                   due == DueCompanies(rows, y)
               IN /\ \A i \in DOMAIN rows : rows[i].blank \/ rows[i].involved[y] \in {"yes", "no"}
                  /\ due = {c \in Taxpayer : GivenBy(refundTarget'[y][c], b)}
                  /\ \A z \in RefundYear, c \in Taxpayer :
                        z # y \/ c \notin due => refundTarget'[z][c] = refundTarget[z][c]]_refundBookVars

\* No permit is lost, whatever the uploads end with
\* (routes/income_tax_refunds.py:176).
PermitsAccounted == permits + Cardinality({u \in Uploader : uploaders[u].pc = "inside"}) = Permit

\* What was scanned or received keeps its amount, and its receipt is not taken
\* back by a workbook (income_tax_refunds.py:249).
SettledStays ==
    [][refundTarget' # refundTarget =>
        \A y \in RefundYear, c \in Taxpayer :
            LET t == refundTarget[y][c]
            IN HasTarget(y, c) /\ (t.scanned \/ t.receipt = "RECEIVED") =>
                   /\ refundTarget'[y][c].amount = t.amount
                   /\ t.receipt = "RECEIVED" => refundTarget'[y][c].receipt = "RECEIVED"]_refundBookVars

RefundBookSound == [](TargetsMatchBook /\ PermitsAccounted) /\ BooksAreWhole /\ SettledStays
=============================================================================
