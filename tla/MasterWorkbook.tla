---------------------------- MODULE MasterWorkbook ----------------------------
(***************************************************************************)
(* The tax master's workbooks: what is read of a file, all of it or        *)
(* nothing, the batch and the drafts it leaves under its key, their review *)
(* by somebody else, and the version that answers for a day.  Uploads and  *)
(* reviews run at the same time; companies are renamed and deactivated     *)
(* between their steps.                                                    *)
(***************************************************************************)
EXTENDS Integers, Sequences, FiniteSets, FiniteSetsExt

CONSTANTS
    MasterUpload,    \* uploads: by, name, book
    MasterSender,    \* spellings of people
    SameSender,      \* what a spelling is normalised to
    FirmState,       \* for each company, what it may be: active, name
    FirstState,      \* what each company is at first
    Clerk, Reviewer, \* uploads and reviews that can run at once
    NoMasterUpload,
    MaxMembers, MaxMemberSize, MaxTotalSize, MaxRatio, \* limits of an archive
    MaxSheetRows, MaxSheetCells,                       \* limits of a sheet
    LossLimit,       \* the first total of losses that its column does not hold
    OpenEnd,         \* the last day there is
    MaxMasterUploads \* uploads in one behaviour (a bound)

\* What a file can hold: cells have a place on their sheet, a row of data has a
\* period within the days there are.
IsSheet(s) ==
    /\ s.rows \in Seq(Nat) /\ IsFiniteSet(s.cells)
    /\ \A c \in s.cells : c.column \in Nat \ {0} /\ c.row \in Nat \ {0}

IsDataRow(row) == row.from \in 1 .. OpenEnd /\ row.to \in 0 .. OpenEnd /\ row.loss \in Int

IsMasterUpload(u) ==
    /\ u = [by |-> u.by, name |-> u.name, book |-> u.book] /\ u.by \in MasterSender
    /\ \A p \in u.book.types : IsSheet(u.book.sheets[p])
    /\ u.book.rows \in Seq({u.book.rows[i] : i \in DOMAIN u.book.rows})
    /\ \A i \in DOMAIN u.book.rows : IsDataRow(u.book.rows[i])

ASSUME WorkbookAssumption ==
    /\ {MaxMembers, MaxMemberSize, MaxTotalSize, MaxRatio, MaxSheetRows, MaxSheetCells}
           \subseteq Nat \ {0}
    /\ LossLimit \in Nat /\ OpenEnd \in Nat \ {0} /\ MaxMasterUploads \in Nat
    /\ \A u \in MasterUpload : IsMasterUpload(u)
    /\ \A p \in MasterSender : SameSender[p] \in MasterSender /\ SameSender[SameSender[p]] = SameSender[p]

VARIABLES
    masterBatch,   \* the batch under each key
    draft,         \* the versions each key's batch has, by row
    clerks,        \* uploads under way
    reviewers,     \* reviews under way
    firm,          \* companies
    masterUploads  \* uploads so far

workbookVars == <<masterBatch, draft, clerks, reviewers, firm, masterUploads>>

-----------------------------------------------------------------------------
(* The archive.  A member has a name, a size and the size it is packed to. *)
(* The workbook names its sheets by relations; a relation has an id, a     *)
(* kind, a part and is external or not; types tells which parts are        *)
(* worksheets.                                                             *)

Unpacked(b) == MapThenSumSet(LAMBDA i : b.members[i].size, DOMAIN b.members)

TooBig(b) ==
    \/ Len(b.members) > MaxMembers \/ Unpacked(b) > MaxTotalSize
    \/ \E i \in DOMAIN b.members :
           \/ b.members[i].size > MaxMemberSize
           \/ b.members[i].size > MaxRatio * Max({b.members[i].packed, 1})

MemberNames(b) == {b.members[i].name : i \in DOMAIN b.members}

SheetRelations(b) == {r \in b.relations : r.id \in b.sheetIds}
WorksheetParts(b) == {r.part : r \in {r \in SheetRelations(b) : r.kind # "chartsheet"}}

\* Every sheet named is one of the archive's worksheets, by one relation.
Coherent(b) ==
    /\ Cardinality(MemberNames(b)) = Len(b.members)
    /\ \A q, r \in b.relations : q.id = r.id => q = r
    /\ b.sheetIds \subseteq {r.id : r \in b.relations}
    /\ \A r \in SheetRelations(b) : ~r.external /\ r.kind \in {"worksheet", "chartsheet"}
    /\ WorksheetParts(b) # {} /\ WorksheetParts(b) \subseteq b.types \cap MemberNames(b)

\* A sheet declares an extent or not (0), has row elements with or without an
\* index (0) and cells with a column and a row.
Columns(s) == {c.column : c \in s.cells}
AllocatedRows(s) == Max({c.row : c \in s.cells} \cup {s.rows[i] : i \in DOMAIN s.rows} \cup {Len(s.rows)})

\* Mutant: only the cells that are there count.
MutSheetTooBig(s) ==
    s.declaredRows > MaxSheetRows \/ s.declaredCells > MaxSheetCells \/ AllocatedRows(s) > MaxSheetRows
    \/ Cardinality(s.cells) > MaxSheetCells

SheetTooBig(s) ==
    \/ s.declaredRows > MaxSheetRows \/ s.declaredCells > MaxSheetCells
    \/ AllocatedRows(s) > MaxSheetRows
    \/ AllocatedRows(s) * Max(Columns(s) \cup {0}) > MaxSheetCells

\* What a file is refused for before any of it is read, if it is.
Preflight(b) ==
    IF TooBig(b) THEN "XLSX_RESOURCE_LIMIT_EXCEEDED"
    ELSE IF ~Coherent(b) THEN "INVALID_XLSX"
    ELSE IF \E p \in WorksheetParts(b) : SheetTooBig(b.sheets[p]) THEN "XLSX_RESOURCE_LIMIT_EXCEEDED"
    ELSE "read"

\* What reading a sheet delivers: each row up to its last cell.
Delivered(s) ==
    MapThenSumSet(LAMBDA n : Max({c.column : c \in {c \in s.cells : c.row = n}}),
                  {c.row : c \in s.cells})

-----------------------------------------------------------------------------
(* The rows.  A row has a fault: "blank", "uncached" (a formula without a  *)
(* value), "narrow", "unreadable" or "none"; a loss below zero is one that *)
(* is not readable; to is 0 for a period without an end.                   *)

DataRows(b) == {i \in DOMAIN b.rows : b.rows[i].fault # "blank"}

\* Mutant: a blank row ends the data.
MutStranded(b) == {}

Stranded(b) ==
    {i \in DOMAIN b.rows : b.rows[i].fault = "blank" /\ \E j \in DataRows(b) : j > i}

End(row) == IF row.to = 0 THEN OpenEnd ELSE row.to

Readable(row) == row.fault = "none" /\ row.loss >= 0

Parsed(b) == {i \in DataRows(b) : Readable(b.rows[i]) /\ b.rows[i].from <= End(b.rows[i])}

PeriodsMeet(x, y) == x.from <= End(y) /\ y.from <= End(x)

Clashing(b) ==
    {j \in Parsed(b) : \E i \in Parsed(b) :
        i < j /\ b.rows[i].company = b.rows[j].company /\ PeriodsMeet(b.rows[i], b.rows[j])}

\* The errors of a file: all its rows', or the one of the file.
FileErrors(b) ==
    IF Preflight(b) # "read" THEN {[row |-> 1, code |-> Preflight(b)]}
    ELSE IF ~b.header THEN {[row |-> 1, code |-> "INVALID_HEADER"]}
    ELSE IF DataRows(b) = {} THEN {[row |-> 1, code |-> "EMPTY_FILE"]}
    ELSE {[row |-> i, code |-> "BLANK_ROW"] : i \in Stranded(b)}
         \cup {[row |-> i, code |-> "INVALID"] : i \in DataRows(b) \ Parsed(b)}
         \cup {[row |-> i, code |-> "PERIOD"] : i \in Clashing(b)}

TableRead(b) == Preflight(b) = "read" /\ b.header

LossTotal(b, rows) == MapThenSumSet(LAMBDA i : b.rows[i].loss, rows)

\* Mutant: the losses of rows in error are left out.
MutLossControl(b) == LossTotal(b, Parsed(b))

\* Zero unless every row's loss is readable.
LossControl(b) ==
    IF TableRead(b) /\ \A i \in DataRows(b) : b.rows[i].loss >= 0 THEN LossTotal(b, DataRows(b)) ELSE 0

-----------------------------------------------------------------------------
(* The batch.                                                              *)

\* Mutant: two spellings of a name are two senders.
MutKey(u) == u

Key(u) == [u EXCEPT !.by = SameSender[u.by]]

Kept == DOMAIN masterBatch

WorkbookInit ==
    /\ masterBatch = [k \in {} |-> 0]
    /\ draft = [k \in {} |-> 0]
    /\ clerks = [c \in Clerk |-> [pc |-> "idle", upload |-> NoMasterUpload]]
    /\ reviewers = [r \in Reviewer |-> [pc |-> "idle", key |-> NoMasterUpload, row |-> 0, who |-> "none"]]
    /\ firm = FirstState
    /\ masterUploads = 0

CompanyFault(row) ==
    IF row.company \notin DOMAIN firm THEN "UNKNOWN_COMPANY"
    ELSE IF ~firm[row.company].active THEN "INACTIVE_COMPANY"
    ELSE IF firm[row.company].name # row.name THEN "COMPANY_NAME_MISMATCH" ELSE "none"

CompanyErrors(b) ==
    {[row |-> i, code |-> CompanyFault(b.rows[i])] :
        i \in {i \in Parsed(b) : CompanyFault(b.rows[i]) # "none"}}

\* Companies are only looked at when the file has no error.
MasterErrors(b) ==
    LET found == IF FileErrors(b) # {} THEN FileErrors(b) ELSE CompanyErrors(b)
    IN IF LossControl(b) >= LossLimit
       THEN found \cup {[row |-> 1, code |-> "CONTROL_TOTAL_OUT_OF_RANGE"]} ELSE found

NewBatch(b) ==
    [status   |-> IF MasterErrors(b) = {} THEN "SUCCEEDED" ELSE "FAILED",
     records  |-> IF TableRead(b) THEN Cardinality(DataRows(b)) ELSE 0,
     accepted |-> IF MasterErrors(b) = {} THEN Cardinality(DataRows(b)) ELSE 0,
     total    |-> IF LossControl(b) >= LossLimit THEN 0 ELSE LossControl(b),
     errors   |-> MasterErrors(b)]

ClerkGoes(c, pc, u) == clerks' = [clerks EXCEPT ![c] = [pc |-> pc, upload |-> u]]

\* No batch is found under the key, and the file is read.  One that is found
\* answers at once.
ProbeReplay(c, u) ==
    /\ clerks[c].pc = "idle" /\ masterUploads < MaxMasterUploads
    /\ Key(u) \notin Kept
    /\ masterUploads' = masterUploads + 1
    /\ ClerkGoes(c, "record", u)
    /\ UNCHANGED <<masterBatch, draft, reviewers, firm>>

\* Mutant: what was not there before is not looked for again.
MutRecordedMeanwhile(k) == FALSE

RecordedMeanwhile(k) == k \in Kept

Under(k, x, table) == [j \in DOMAIN table \cup {k} |-> IF j = k THEN x ELSE table[j]]

\* One transaction under the key's lock: the batch with its errors, or with a
\* draft for every row; the companies are locked until it ends.
RecordWorkbook(c) ==
    /\ clerks[c].pc = "record"
    /\ LET k == Key(clerks[c].upload)
           b == clerks[c].upload.book
       IN IF RecordedMeanwhile(k) THEN UNCHANGED <<masterBatch, draft>>
          ELSE \E recorded \in {NewBatch(b)} :
              /\ masterBatch' = Under(k, recorded, masterBatch)
              /\ draft' = Under(k, IF recorded.status = "FAILED" THEN <<>>
                                   ELSE [i \in Parsed(b) |->
                                            [status |-> "DRAFT", reviewer |-> "none"]], draft)
    /\ ClerkGoes(c, "idle", NoMasterUpload)
    /\ UNCHANGED <<reviewers, firm, masterUploads>>

DropUpload(c) ==
    /\ clerks[c].pc = "record"
    /\ ClerkGoes(c, "idle", NoMasterUpload)
    /\ UNCHANGED <<masterBatch, draft, reviewers, firm, masterUploads>>

-----------------------------------------------------------------------------
(* Review.  A version is a key and a row of its workbook.                  *)

VersionsIn(status) ==
    UNION {{[key |-> k, row |-> i] : i \in {i \in DOMAIN draft[k] : draft[k][i].status = status}} :
           k \in Kept}

RowOf(v) == v.key.book.rows[v.row]

VersionFree(v) ==
    \A r \in Reviewer : reviewers[r].pc = "publish" => [key |-> reviewers[r].key, row |-> reviewers[r].row] # v

\* Mutant: names are compared as they are spelt.
MutIsMaker(who, k) == who = k.by

IsMaker(who, k) == SameSender[who] = k.by

\* The version is locked and found to be a draft of somebody else.
OpenReview(r, v, who) ==
    /\ reviewers[r].pc = "idle"
    /\ VersionFree(v) /\ ~IsMaker(who, v.key)
    /\ reviewers' = [reviewers EXCEPT ![r] =
           [pc |-> "publish", key |-> v.key, row |-> v.row, who |-> SameSender[who]]]
    /\ UNCHANGED <<masterBatch, draft, clerks, firm, masterUploads>>

SameFirmPublished(v) == {w \in VersionsIn("PUBLISHED") : RowOf(w).company = RowOf(v).company}

\* Mutant: only a published version that covers the first day counts.
MutOverlapping(v) ==
    {w \in SameFirmPublished(v) : RowOf(w).from <= RowOf(v).from /\ RowOf(v).from <= End(RowOf(w))}

Overlapping(v) == {w \in SameFirmPublished(v) : PeriodsMeet(RowOf(v), RowOf(w))}

\* Mutant: the company is taken as it was imported.
MutStillFits(v) == TRUE

\* The company, locked and read again, is active under the imported name.
StillFits(v) == CompanyFault(RowOf(v)) = "none"

Publish(r) ==
    LET v == [key |-> reviewers[r].key, row |-> reviewers[r].row]
    IN /\ reviewers[r].pc = "publish"
       /\ draft' = IF StillFits(v) /\ Overlapping(v) = {}
                   THEN [draft EXCEPT ![v.key][v.row] =
                            [status |-> "PUBLISHED", reviewer |-> reviewers[r].who]]
                   ELSE draft
       /\ reviewers' = [reviewers EXCEPT ![r] =
              [pc |-> "idle", key |-> NoMasterUpload, row |-> 0, who |-> "none"]]
       /\ UNCHANGED <<masterBatch, clerks, firm, masterUploads>>

ChangeFirm(c, state) ==
    /\ firm[c] # state
    /\ firm' = [firm EXCEPT ![c] = state]
    /\ UNCHANGED <<masterBatch, draft, clerks, reviewers, masterUploads>>

WorkbookNext ==
    \/ \E c \in Clerk, u \in MasterUpload : ProbeReplay(c, u)
    \/ \E c \in Clerk : RecordWorkbook(c) \/ DropUpload(c)
    \/ \E r \in Reviewer, v \in VersionsIn("DRAFT"), who \in MasterSender : OpenReview(r, v, who)
    \/ \E r \in Reviewer : Publish(r)
    \/ \E c \in DOMAIN firm : \E state \in FirmState[c] : ChangeFirm(c, state)

WorkbookSpec == WorkbookInit /\ [][WorkbookNext]_workbookVars

-----------------------------------------------------------------------------
(* What a lookup answers with: the published versions that cover the day;  *)
(* it refuses when there is none or more than one.                         *)

LookupMatches(c, day) ==
    {v \in VersionsIn("PUBLISHED") :
        RowOf(v).company = c /\ RowOf(v).from <= day /\ day <= End(RowOf(v))}

-----------------------------------------------------------------------------

\* A file that is read never delivers more cells or rows than the limits, however
\* its cells are spread (tax_master_xlsx.py:522).
ReadingIsBounded ==
    \A k \in Kept : Preflight(k.book) = "read" =>
        \A p \in WorksheetParts(k.book) : Delivered(k.book.sheets[p]) <= MaxSheetCells

\* A batch is all of its workbook or nothing: it succeeded exactly when it has a
\* draft for each row there is data in, and those of a company never meet, with
\* no row between them left out (tax_master_xlsx.py:188, master_data.py:200).
AllOrNothing ==
    \A k \in Kept :
        /\ masterBatch[k].status = "FAILED" => draft[k] = <<>> /\ masterBatch[k].errors # {}
        /\ masterBatch[k].status = "SUCCEEDED" =>
               /\ DOMAIN draft[k] = 1 .. Cardinality(DOMAIN draft[k])
               /\ Cardinality(DOMAIN draft[k]) = masterBatch[k].accepted
               /\ \A i, j \in DOMAIN draft[k] : i # j =>
                      \/ k.book.rows[i].company # k.book.rows[j].company
                      \/ \A day \in 1 .. OpenEnd :
                             ~(/\ k.book.rows[i].from <= day
                               /\ k.book.rows[i].to = 0 \/ day <= k.book.rows[i].to
                               /\ k.book.rows[j].from <= day
                               /\ k.book.rows[j].to = 0 \/ day <= k.book.rows[j].to)

\* The control total of a batch is that of every row of its file, the rejected
\* ones too, or none (tax_master_xlsx.py:212, master_data.py:625).
TotalOfEveryRow ==
    \A k \in Kept : masterBatch[k].total # 0 =>
        masterBatch[k].total = LossTotal(k.book, DataRows(k.book))

\* Nobody publishes what they uploaded, however the name is spelt
\* (master_data.py:324).
MakerNeverReviews ==
    \A v \in VersionsIn("PUBLISHED") :
        SameSender[draft[v.key][v.row].reviewer] # SameSender[v.key.by]

\* One person's upload of one file under one name leaves one batch.
OneBatchPerUpload ==
    \A j, k \in Kept : Key(j) = Key(k) => j = k

\* A batch and its drafts are never replaced: whoever comes second is answered
\* with what the first left, whatever has become of the companies
\* (master_data.py:168).
BatchesStay ==
    [][\A k \in Kept : masterBatch'[k] = masterBatch[k] /\ DOMAIN draft'[k] = DOMAIN draft[k]]_workbookVars

\* Once a version answers for a company on a day it goes on to, alone
\* (master_data.py:352).
AnswersStay ==
    [][draft' # draft =>
        \A c \in DOMAIN firm, day \in 1 .. OpenEnd :
            LookupMatches(c, day) # {} => LookupMatches(c, day)' = LookupMatches(c, day)]_workbookVars

\* A version is published only for a company that is active under the name it
\* was imported with, at that moment (master_data.py:341).
PublishedFits ==
    [][draft' # draft =>
        \A v \in VersionsIn("PUBLISHED")' \ VersionsIn("PUBLISHED") :
            /\ RowOf(v).company \in DOMAIN firm
            /\ firm[RowOf(v).company].active /\ firm[RowOf(v).company].name = RowOf(v).name]_workbookVars

WorkbookSound ==
    /\ [](/\ ReadingIsBounded /\ AllOrNothing /\ TotalOfEveryRow /\ MakerNeverReviews
          /\ OneBatchPerUpload)
    /\ BatchesStay /\ AnswersStay /\ PublishedFits
=============================================================================
