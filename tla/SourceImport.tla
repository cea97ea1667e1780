---------------------------- MODULE SourceImport ----------------------------
(***************************************************************************)
(* Imports under one source and batch key: rows are read from a DGC source *)
(* (or come as a file), a batch is created or found under the key, and the *)
(* rows are stored with it in one transaction.  Importers work at the same *)
(* time, may stop anywhere and come again; the source changes between them *)
(* and companies are deactivated.                                          *)
(***************************************************************************)
EXTENDS Integers, FiniteSets, FiniteSetsExt, Sequences

CONSTANTS
    Importer,      \* requests that can run at once
    Content,       \* what the source may hold: header (TRUE if right) and rows
    NoContent,     \* nothing read yet
    FirmCode,      \* companies that rows may name
    Asked,         \* descriptions a batch may be asked for with: period, currency, times
    TotalLimit,    \* the first control total that a NUMERIC column does not hold
    MaxImports     \* requests in one behaviour (a bound)

ASSUME ImportAssumption ==
    /\ TotalLimit \in Nat \ {0} /\ MaxImports \in Nat
    /\ "free" \notin Importer
    /\ NoContent \notin Content
    /\ \A content \in Content :
           /\ content.header \in BOOLEAN
           /\ content.rows \in Seq({content.rows[n] : n \in DOMAIN content.rows})

\* A row has a key, a company, an amount and a fault: "none", "unreadable" or
\* "mismatch" (its currency, scale or period is not the batch's).

VARIABLES
    channel,    \* how the rows come: "sap" (a file likewise) or "hesi"
    batch,      \* the row under the key
    stored,     \* records of the batch
    importers,  \* requests
    batchLock,  \* request whose transaction has the row, or "free"
    firmLock,   \* request whose transaction shares the companies' locks, or "free"
    activeFirms,\* companies that are active
    imports     \* requests so far

importVars ==
    <<channel, batch, stored, importers, batchLock, firmLock, activeFirms, imports>>

NoBatch == [status |-> "none"]
TerminalStatus == {"SUCCEEDED", "PARTIAL", "FAILED"}

Waiting == [pc |-> "idle", asked |-> "none", read |-> NoContent, active |-> {}, answer |-> "none"]

ImportInit ==
    /\ channel \in {"sap", "hesi"}
    /\ batch = NoBatch
    /\ stored = {}
    /\ importers = [i \in Importer |-> Waiting]
    /\ batchLock = "free" /\ firmLock = "free"
    /\ activeFirms = FirmCode
    /\ imports = 0

\* What the batch says of itself.  Hesi adds the checksums of what was read.
Described(i) ==
    [asked |-> importers[i].asked,
     source |-> IF channel = "hesi" THEN importers[i].read ELSE NoContent]

Answer(i, result) == importers' = [importers EXCEPT ![i] = [@ EXCEPT !.pc = "idle", !.answer = result]]
Proceed(i, pc) == importers' = [importers EXCEPT ![i].pc = pc]

-----------------------------------------------------------------------------
(* Reading and the batch row.                                              *)

\* The remote read is complete before anything is written; the source may
\* hold something else each time.  A file is whatever its sender has.
Fetch(i, asked, content) ==
    /\ importers[i].pc = "idle" /\ imports < MaxImports
    /\ imports' = imports + 1
    /\ importers' = [importers EXCEPT ![i] = [Waiting EXCEPT !.pc = "find", !.asked = asked, !.read = content]]
    /\ UNCHANGED <<channel, batch, stored, batchLock, firmLock, activeFirms>>

\* Mutant: whatever is under the key is taken.
MutDescribes(i) == TRUE

Describes(i) == batch.described = Described(i)

FindBatch(i) ==
    /\ importers[i].pc = "find"
    /\ IF batch = NoBatch THEN Proceed(i, "insert")
       ELSE IF Describes(i) THEN Proceed(i, "begin")
       ELSE Answer(i, "IDEMPOTENCY_METADATA_CONFLICT")
    /\ UNCHANGED <<channel, batch, stored, batchLock, firmLock, activeFirms, imports>>

Received(described) ==
    [status |-> "RECEIVED", described |-> described, checksum |-> NoContent,
     count |-> 0, accepted |-> 0, rejected |-> 0, total |-> 0, errors |-> 0]

\* The key is unique: who comes second reads what the first one put there.
InsertBatch(i) ==
    /\ importers[i].pc = "insert"
    /\ IF batch = NoBatch
       THEN batch' = Received(Described(i)) /\ Proceed(i, "begin")
       ELSE UNCHANGED batch /\ Proceed(i, "find")
    /\ UNCHANGED <<channel, stored, batchLock, firmLock, activeFirms, imports>>

-----------------------------------------------------------------------------
(* Which rows are accepted.                                                *)

\* Mutant: only accepted rows take their key.
MutRepeated(rows, n) ==
    \E k \in 1 .. n - 1 : rows[k].fault = "none" /\ rows[k].key = rows[n].key

\* The first readable row of a key takes it, though it may be rejected.
Repeated(rows, n) ==
    \E k \in 1 .. n - 1 : rows[k].fault # "unreadable" /\ rows[k].key = rows[n].key

Candidates(rows) == {n \in DOMAIN rows : rows[n].fault = "none" /\ ~Repeated(rows, n)}

\* Mutant: inactive companies are as good as active ones.
MutAcceptable(rows, active) == Candidates(rows)

Acceptable(rows, active) == {n \in Candidates(rows) : rows[n].company \in active}

ControlTotal(rows, accepted) == MapThenSumSet(LAMBDA n : rows[n].amount, accepted)
TotalFits(x) == -TotalLimit < x /\ x < TotalLimit

\* Mutant: a file without rows has no error.
MutEmptyError(rows) == 0

EmptyError(rows) == IF rows = <<>> THEN 1 ELSE 0

StatusFor(accepted, rejected) ==
    IF accepted = 0 THEN "FAILED" ELSE IF rejected = 0 THEN "SUCCEEDED" ELSE "PARTIAL"

\* All or nothing if the total cannot be stored.
Processed(b, rows, active) ==
    LET good == Acceptable(rows, active)
        bad == Cardinality(DOMAIN rows \ good)
        fits == good = {} \/ TotalFits(ControlTotal(rows, good))
        accepted == IF fits THEN Cardinality(good) ELSE 0
        rejected == IF fits THEN bad ELSE Len(rows)
    IN  [b EXCEPT !.status = StatusFor(accepted, rejected), !.count = Len(rows),
                  !.accepted = accepted, !.rejected = rejected,
                  !.total = IF fits THEN ControlTotal(rows, good) ELSE 0,
                  !.errors = bad + (IF fits THEN 0 ELSE 1) + EmptyError(rows)]

RecordsOf(rows, active) ==
    LET good == Acceptable(rows, active)
    IN  IF good = {} \/ TotalFits(ControlTotal(rows, good))
        THEN {[key |-> rows[n].key, number |-> n, row |-> rows[n]] : n \in good} ELSE {}

-----------------------------------------------------------------------------
(* The transaction.                                                        *)

\* Mutant: a terminal batch is answered with whatever was sent.
MutSameFile(i) == TRUE

SameFile(i) == batch.checksum = importers[i].read

\* The batch is locked; one that is done answers for its own file only.
BeginTransaction(i) ==
    /\ importers[i].pc = "begin" /\ batchLock = "free"
    /\ IF batch.status \in TerminalStatus
       THEN /\ Answer(i, IF SameFile(i) THEN "batch" ELSE "TERMINAL_BATCH_FILE_CONFLICT")
            /\ UNCHANGED batchLock
       ELSE batchLock' = i /\ Proceed(i, "process")
    /\ UNCHANGED <<channel, batch, stored, firmLock, activeFirms, imports>>

\* A header that is wrong fails the batch, before any row is looked at.
RejectHeader(i) ==
    /\ importers[i].pc = "process" /\ ~importers[i].read.header
    /\ batch' = [batch EXCEPT !.status = "FAILED", !.checksum = importers[i].read, !.errors = 1]
    /\ batchLock' = "free"
    /\ Answer(i, "FileSchemaError")
    /\ UNCHANGED <<channel, stored, firmLock, activeFirms, imports>>

\* Companies are read under a lock that the master's events wait for.
\* Mutant: they are read without it.
MutShareLock(i) == UNCHANGED firmLock

ShareLock(i) == firmLock' = i

LockFirms(i) ==
    /\ importers[i].pc = "process" /\ importers[i].read.header
    /\ ShareLock(i)
    /\ importers' = [importers EXCEPT ![i] = [@ EXCEPT !.pc = "commit", !.active = activeFirms]]
    /\ UNCHANGED <<channel, batch, stored, batchLock, activeFirms, imports>>

Unlock(i) == batchLock' = "free" /\ firmLock' = (IF firmLock = i THEN "free" ELSE firmLock)

CommitImport(i) ==
    /\ importers[i].pc = "commit"
    /\ batch' = [Processed(batch, importers[i].read.rows, importers[i].active)
                    EXCEPT !.checksum = importers[i].read]
    /\ stored' = RecordsOf(importers[i].read.rows, importers[i].active)
    /\ Unlock(i)
    /\ Answer(i, "batch")
    /\ UNCHANGED <<channel, activeFirms, imports>>

\* Anything else that goes wrong is rolled back, and told in a second
\* transaction.
ImportFails(i) ==
    /\ importers[i].pc \in {"process", "commit"}
    /\ Unlock(i)
    /\ Proceed(i, "tell")
    /\ UNCHANGED <<channel, batch, stored, activeFirms, imports>>

\* Mutant: the failure is told of whatever another request made of the batch.
MutStillOpen == TRUE

StillOpen == batch.status \notin TerminalStatus

TellFailure(i) ==
    /\ importers[i].pc = "tell" /\ batchLock = "free"
    /\ IF StillOpen
       THEN batch' = [batch EXCEPT !.status = "FAILED", !.checksum = importers[i].read, !.count = 0,
                                   !.accepted = 0, !.rejected = 0, !.total = 0, !.errors = @ + 1]
       ELSE UNCHANGED batch
    /\ Answer(i, "INGEST_PROCESSING_FAILED")
    /\ UNCHANGED <<channel, stored, batchLock, firmLock, activeFirms, imports>>

\* The second transaction may fail as well: the batch stays as it was.
TellingFails(i) ==
    /\ importers[i].pc = "tell"
    /\ Answer(i, "INGEST_PROCESSING_FAILED")
    /\ UNCHANGED <<channel, batch, stored, batchLock, firmLock, activeFirms, imports>>

\* The process stops: what was not committed is gone.
StopImport(i) ==
    /\ importers[i].pc # "idle"
    /\ IF batchLock = i THEN Unlock(i) ELSE UNCHANGED <<batchLock, firmLock>>
    /\ Answer(i, "none")
    /\ UNCHANGED <<channel, batch, stored, activeFirms, imports>>

-----------------------------------------------------------------------------
(* Surroundings.                                                           *)

\* A company master event needs the company's lock for itself.
Deactivate(firm) ==
    /\ firm \in activeFirms /\ firmLock = "free"
    /\ activeFirms' = activeFirms \ {firm}
    /\ UNCHANGED <<channel, batch, stored, importers, batchLock, firmLock, imports>>

ImportStep(i) ==
    \/ FindBatch(i) \/ InsertBatch(i) \/ BeginTransaction(i) \/ RejectHeader(i) \/ LockFirms(i)
    \/ CommitImport(i) \/ ImportFails(i) \/ TellFailure(i) \/ TellingFails(i) \/ StopImport(i)

ImportNext ==
    \/ \E i \in Importer : ImportStep(i)
    \/ \E i \in Importer, asked \in Asked, content \in Content : Fetch(i, asked, content)
    \/ \E firm \in FirmCode : Deactivate(firm)

ImportSpec == ImportInit /\ [][ImportNext]_importVars

-----------------------------------------------------------------------------
(* What an import promises.                                                *)

\* The rows a batch has records of, by the numbers in their lineage.
StoredNumbers == {one.number : one \in stored}

ImportTypeOK ==
    /\ channel \in {"sap", "hesi"}
    /\ batch.status \in TerminalStatus \cup {"none", "RECEIVED"}
    /\ batchLock \in Importer \cup {"free"} /\ firmLock \in Importer \cup {"free"}
    /\ activeFirms \subseteq FirmCode /\ imports \in 0 .. MaxImports
    /\ \A i \in Importer : importers[i].read \in Content \cup {NoContent}

\* A batch accounts for every row of what it bears the checksum of, and its
\* records are rows of it, one for a key, that add up to its control total.
BatchAddsUp ==
    batch.status \in TerminalStatus =>
        /\ batch.accepted + batch.rejected = batch.count
        /\ batch.accepted = Cardinality(stored)
        /\ batch.total = ControlTotal(batch.checksum.rows, StoredNumbers)
        /\ TotalFits(batch.total)
        /\ \A one, other \in stored : one.key = other.key => one = other
        /\ \A one \in stored : one.number \in DOMAIN batch.checksum.rows
                              /\ batch.checksum.rows[one.number] = one.row

\* A batch that is not a success says why, a success has nothing to say.
FailureExplained ==
    batch.status \in TerminalStatus => (batch.errors = 0 <=> batch.status = "SUCCEEDED")

\* Of a key that comes twice no later row is stored in place of the first one.
FirstRowOfKey ==
    \A one \in stored : \A k \in 1 .. one.number - 1 :
        batch.checksum.rows[k].key = one.key => batch.checksum.rows[k].fault = "unreadable"

\* Whoever is answered with the batch is answered with what was read for it,
\* under the description that was asked for.
AnsweredForOwnRows ==
    \A i \in Importer : importers[i].answer = "batch" =>
        /\ batch.checksum = importers[i].read
        /\ batch.described = Described(i)

\* A row is accepted only for a company that is active as it is stored.
StoredForActive ==
    [][\A one \in stored' \ stored : one.row.company \in activeFirms']_importVars

\* Once terminal a batch is never written again, by no late import and no late
\* failure.
TerminalBatchStays ==
    [][batch.status \in TerminalStatus => batch' = batch /\ stored' = stored]_importVars

ImportSound ==
    /\ [](ImportTypeOK /\ BatchAddsUp /\ FailureExplained /\ FirstRowOfKey /\ AnsweredForOwnRows)
    /\ StoredForActive /\ TerminalBatchStays
=============================================================================
