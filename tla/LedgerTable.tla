----------------------------- MODULE LedgerTable -----------------------------
(***************************************************************************)
(* A write to the refund ledger in Feishu: the client searches the table   *)
(* page by page for the one record of a company, changes its status and    *)
(* searches again to see that it stands.  The search matches words, so     *)
(* other companies' records come too; people edit the table and the format *)
(* of its column meanwhile, and nothing tells the client.                  *)
(***************************************************************************)
EXTENDS Integers, Sequences, SequencesExt, FiniteSets

CONSTANTS
    LedgerWriter,  \* deliveries for the company that write at once
    FirstTable,    \* tables there may be: records with id, code and status
    RecordId,      \* ids of records
    NoRecordId,
    LedgerPage,    \* page_size
    MaxLedgerPages,\* max_pages
    MaxLedgerEdits,\* edits of people in one behaviour (a bound)
    LedgerFaults,  \* what may happen to a request
    MaxLedgerFaults\* how much of it does in one behaviour (a bound)

\* A request that fails, one whose effect stays but whose answer is lost, an
\* update that is not done though the answer says nothing or names the field.
LedgerFaultKinds == {"error", "lost", "silent", "ignored"}

ASSUME LedgerAssumption ==
    /\ NoRecordId \notin RecordId
    /\ LedgerPage \in Nat \ {0} /\ MaxLedgerPages \in Nat \ {0}
    /\ MaxLedgerEdits \in Nat /\ MaxLedgerFaults \in Nat
    /\ LedgerFaults \subseteq LedgerFaultKinds

VARIABLES
    table,       \* the records, in the order of the search
    pageLength,  \* rows that the service puts on a page
    column,      \* the status column: "text", "select", "readonly" or "unreadable"
    writers,     \* the writes
    told,        \* for each, the records that held the status since it began
    ledgerEdits, \* edits so far
    ledgerFaults \* faults so far

ledgerVars == <<table, pageLength, column, writers, told, ledgerEdits, ledgerFaults>>

\* A record's code is the company's ("own") or only contains it ("near"); its
\* status is the one to write or "other".
Holders(records) ==
    {records[i].id : i \in {i \in DOMAIN records : records[i].code = "own" /\ records[i].status = "wanted"}}
Owners(records) == {i \in DOMAIN records : records[i].code = "own"}

Unstarted ==
    [pc |-> "idle", offset |-> 0, pages |-> 0, seen |-> {}, exact |-> {}, record |-> NoRecordId,
     quiet |-> TRUE, result |-> "none"]

LedgerInit ==
    /\ table \in FirstTable
    /\ pageLength \in 1 .. LedgerPage
    /\ column \in {"text", "select", "readonly", "unreadable"}
    /\ writers = [w \in LedgerWriter |-> Unstarted]
    /\ told = [w \in LedgerWriter |-> {}]
    /\ ledgerEdits = 0 /\ ledgerFaults = 0

LedgerFault(kind) ==
    kind \in LedgerFaults /\ ledgerFaults < MaxLedgerFaults /\ ledgerFaults' = ledgerFaults + 1

Ends(w, result, record) ==
    writers' = [writers EXCEPT ![w] =
        [Unstarted EXCEPT !.pc = "ended", !.quiet = writers[w].quiet, !.result = result, !.record = record]]

Searches(w, pc, record) ==
    writers' = [writers EXCEPT ![w] =
        [Unstarted EXCEPT !.pc = pc, !.quiet = writers[w].quiet, !.record = record]]

\* Mutant: any column that can be read will do.
MutColumnFits == column # "unreadable"

ColumnFits == column = "text"

\* A delivery has a client of its own, which looks at the columns first.
EnsureSchema(w) ==
    /\ writers[w].pc = "idle"
    /\ IF ColumnFits THEN Searches(w, "search", NoRecordId) ELSE Ends(w, "schema", NoRecordId)
    /\ UNCHANGED <<table, pageLength, column, ledgerEdits, ledgerFaults>>

-----------------------------------------------------------------------------
(* The search.                                                             *)

Least2(x, y) == IF x < y THEN x ELSE y

PageOf(w) == SubSeq(table, writers[w].offset + 1, Least2(writers[w].offset + pageLength, Len(table)))
HasMore(w) == writers[w].offset + Len(PageOf(w)) < Len(table)

\* Mutant: what contains the code counts.
MutIsExact(r) == TRUE

IsExact(r) == r.code = "own"

ExactOf(w) ==
    {[id |-> r.id, status |-> r.status] : r \in {r \in ToSet(PageOf(w)) : IsExact(r)}}

Repeats(w) == \E r \in ToSet(PageOf(w)) : r.id \in writers[w].seen

\* Mutant: the search ends with the first record that fits.
MutSearchEnds(w) == ~HasMore(w) \/ ExactOf(w) # {}

SearchEnds(w) == ~HasMore(w)

\* Mutant: pages are taken to be as long as was asked for.
MutNextRow(w) == writers[w].offset + LedgerPage

NextRow(w) == writers[w].offset + Len(PageOf(w))

\* Mutant: an update that was not refused is done.
MutStands(w, found) == TRUE

\* The same record, alone and with the status.
Stands(w, found) == found = {[id |-> writers[w].record, status |-> "wanted"]}

\* The record is to be the only one, before and after the update.
SearchDone(w, found) ==
    IF writers[w].pc = "search"
    THEN IF found = {} THEN Ends(w, "missing", NoRecordId)
         ELSE LET only == CHOOSE r \in found : TRUE
              IN IF only.status = "wanted" THEN Ends(w, "unchanged", only.id)
                 ELSE Searches(w, "patch", only.id)
    ELSE IF Stands(w, found) THEN Ends(w, "updated", writers[w].record)
         ELSE Ends(w, "unconfirmed", writers[w].record)

SearchPage(w) ==
    /\ writers[w].pc \in {"search", "confirm"}
    /\ \E found \in {writers[w].exact \cup ExactOf(w)} :
           IF Repeats(w) THEN Ends(w, "pagination", writers[w].record)
           ELSE IF Cardinality(found) > 1 THEN Ends(w, "duplicate", writers[w].record)
           ELSE IF SearchEnds(w) THEN SearchDone(w, found)
           ELSE IF writers[w].pages + 1 = MaxLedgerPages THEN Ends(w, "pagination", writers[w].record)
           ELSE writers' = [writers EXCEPT ![w] =
                    [@ EXCEPT !.offset = NextRow(w), !.pages = @ + 1, !.exact = found,
                              !.seen = @ \cup {r.id : r \in ToSet(PageOf(w))}]]
    /\ UNCHANGED <<table, pageLength, column, ledgerEdits, ledgerFaults>>

-----------------------------------------------------------------------------
(* The update.                                                             *)

Written(records, id) ==
    [i \in DOMAIN records |-> IF records[i].id = id THEN [records[i] EXCEPT !.status = "wanted"] ELSE records[i]]

InTable(id) == \E i \in DOMAIN table : table[i].id = id

PatchStatus(w) ==
    /\ writers[w].pc = "patch"
    /\ IF ~InTable(writers[w].record) \/ column = "readonly"
       THEN Ends(w, "refused", writers[w].record) /\ UNCHANGED <<table, ledgerFaults>>
       ELSE \/ /\ table' = Written(table, writers[w].record)
               /\ Searches(w, "confirm", writers[w].record)
               /\ UNCHANGED ledgerFaults
            \/ /\ LedgerFault("lost")
               /\ table' = Written(table, writers[w].record)
               /\ Ends(w, "failed", writers[w].record)
            \/ /\ LedgerFault("ignored")
               /\ Ends(w, "rejected", writers[w].record)
               /\ UNCHANGED table
            \/ /\ LedgerFault("silent")
               /\ Searches(w, "confirm", writers[w].record)
               /\ UNCHANGED table
    /\ UNCHANGED <<pageLength, column, ledgerEdits>>

\* No answer, an error, or a second refusal of the credentials; after the first
\* the request is sent again with a new token.
RequestFails(w) ==
    /\ writers[w].pc \in {"idle", "search", "patch", "confirm"}
    /\ LedgerFault("error")
    /\ Ends(w, "failed", writers[w].record)
    /\ UNCHANGED <<table, pageLength, column, ledgerEdits>>

\* Whatever the error, the delivery is tried again, by a client that knows nothing of it.
TryAgain(w) ==
    /\ writers[w].pc = "ended" /\ writers[w].result \notin {"updated", "unchanged"}
    /\ writers' = [writers EXCEPT ![w] = Unstarted]
    /\ UNCHANGED <<table, pageLength, column, ledgerEdits, ledgerFaults>>

-----------------------------------------------------------------------------
(* People.                                                                 *)

Edit(records, format) ==
    /\ ledgerEdits' = ledgerEdits + 1
    /\ table' = records /\ column' = format
    /\ writers' = [w \in LedgerWriter |->
           [writers[w] EXCEPT !.quiet = writers[w].pc = "idle"]]
    /\ UNCHANGED <<pageLength, ledgerFaults>>

AddRecord(i, id) ==
    /\ ~InTable(id)
    /\ Edit(InsertAt(table, i, [id |-> id, code |-> "own", status |-> "other"]), column)
RemoveRecord(i) == Edit(RemoveAt(table, i), column)
RenameRecord(i) ==
    Edit([table EXCEPT ![i].code = IF @ = "own" THEN "near" ELSE "own"], column)
RestateRecord(i) ==
    Edit([table EXCEPT ![i].status = IF @ = "wanted" THEN "other" ELSE "wanted"], column)
FormatColumn(format) == format # column /\ Edit(table, format)

EditTable ==
    /\ ledgerEdits < MaxLedgerEdits
    /\ \/ \E i \in 1 .. Len(table) + 1, id \in RecordId : AddRecord(i, id)
       \/ \E i \in DOMAIN table : RemoveRecord(i) \/ RenameRecord(i) \/ RestateRecord(i)
       \/ \E format \in {"text", "select", "readonly"} : FormatColumn(format)

\* What the properties look back on.
Observed ==
    told' = [w \in LedgerWriter |->
        CASE writers'[w].pc = "idle" -> {}
          [] writers[w].pc = "ended" -> told[w]
          [] OTHER -> told[w] \cup Holders(table) \cup Holders(table')]

LedgerStep(w) ==
    EnsureSchema(w) \/ SearchPage(w) \/ PatchStatus(w) \/ RequestFails(w) \/ TryAgain(w)

LedgerNext == (EditTable \/ \E w \in LedgerWriter : LedgerStep(w)) /\ Observed

LedgerSpec == LedgerInit /\ [][LedgerNext]_ledgerVars

-----------------------------------------------------------------------------

\* A write that is told to the delivery as done was so: the record it names held
\* the status under the company's code while it ran (refund_base.py:281).
ReportedHeld ==
    \A w \in LedgerWriter : writers[w].result \in {"updated", "unchanged"} =>
        writers[w].record \in told[w]

\* If nobody edited the table meanwhile, what a search said of the company is so:
\* one record, none or several, however many pages there are, or that there are
\* too many (refund_base.py:403).
QuietSearchIsRight ==
    \A w \in LedgerWriter : writers[w].quiet =>
        /\ writers[w].result \in {"updated", "unchanged"} \/ writers[w].pc = "patch" =>
               Cardinality(Owners(table)) = 1
        /\ writers[w].result = "missing" => Owners(table) = {}
        /\ writers[w].result = "duplicate" => Cardinality(Owners(table)) > 1
        /\ writers[w].result = "pagination" => Len(table) > pageLength * MaxLedgerPages

\* A delivery changes no other company's record, and nothing in a column whose
\* format it was not made for, unless people edited the table while it ran
\* (refund_base.py:342).
OnlyOwnRecord ==
    [][\A w \in LedgerWriter : writers[w].pc = "patch" /\ writers'[w].quiet /\ writers'[w] # writers[w] =>
        /\ column = "text"
        /\ \A i \in DOMAIN table : table[i].code # "own" => table'[i] = table[i]]_ledgerVars

LedgerHolds == ReportedHeld /\ QuietSearchIsRight
=============================================================================
