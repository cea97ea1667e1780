------------------------------ MODULE DgcReader ------------------------------
(***************************************************************************)
(* The client of the DGC data service: threads that read a table page by   *)
(* page and share one IAM token.                                           *)
(*                                                                         *)
(* The service decides how many rows a page has.  Without rowSize in its   *)
(* answers a short page means the end, with it the client takes the first  *)
(* page's length for the service's page size, and in strict mode only an   *)
(* empty page ends the reading.  Nothing tells the client that the table   *)
(* changed between two pages.                                              *)
(***************************************************************************)
EXTENDS Naturals, Sequences, SequencesExt, FiniteSets

CONSTANTS
    Fetcher,       \* threads with one fetch each
    NoFetcher,     \* holder of a free token lock
    SourceTable,   \* tables that the service may hold, sequences of contents
    PageSize,      \* page_size
    MaxRecords,    \* max_records
    MaxPages,      \* max_pages
    MaxTokenEnds,  \* tokens that expire or are revoked in one behaviour (a bound)
    DgcFaults,     \* what may happen to the service
    MaxDgcFaults   \* how much of it does in one behaviour (a bound)

\* A page shorter than the service's page size, a table that changes between
\* two pages, an answer that is an error, an IAM that refuses.
DgcFaultKinds == {"short", "change", "error", "iam"}

ASSUME DgcAssumption ==
    /\ NoFetcher \notin Fetcher
    /\ PageSize \in Nat \ {0} /\ MaxPages \in Nat \ {0}
    /\ MaxRecords \in Nat /\ MaxRecords >= PageSize
    /\ \A table \in SourceTable : table \in Seq(ToSet(table))
    /\ MaxTokenEnds \in Nat /\ MaxDgcFaults \in Nat
    /\ DgcFaults \subseteq DgcFaultKinds

VARIABLES
    service,   \* the table, and how the service pages it
    token,     \* the client's token, 0 for none, and whether its TTL runs
    tokenLock, \* holder of the token lock
    issued,    \* tokens that the IAM has issued
    revoked,   \* those that the service does not accept any more
    expired,   \* times that the TTL of a token ended
    fetch,     \* the fetches
    dgcFaults  \* faults that have happened

dgcVars == <<service, token, tokenLock, issued, revoked, expired, fetch, dgcFaults>>

-----------------------------------------------------------------------------

RowContent == UNION {ToSet(table) : table \in SourceTable}

\* How the client is configured and what the service sends with a page.
PagingMode == {"plain", "rowSize", "strict"}

FetchRow ==
    [phase : {"idle", "token", "waiting", "locked", "send", "rejected", "returned", "failed"},
     attempt : {1, 2}, token : Nat, offset : Nat, pageNumber : 1 .. MaxPages + 1,
     pages : SUBSET Seq(RowContent), effective : 0 .. PageSize, records : Seq(RowContent)]

DgcFault(kind) ==
    /\ kind \in DgcFaults \ dgcFaults
    /\ Cardinality(dgcFaults) < MaxDgcFaults
    /\ dgcFaults' = dgcFaults \cup {kind}

\* Either an app key or an IAM account is configured.
DgcInit ==
    /\ service \in [table : SourceTable, rowsPerPage : 1 .. PageSize, mode : PagingMode, iam : BOOLEAN]
    /\ token = [number |-> 0, fresh |-> FALSE]
    /\ tokenLock = NoFetcher
    /\ issued = 0 /\ revoked = {} /\ expired = 0
    /\ fetch = [f \in Fetcher |->
           [phase |-> "idle", attempt |-> 1, token |-> 0, offset |-> 0, pageNumber |-> 1,
            pages |-> {}, effective |-> PageSize, records |-> <<>>]]
    /\ dgcFaults = {}

GoTo(f, phase) == fetch' = [fetch EXCEPT ![f].phase = phase]

TokenPhase == IF service.iam THEN "token" ELSE "send"

StartFetch(f) ==
    /\ fetch[f].phase = "idle"
    /\ GoTo(f, TokenPhase)
    /\ UNCHANGED <<service, token, tokenLock, issued, revoked, expired, dgcFaults>>

-----------------------------------------------------------------------------
(* The shared token.                                                       *)

Usable == token.number # 0 /\ token.fresh
Use(f) == fetch' = [fetch EXCEPT ![f].phase = "send", ![f].token = token.number]

\* Read without the lock.
TakeToken(f) ==
    /\ fetch[f].phase = "token" /\ Usable
    /\ Use(f)
    /\ UNCHANGED <<service, token, tokenLock, issued, revoked, expired, dgcFaults>>

SeeNoToken(f) ==
    /\ fetch[f].phase = "token" /\ ~Usable
    /\ GoTo(f, "waiting")
    /\ UNCHANGED <<service, token, tokenLock, issued, revoked, expired, dgcFaults>>

LockToken(f) ==
    /\ fetch[f].phase = "waiting"
    /\ tokenLock = NoFetcher
    /\ tokenLock' = f
    /\ GoTo(f, "locked")
    /\ UNCHANGED <<service, token, issued, revoked, expired, dgcFaults>>

\* Mutant: the token is not looked at again under the lock.
MutRenewed == FALSE

\* Another thread renewed the token while this one waited for the lock.
Renewed == Usable

\* Mutant: the lock is given back only with a token.
MutHolder(f, renewed) == IF renewed THEN NoFetcher ELSE f

\* The lock is given back whatever the IAM answers.
Holder(f, renewed) == NoFetcher

RenewToken(f) ==
    /\ fetch[f].phase = "locked"
    /\ \/ /\ Renewed
          /\ Use(f)
          /\ tokenLock' = Holder(f, TRUE)
          /\ UNCHANGED <<token, issued, dgcFaults>>
       \/ /\ ~Renewed
          /\ issued' = issued + 1
          /\ token' = [number |-> issued + 1, fresh |-> TRUE]
          /\ fetch' = [fetch EXCEPT ![f].phase = "send", ![f].token = issued + 1]
          /\ tokenLock' = Holder(f, TRUE)
          /\ UNCHANGED dgcFaults
       \/ /\ ~Renewed
          /\ DgcFault("iam")
          /\ GoTo(f, "failed")
          /\ tokenLock' = Holder(f, FALSE)
          /\ UNCHANGED <<token, issued>>
    /\ UNCHANGED <<service, revoked, expired>>

\* Mutant: the token is dropped whichever it is by now.
MutDropped(f) == token.number # 0

\* Only the token that was rejected is dropped.
Dropped(f) == token.number = fetch[f].token

Invalidate(f) ==
    /\ fetch[f].phase = "rejected"
    /\ tokenLock = NoFetcher
    /\ token' = IF Dropped(f) THEN [number |-> 0, fresh |-> FALSE] ELSE token
    /\ fetch' = [fetch EXCEPT ![f].phase = "token", ![f].attempt = 2]
    /\ UNCHANGED <<service, tokenLock, issued, revoked, expired, dgcFaults>>

-----------------------------------------------------------------------------
(* Pages.                                                                  *)

\* Rows of the table from an offset: the service's page.
Rows(offset, count) == SubSeq(service.table, offset + 1, offset + count)
Remaining(offset) == IF offset >= Len(service.table) THEN 0 ELSE Len(service.table) - offset
Least(a, b) == IF a <= b THEN a ELSE b

\* Mutant: a short page always ends the reading.
MutLastPage(f, page) == Len(page) < PageSize

LastPage(f, page) ==
    CASE service.mode = "strict" -> page = <<>>
      [] service.mode = "plain" -> Len(page) < PageSize
      [] OTHER -> page = <<>> \/ (fetch[f].offset > 0 /\ Len(page) < fetch[f].effective)

\* Mutant: the next page begins at the last row read.
MutNextOffsetInclusive(f, page) ==
    fetch[f].offset + (IF service.mode = "rowSize" THEN Len(page) ELSE PageSize) - 1

NextOffset(f, page) ==
    fetch[f].offset + (IF service.mode = "rowSize" THEN Len(page) ELSE PageSize)

\* Mutant: the rows are counted before those of the page are added.
MutTooMany(f, page) == Len(fetch[f].records) > MaxRecords

TooMany(f, page) == Len(fetch[f].records) + Len(page) > MaxRecords

\* A page is taken up, or refused: too many rows, or one seen before.
Receive(f, page) ==
    LET row == fetch[f]
        records == row.records \o page
    IN  IF TooMany(f, page) \/ (page # <<>> /\ page \in row.pages)
        THEN GoTo(f, "failed")
        ELSE IF LastPage(f, page)
        THEN fetch' = [fetch EXCEPT ![f].phase = "returned", ![f].records = records]
        ELSE IF row.pageNumber = MaxPages
        THEN GoTo(f, "failed")
        ELSE fetch' = [fetch EXCEPT ![f] =
                 [phase |-> TokenPhase, attempt |-> 1, token |-> row.token,
                  offset |-> NextOffset(f, page), pageNumber |-> row.pageNumber + 1,
                  pages |-> row.pages \cup (IF page = <<>> THEN {} ELSE {page}),
                  effective |-> Least(row.effective, Len(page)), records |-> records]]

RequestPage(f) ==
    LET full == Least(service.rowsPerPage, Remaining(fetch[f].offset))
    IN  /\ fetch[f].phase = "send"
        /\ \/ /\ service.iam /\ fetch[f].token \in revoked
              /\ GoTo(f, IF fetch[f].attempt = 1 THEN "rejected" ELSE "failed")
              /\ UNCHANGED dgcFaults
           \/ /\ ~(service.iam /\ fetch[f].token \in revoked)
              /\ \/ Receive(f, Rows(fetch[f].offset, full)) /\ UNCHANGED dgcFaults
                 \/ full > 1 /\ DgcFault("short") /\ Receive(f, Rows(fetch[f].offset, full - 1))
                 \/ DgcFault("error") /\ GoTo(f, "failed")
        /\ UNCHANGED <<service, token, tokenLock, issued, revoked, expired>>

-----------------------------------------------------------------------------
(* The service and time.                                                   *)

TableChanges ==
    /\ DgcFault("change")
    /\ \E table \in SourceTable : table # service.table /\ service' = [service EXCEPT !.table = table]
    /\ UNCHANGED <<token, tokenLock, issued, revoked, expired, fetch>>

RevokeToken ==
    /\ issued \notin revoked \cup {0}
    /\ Cardinality(revoked) + expired < MaxTokenEnds
    /\ revoked' = revoked \cup {issued}
    /\ UNCHANGED <<service, token, tokenLock, issued, expired, fetch, dgcFaults>>

\* token_ttl has passed on the client's clock.
TokenExpires ==
    /\ Usable
    /\ Cardinality(revoked) + expired < MaxTokenEnds
    /\ expired' = expired + 1
    /\ token' = [token EXCEPT !.fresh = FALSE]
    /\ UNCHANGED <<service, tokenLock, issued, revoked, fetch, dgcFaults>>

-----------------------------------------------------------------------------

DgcStep(f) ==
    \/ StartFetch(f) \/ RequestPage(f)
    \/ TakeToken(f) \/ SeeNoToken(f) \/ LockToken(f) \/ RenewToken(f) \/ Invalidate(f)

DgcNext == (\E f \in Fetcher : DgcStep(f)) \/ TableChanges \/ RevokeToken \/ TokenExpires

\* Threads run.
DgcSpec == DgcInit /\ [][DgcNext]_dgcVars /\ \A f \in Fetcher : WF_dgcVars(DgcStep(f))

-----------------------------------------------------------------------------
(* What the client guarantees.                                             *)

DgcTypeOK ==
    /\ service \in [table : SourceTable, rowsPerPage : 1 .. PageSize, mode : PagingMode, iam : BOOLEAN]
    /\ token \in [number : 0 .. issued, fresh : BOOLEAN]
    /\ tokenLock \in Fetcher \cup {NoFetcher}
    /\ issued \in Nat /\ revoked \subseteq 1 .. issued /\ expired \in Nat
    /\ \A f \in Fetcher :
           /\ fetch[f].phase \in {"idle", "token", "waiting", "locked", "send", "rejected", "returned", "failed"}
           /\ fetch[f].token \in 0 .. issued
           /\ fetch[f].pageNumber \in 1 .. MaxPages /\ fetch[f].offset \in 0 .. MaxPages * PageSize
           /\ Len(fetch[f].records) <= MaxRecords
    /\ dgcFaults \subseteq DgcFaultKinds

\* The service pages as the client's mode expects it to, and the table stands.
Regular ==
    /\ dgcFaults \cap {"short", "change"} = {}
    /\ service.mode = "rowSize" \/ service.rowsPerPage = PageSize

\* What a fetch returns is the whole table, each row once and in order; a table
\* that is too large is an error and never a part of it.
FetchIsComplete ==
    \A f \in Fetcher : fetch[f].phase = "returned" /\ Regular => fetch[f].records = service.table

\* A service that pages otherwise makes the client lose rows, never read one
\* twice or out of order, as long as the table stands.
NoRowTwice ==
    \A f \in Fetcher : "change" \notin dgcFaults =>
        \E at \in [DOMAIN fetch[f].records -> DOMAIN service.table] :
            \A i \in DOMAIN at : /\ fetch[f].records[i] = service.table[at[i]]
                               /\ \A j \in DOMAIN at : i < j => at[i] < at[j]

\* Threads that are told at different times that the same token is void renew
\* it once between them: no late rejection throws a good token away.
RenewedWithCause == issued <= 1 + Cardinality(revoked) + expired

\* What the client promises of rows and tokens.
DgcSound == DgcTypeOK /\ FetchIsComplete /\ NoRowTwice /\ RenewedWithCause

\* A fetch, and its end: it returns or fails, whatever becomes of tokens and pages.
DgcDue(f) == fetch[f].phase # "idle"
DgcOver(f) == fetch[f].phase \in {"returned", "failed"}
=============================================================================
