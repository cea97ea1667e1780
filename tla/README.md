# Verification of the tax-risk monitoring platform

The platform monitors the income-tax risk of the companies of a group. It is a
FastAPI service over PostgreSQL, with Celery workers on Redis, writeback to a
Feishu (Lark) ledger, reads from a data gateway (DGC) and a web client. This
directory holds TLA+ modules that model the parts of it where state, retries and
concurrency meet, TLC configurations that check them, and proofs checked by
TLAPS. Paths below are relative to `backend/src/tax_risk/` unless they start
with `docs/`, `infra/`, `web/` or `artifacts/`.

## The system

| Part | State it keeps | Operations | Interacts with |
|---|---|---|---|
| Ingestion (`application/ingest.py`, `ingest_processors.py`) | batches with status, rows, rejected rows, observations; companies | create a batch, ingest a file, apply company master events, mark a failure | snapshots read batches |
| Tax master data (`application/master_data.py`) | versions DRAFT, PUBLISHED with effective periods | import a workbook, approve | companies, snapshots |
| Snapshots and sets (`application/snapshots.py`) | frozen snapshots, published sets, SAP projections | validate, publish, publish a set | batches, companies, masters; runs start from a set |
| Quarterly batch (`application/quarterly_batches.py`, `workers/quarterly_batch.py`) | a run, one row per company, detections | start, dispatch a chord of company tasks, attempt, reconcile, summarize, retry | quarterly calculation, delivery view |
| Quarterly calculation and cases (`application/quarterly_runs.py`, `api/routes/cases.py`) | detections, risk cases, review actions | execute, refresh a case, review action | called by company tasks |
| Monthly semantic run (`application/monthly_semantic_runs.py`, `workers/monthly_semantic.py`) | a run, rows, semantic detections | start, dispatch, attempt, summarize, retry | voucher monitor, version sets |
| Refund scan (`application/income_tax_refunds.py`) | targets, evidence batches and lines, scan results, cases, outbox | import targets, import evidence, scan a month | outbox to the delivery |
| Refund delivery (`application/refund_writebacks.py`, `workers/income_tax_refund_writebacks.py`) | outbox rows with status and attempts | list, claim, write, finish, retry | Feishu ledger |
| Semantic detections, case merge (`application/cases.py`, `case_merge.py`) | root cases, links, merges | route, resolve to SAP | business-entertainment pipeline |
| Business entertainment (`application/business_entertainment/`) | links, evaluations, coverages, detections | the monthly task of a company | snapshots, Hesi and OA, case routing |
| Export jobs (`application/exports.py`) | jobs, stored files | create, render, download, expire | worker, object store |
| External fetch (`application/external_fetch.py`) | cache entries, leases, permits | fetch through the cache | Redis, DGC |
| Adapters (`adapters/ingest/`, `adapters/dgc/`) | a shared IAM token, pages read so far | read a table, make figures of its rows | DGC, SAP and Hesi tables, ingestion |
| Tax adjustment and full validation (`scripts/run_real_*.py`, `application/tax_adjustment_accounts/`) | result, candidate and web report files | read, judge, write, merge | adapters, Feishu base |
| Alert notification and archive (`application/alert_*.py`, `scripts/*feishu*`) | archive and queue tables in Feishu | archive, enqueue | validation reports |
| Version registry (`application/semantic/version_registry.py`, `account_dictionary.py`, `business_entertainment/company_scope.py`) | scopes, dictionaries, artifacts | upload, approve, publish | monthly runs |
| Sign-in (`security/authentication.py`, `api/routes/auth.py`) | failure counts, cookies | password, Feishu, session, sign out | every request |
| Release and rollback (`release/`) | drill checkpoints | run stages, resume | operations |
| Others | none that outlives a request, or append-only | agents, audit, policies, metrics, web | |

Hard behaviours: workers that die after their commit and before the
acknowledgement, messages delivered twice, a canvas sent in part, retries that
race their summary, transactions interleaved between a read and a write, answers
of an external ledger that get lost, imports and scans in any order.

What makes each part correct, in one line each:

- *Quarterly and monthly runs*: a terminal run says what its rows say, results
  are never taken back, and a run that is dispatched ends.
- *Refund scan*: one evidence batch per company and month, a receipt stops the
  target and is written back exactly once, an alert has a case.
- *Refund delivery*: only the latest claim finishes a row, and success is true.
- *Snapshots*: what a set publishes is what the checks saw, complete, and
  frozen from then on.
- *Cases*: a case exists exactly for an alert, its summary is that of the newest
  one, and the review trail is a path of the workflow.
- *Semantic cases*: every suspicion is behind a case that is shown, a merge is
  flat and informed.
- *Exports, fetch, DGC client, business entertainment*: a completed job has its
  file, one reader fetches what many miss, a fetch is the whole table, every
  document is judged once, and whatever begins ends.
- *Figures and verdicts*: nothing is concluded from what was not read, nothing is
  counted twice, posting what is advised silences the monitors.
- *Imports, workbooks, ledgers, reports*: all of a source or nothing, the first
  under a key stays, files are those of one run.
- *Versions and sign-in*: nobody reviews their own, each day has one version,
  nobody is let in but by what was configured.

## Modules

Six components have runs of their own:

| Module | Models | Checked by | Proofs |
|---|---|---|---|
| `BatchContract` | what a batch promises: rows settle once, the batch ends when all did, a retry reopens failed rows | property `KeepsContract` | |
| `QuarterlyBatch` | service, task and canvas of the quarterly batch | `quarterly_safety`, `quarterly_liveness` | `QuarterlyBatchProofs` |
| `MonthlyRun` | service, task and canvas of the monthly semantic run | `monthly`, `monthly_empty_retry` | `MonthlyRunProofs` |
| `RefundScan` | target import, evidence import, monthly scan, listing | `refund_scan`, `refund_target_race`, `refund_stale_case` | `RefundScanProofs` |
| `RefundDelivery` | outbox, tasks and the ledger | `delivery` | `RefundDeliveryProofs` |
| `SnapshotPublication` | companies, batches, masters, snapshots, sets | `snapshots` | `SnapshotPublicationProofs` |
| `CaseLifecycle` | cases of a company and quarter under executions and reviews | `cases` | `AlertProofs` |

The others share no state with each other. `MCServices` and `MCRecords` put them
side by side: a variable `subject`, chosen at the start, says which of them runs,
the others stay as they begin, and a property of the run is the conjunction of
the properties of its parts. Nothing is composed by that; it is one instance in
place of twenty.

| Module | Models | Part of | Promise | Proofs |
|---|---|---|---|---|
| `ExportJob` | create, render, download and expiry of an export | `services` | `ExportSound` | `ServiceProofs` |
| `FetchCache` | reads through a cache under a lease | `services` | `FetchSound` | `ServiceProofs` |
| `DgcReader` | threads that page through a DGC table with one token | `services` | `DgcSound` | `ServiceProofs` |
| `EntertainmentRun` | the monthly task of business entertainment | `services` | `EntertainmentSound` | `ServiceProofs` |
| `SemanticCase` | routing, views and merges of semantic cases | `records` | `SemanticSound` | `MonthlyRunProofs` |
| `AlertTables` | archive and queue of alerts in Feishu | `records` | `AlertSound` | `AlertProofs` |
| `QuarterlyCalculation` | the quarterly formulas through a year | `records` | `VerdictsSound` | |
| `TaxAdjustment` | the tax adjustment check of a company | `records` | `VerdictsSound` | |
| `FullValidation` | the full validation of a company | `records` | `VerdictsSound` | |
| `HesiNoInvoice` | the reimbursements without an invoice | `records` | `MetricsSound` | |
| `SapMetrics` | the metrics made of four SAP tables | `records` | `MetricsSound` | |
| `CompanyReader` | the four paging clients of the check | `records` | `MetricsSound` | |
| `SourceImport` | imports under one source and key | `records` | `ImportSound` | `RecordProofs` |
| `GovernedVersions` | scopes, dictionaries, artifacts | `records` | `GovernanceSound` | `RecordProofs` |
| `SignIn` | passwords, Feishu, sessions, restarts | `records` | `GovernanceSound` | `RecordProofs` |
| `Governance` | the two modules before it as one promise | `records` | `GovernanceSound` | `RecordProofs` |
| `MasterWorkbook` | reading, import and review of master workbooks | `records` | `FilesSound` | `SnapshotPublicationProofs` |
| `LedgerTable` | search and update of the Feishu ledger | `records` | `FilesSound` | |
| `RefundBook` | reading and import of the refund workbook | `records` | `FilesSound` | `RefundScanProofs` |
| `RollbackDrill` | the checkpointed drill | `records` | `FilesSound` | `RecordProofs` |
| `ValidationReport` | the report files of three scripts | `records` | `FilesSound` | `RefundDeliveryProofs` |

`MC*` modules only give the constants values. `RefundScan` fills the outbox that
`RefundDelivery` empties: its `Enqueue` is the scan's insertion of a row.
`LedgerTable` opens up the write that is one step there, `RefundBook` the reading
of the workbook that gives `RefundScan` its targets, `MasterWorkbook` and
`SourceImport` the files and sources behind the batches of
`SnapshotPublication`. A set of `SnapshotPublication` is the frozen input of a
run in `QuarterlyBatch` and `MonthlyRun`, which is why those have a constant set
of companies. `CaseLifecycle` and `QuarterlyCalculation` open up the calculation
that a company task of `QuarterlyBatch` runs (`Calculate` there).
`EntertainmentRun` ends in the routing whose cases are `SemanticCase`.

**QuarterlyBatch.** `run` is the `monitoring_run`, `row` its run-company rows,
`detections` the companies with stored detections. `msg` are the Celery messages
(per canvas and company) and `exec` the attempts under way: an attempt begins
(`BeginAttempt`) with the row lock, calculates in a transaction of its own
(`Calculate`) and writes the row (`Commit`). `HeaderComplete`, `ReconcileHeader`
and `Summarize` are the chord. `RetryFailed` is the manual retry. The faults are
actions of their own, bounded by `MaxFaults`.

**MonthlyRun.** The same shape without automatic retries: a failed company is a
committed result, a late task may run a failed row again, and there is no
reconciliation, so an exception of a task leaves its chord without a body.

**RefundScan.** `ImportRead` and `ImportWrite` are the two halves of a target
import: the read takes no lock. `Scan` is the whole transaction of a month, with
`Evaluate` the two-phase matching of the domain module. `ListedAs` is the label
under which a month is shown.

**RefundDelivery.** A task claims a row (`Claim` adds one to its attempts),
writes to the ledger (`Write`, with a lost answer among its outcomes) and
finishes only if the row still carries its attempt (`Owned`).

**SnapshotPublication.** Each request of a client is a transaction in two steps.
The first takes the locks of the code (the set key, snapshot scopes and source
batches exclusively, companies shared; an approval takes its company
exclusively), reads and decides; the second writes. What a client decided can
only be stale if a lock is missing. A failed ingestion rolls back and reports in
a second transaction. `Freeze` is what a snapshot stores of its sources, master
and company name; `Unchanged` is the comparison that `publish` and `publish_set`
repeat. Locks on published master rows are left out: the company lock covers
them. A company that was never created is one that is inactive and has no name,
which every operation refuses in the same way. Maker and reviewer identities
change no state here (they do in `MasterWorkbook`) and are left out.

**CaseLifecycle.** An execution takes the lock of its run and calculates its
alerts (`BeginExecute`), then waits for the advisory locks of the case
fingerprints and the row locks of the cases and reads them (`LockCases`), then
stores the detections and creates or refreshes the cases (`CommitExecute`). A
review action reads the case under its row lock (`BeginReview`) and writes
status, trail and version (`CommitReview`). `Abort` rolls either back. `Newer`
orders runs by creation, which is all that the code's comparison of two
detections of a fingerprint comes to. Assignees, comments and roles are left out
but for the group-tax role that closes a case; that the run is RUNNING is the
business of `QuarterlyBatch`. An execution that finds its run's detections
changes nothing and is left out.

**ExportJob.** `job` is the row, `objects` the files of the object store, which
is part of no transaction, `render` the deliveries of the job's message. A
delivery locks the row and marks it RUNNING, puts the file and marks the job
COMPLETED; a failure is told in a transaction of its own. A client is let in
(`Authorize`), served or, past retention, deletes the file (`DeleteFile`) before
the row says EXPIRED (`ExpireJob`). The cells of a file are the state of the cases
it was rendered from.

**FetchCache.** `entry` and `lease` are the Redis keys, `reader` the threads of
the processes, local or remote. A reader looks, takes the lease, looks again, takes a
permit of the source, fetches, checks its lease and stores. Leases and entries
expire at any time; that they do not while a healthy heartbeat runs is a guard.

**DgcReader.** `fetch` are the threads with their page, offset and rows, `token`
the token they share. The service pages in one of the modes the client knows; it
can change its table, send short pages, answer with an error or revoke tokens.
That no row is read twice is said with the places in the table that the rows of a
fetch come from, which increase (`NoRowTwice`): equal rows may stand in it twice.

**EntertainmentRun.** `books` is what the snapshot holds, `links`, `evaluations`,
`coverages` and `detections` what the stages persist, each stage a transaction
(`TaskStep`), each routed detection one of its own. Gates close, answers are
rejected, workers stop and the task is handed out again.

**SemanticCase.** A route holds the company and the case of its fingerprint; a
merge holds the two case rows, finds or creates the SAP root and links the case
to it. `client` are the transactions under way with what they read. `ViewCase` is
a user whose merge carries the row version seen.

**AlertTables.** `archive` and `queue` are the Feishu tables, `script` the runs
under way: they load what exists and then create, restore and retire rows batch by
batch. A call may be refused or its answer lost (`ScriptStops`); `overlapped`
remembers that two runs were under way at once, which nothing in the code
prevents and the properties except.

**QuarterlyCalculation.** `FreezeSnapshot` takes the figures of a quarter,
`Execute` computes the four monitors in the two rule versions, `PostAdvice` books
what they advise, `CloseQuarter` makes the current tax the prior tax. Amounts are
integers of the smallest stored fraction, with the rounding and the limits of the
columns.

**HesiNoInvoice, SapMetrics.** Pure functions of the rows that arrived, imported
again whenever a row arrives or repeats and when a quarter ends, so that the
properties compare figures of neighbouring states. The amounts of one claim or
document are added in a decimal context of so many digits (`InContext`, 28 in the
code, few here), totals exactly. What is lacking is bounded by what is reimbursed
only while no such sum loses a digit (`SummedExactly`).

**CompanyReader.** The four clients of `Dataset` with their four ideas of where
the rows of a company end, over a service that may send shorter pages and change
its table. Rows of another company are refused, but for settlement rows that come
without a company, which the client takes to be of the company it asked for: such
a page is `nameless`, and `OwnRowsOnly` excepts it.

**SourceImport.** `batch` and `stored` are the row and the records of one key. An importer fetches from the
source, probes the batch, creates it, locks, processes and marks it, or fails it
in a second transaction, one step per transaction; companies are deactivated in
between. A record carries the number of its row, as the lineage of the code does.

**GovernedVersions.** Three families share the life of a version: upload,
approval by another, publication in two steps, under a lock for scopes
(`BeginPublish`, `CommitPublish`). The `Resolved...` operators are what a run is
given for a day.

**SignIn.** `windows` are the failures counted in the memory of the service (for
each key a set of failures with their times, `failedAt` those of all time),
`transaction` and `session` the cookies of one browser with its `tabs`, `tick` the
clock. The check of the
limiter and the count are two steps (`CheckLimit`, `WrongPassword`).

**MasterWorkbook.** What the reader makes of a workbook's sheets, all of it or
nothing, then the probe and the transaction of the import, then a review in two
steps by somebody who must not be the sender under another spelling.

**LedgerTable.** A delivery searches page by page, changes the one record and
searches again; people add, delete and edit records and change the format of the
column between any two calls. `told` is the history that `ReportedHeld` needs.

**RefundBook.** The choice of the sheet and columns of a year, the two roundings
of an amount, the permits of the route. The version of an upload is given by the
caller (`GivenVersion`) or is the workbook itself, so two workbooks can share one.
`ScanTarget` settles targets between uploads.

**RollbackDrill.** `checkpoint` and `temporary` are the files, `drills` the runs
under way. A stage is executed, written to the temporary file and renamed over the
checkpoint. People alter the file or replace a bundle.

**TaxAdjustment, FullValidation.** One company from the first request to the
verdict: which tables are asked for, which fail, which figures can be read, what
is concluded. Inputs are chosen at the start from tables that hold each case. In
the full validation an amount may also be too wide for its column (`excess`): a
result that does not fit makes its monitor fail, a loss that does not fit ends the
script (`Aborts`).

**ValidationReport.** The candidate, result and web report files under three
scripts that replace them whole, overlap and stop; the set of companies in the
base changes.

## Runs

| Run | Question | Bounds | Distinct states |
|---|---|---|---|
| `quarterly_safety` | do locks, summary, retries and the contract survive every fault? | 2 companies, 2 canvases, 1 retry, 1 fault of any of 4 kinds | 578,777 |
| `quarterly_liveness` | does every batch end, and is no retry orphaned? | the same, lost workers only | 239,924 |
| `monthly` | are results, success (`RunSound`) and summaries right, do runs end? | 2 companies, 2 canvases, 1 fault of any of 4 kinds | 179,868 |
| `monthly_empty_retry` | does a run end after a retry without failed rows? | 2 companies; expected to fail | |
| `refund_scan` | receipts, outbox, batches, cases and the listing in every order (`ScanSound`, `ReceiptStops`) | 2 companies, 4 lines, 2 months, 2 batches, 1 amount | 372,566 |
| `refund_target_race` | is a scanned target immutable? | 1 company, 2 amounts; expected to fail | |
| `refund_stale_case` | does a refund that its newest month finds on a wrong account have its risk? | 1 company, 2 months, 2 lines of one month, one of which may be reversed later; expected to fail | |
| `delivery` | fencing, truth of success, and an end for every row | 1 row, 2 tasks, 1 retry, 3 faults of 5 kinds | 57,054 |
| `snapshots` | locks, completeness (`PublicationSound`) and freezing (`PublishedStays`) under two clients | 2 companies, 4 batches of the 4 dataset kinds, 2 masters, 2 set keys, 1 rename | 1,181,922 (up to symmetry) |
| `cases` | are alerts and cases, summaries, trails and versions right when runs finish in any order under reviews? | 3 runs, 2 monitors, 2 executors, 2 reviewers (1 of group tax), 4 review actions of a case | 545,949 (up to symmetry) |
| `services` | do exports, cached reads, the DGC client and business entertainment keep their promises and end, each under its faults? | 2 or 3 workers each; 3 export faults of 6 kinds, 1 fault of each other service | 145,230 |
| `records` | do the sixteen parts of `MCRecords` keep theirs? | 2 actors each where actors meet; tables of a few rows that hold each case | 192,859 (up to symmetry) |

Why these bounds are enough: two companies give a batch one settled and one
unsettled row, two canvases a duplicate, one retry a last attempt after a first;
one fault of any kind meets every step of a small batch, and a second one only
repeats it. Two months and two evidence batches contain each order of scans. Two
tasks contain each race on a row. In `snapshots` two clients contain each
pairwise race, the two masters overlap, the file of the quarterly batch has the
row of a company nobody created or a row that names none, or cannot be read; a
set needs one company instead of the hundred the code asks for, since the checks
look at each member alone. Clients and set keys are interchangeable there, and
all its properties are safety properties. In `cases` three runs contain a newest,
an oldest and one that finishes between them, two monitors let executions overlap
in part of their alerts, and four actions reach CLOSED and go round the evidence
loop. Executors and monitors are interchangeable there, and all its properties
are safety properties.

In `services` two deliveries of an export contain the redelivery that meets a
RUNNING job, three readers an owner, a waiter of its process and one of another
process, two threads a late rejection of a token, tables of one and a half and of
two and a half pages a short last page and a full one. In `records` the tables in
`MCRecords` are written so that each case of the code occurs: their comments say
which; sign-ins through Feishu are as many as the tabs there (a guard of
`RecordNext`). The workers of all parts are the same two values, because only one part
runs; in `records` they are interchangeable, and all its properties are safety
properties.

The bounds of the modules are constants: the retry limits (`MaxRetries`,
`MaxTaskRetries`, `MaxAttempts`), the faults (`MaxFaults`, `MaxExportFaults`,
`MaxFetchFaults`, `MaxDgcFaults`, `MaxTaskFaults`, `MaxLedgerFaults`,
`MaxDrillFaults`, `MaxAdjustmentFaults`, `MaxValidationFaults`), and how often
something is begun or changes (`MaxActions`, `MaxCaseState`, `MaxCaseVersion`,
`MaxSource`, `MaxTokenEnds`, `MaxScriptRuns`, `MaxImports`, `MaxDelivered`,
`MaxRepeats`, `MaxSapRows`, `MaxMasterUploads`, `MaxRefundUploads`,
`MaxDrillRuns`, `MaxReportRuns`, `MaxBaseChanges`, `MaxLedgerEdits`,
`MaxTableChanges`, `MaxSignIns`, `LastTick`, `LastQuarter`, `LastQuarterEnd`). Limits of the code
(`PageSize`, `MaxPages`, `MaxRecords`, `MaxSheetRows`, `LossLimit`, ...) are
constants too, small here. `CHECK_DEADLOCK FALSE` is set where a finished system
stops: a settled batch, a delivered row, an exhausted set of keys, closed cases,
ended calls and scripts.

Every other property is one of a few bundles: `ScanSound`, `RunSound`,
`PublicationSound`, `PublishedStays` and the `...Sound` properties are
conjunctions of named parts, each stated and commented where it is defined.

### Fairness

Celery delivers what was sent and workers take messages up, so the quarterly and
monthly models assume weak fairness of the dispatch, of the delivery of messages,
of the reconciliation and of the summary. The delivery model assumes it of the
periodic listing (Celery beat), of sending per row, of tasks, and of the ledger
coming back. In `services` every worker or thread that runs goes on
(`WF(WorkStep(w))`): an export's delivery renders, a reader's call proceeds and its
deadline passes, a DGC thread gets an answer or an error to each request, a
delivery of the company's task goes on to its next stage. Requests of people
(start, retry, import, sign-in) and faults are never fair. `ServicesEnd` excepts an
export whose worker died, or whose failure could not be written, since nothing
takes up such a job.
The liveness run of the quarterly batch has lost workers as its only fault: a canvas
sent in part, a rejected scope token or a duplicate at the wrong moment leave a
batch RUNNING, see below.

## Proofs

The eight proof modules prove theorems for every number of companies, canvases,
rows, tasks, months, evidence batches, runs, monitors, reviewers, clients, files,
readers, threads and importers, and any limit of retries, actions or faults. What
they assume are the named `ASSUME`s of the modules, which TLC evaluates on every
run: model values are distinct, limits are natural numbers (those that a first use
needs at least 1), rows of tables and files are sequences, the sets of threads and
companies that are counted are finite. One theorem has a hypothesis of its own,
see `RetryNotOrphaned`.

`QuarterlyBatchProofs` proves the type invariant, `TerminalMeansSettled`,
`TerminalSummaryExact`, `OutputBacked`, `AttemptIsolated`, the action properties
`ResultsFinal` and `RetryOwnershipKept`, and that every step is one of
`BatchContract` or a stutter. None of the invariants is inductive alone. That a
terminal batch is settled needs that an attempt under way belongs to a running
batch and an unsettled row, because `Commit` moves the row; that in turn needs
the settledness, because only a settled batch is reopened. The conjunction of
these with the type invariant is inductive, and the action properties follow
from it step by step.

It also proves `RetryNotOrphaned`, that a scheduled retry has a message or a report
that the summary settles, if `Undoubled`: the faults are lost workers and canvases
sent in part, in any number, but neither duplicates nor tasks rejected by their
scope token. The hypothesis is what the code needs (a duplicate may take the
retry's turn, and a rejected task ends it, see below); `quarterly_liveness` checks
the property with the same kind of broker. The strengthening says that a task is one
message until it has reported and none afterwards (`TaskOnce`), and that a summary
task begins when all have reported (`BodiesLate`).

`RefundDeliveryProofs` proves the type invariant, `SuccessIsReal`, `OneOwner` and
`SuccessIsFinal`. The strengthening says that the attempts of a row only grow,
that every claim was counted, that claims of different tasks on a row differ, and
that an answer "ok" means the ledger has the row. The attempt count is a fencing
token: two owners would have the same claim.

It also proves `ReportSound` of the report files. The scripts hold no lock, so the
invariant says when runs have met (`RunsMet`), what a run that met no other may rely on
(`Undisturbed`), that candidates on disk are followed by the results of their run
(`CandidatesFollowed`) and that results are only replaced by newer ones
(`ResultsGrow`). All files that carry the number of a run agree with one assignment of
rows to runs (`RowsAgree`), so that results and candidates of one run in the report
judge each company alike.

`AlertProofs` follows an alert to its case and to the tables of Feishu. Of
`CaseLifecycle` it proves the type invariant, `CaseBacksAlert`,
`SummaryIsNewest`, `TrailConnected` and the action property `VersionCounts`. The
argument is the one for transactions under locks: `RowsExclusive` says that a
case row has one holder, so `ReadsCurrent`, that what a holder read is still what
the case is, survives every step of the others. A write over a current read is
then a step of one case at a time, from which the rest follows. `RunsExclusive`
is needed because a second execution of a run could take alerts back.

Of `AlertTables` it proves `AlertSound`, its three invariants and both of its action
properties. Feishu has no keys and the scripts no locks, so the argument counts: the
rows of a key together with the scripts that may still create one are never more
than the scripts that can be under way (`RowCounts`, `KeyCounts`, `TableCounts`),
which is one as long as they did not overlap (`Alone`). A script joins that count
only when it has found no row. For the convergence `Left` relates what a script
still has to create, restore and retire to the rows that are there, whatever an
earlier run left behind; it is kept because rows are addressed by an alert and a
number that no other row has (`HitsAreRows`). A run that creates and restores
before it retires then never takes off an alert that it is to show. The proof
assumes that the alerts of the reports, and the scripts, are finitely many.

`MonthlyRunProofs` proves `RunSound` and the action property `ResultsFinal`. A
late attempt may commit after the run was summarised, so that a successful run is
complete needs that such an attempt cannot hold a settled row (`AttemptRunnable`:
a row under way is pending or failed), that a success has its detections
(`SuccessBacked`) and that the rows of a run exist together (`CreatedTogether`).
With these a commit only turns a row that was not a success into one, and results
stay.

It also proves `SemanticSound` of the cases that semantic detections open. The row
locks keep what a route or merge has read (`CaseHeld`, `SourceHeld`, `CasesApart`),
so every write counts one version. Only a document's case is ever merged and only
into a voucher's, which is never merged (`CasesLead`), so a suspicion is behind a
case that can be seen.

`RefundScanProofs` proves `ScanSound` and the action property `ReceiptStops`. A
scan writes the results, the target, the outbox and the case of a company in one
transaction, so the agreement between them is inductive once the target import is
under control: an import decides on what it read before a scan. Imports run one at
a time and `Shape` says what an import under way may have seen, so that a write
that found no target cannot meet one a scan has settled. `ReceiptsAgree`,
`MonthHasOneBatch` and `AlertHasCase` are then preserved action by action;
`OutboxMatchesReceipts` and `ListingAgrees` follow from them.

It also proves `RefundBookSound` of the workbooks that name the targets. Each target
is what one row of its workbook says (`TargetTrue`), which imports and scans keep. An
import writes all companies that are due in its sheet or none and touches no other
target (`ImportIsWhole`); since a workbook that already gave a target gave it to a
company that is due, the step property follows.

`SnapshotPublicationProofs` proves `PublicationSound` (masters of a company never
overlap, snapshots count every row of their sources) and `PublishedStays`. Each
request decides in one step and writes in a later one, so the invariant says what
every pending write rests on (`WriteReady`, by kind of write: the batch is still
RECEIVED, no published master overlaps, members are published, current and under
their locks) and that exclusive locks are exclusive (`LocksExclusive`). What one
client writes then cannot touch what another has decided, or that one would hold
the same lock.

It also proves `WorkbookSound` of the master workbooks. Every batch is that of its own
normalised upload (`Key` of a key is the key) and is true to the rows of the file
(`BatchTrue`); a review under way is by somebody other than the sender of its draft
(`ReviewTrue`). What a publication adds was tested against what is published when it
commits, so that the days of a company never overlap.

`ServiceProofs` proves the promises of four services, each on its own.
- `ExportSound`: the row lock admits one renderer (`OneRenderer`), files leave the
  store only after the retention (`FilesKept`). That an expired job has no file needs
  that a job completed once is not rendered again (`ProducedOnce`), which is so
  unless its completion could not be audited and its message came twice.
- `FetchSound`: a reader is loose while it fetches without the lease. A reader
  becomes loose only by a fault that has not happened yet (`LooseBounded`), so that
  a request has at most one reader and one more for each fault; an answer stored
  under the lease replaces none (`FetchesMisses`).
- `DgcSound`: there are never more tokens than were revoked or have expired, and
  one in use (`TokensCounted`). What a thread has read is the table up to its
  offset if the service pages regularly (`Whole`), and rows of it in their order if
  it does not (`Ordered`); the pages before an offset have room for it (`Placed`).
- `EntertainmentSound`: what is persisted is nothing, or all that follows from the
  books (`AllPersisted`), so attempts that overlap agree on it, and an attempt that
  has come far enough knows it (`Informed`). That every document is evaluated once
  is then a fact about the exact links: whoever stands for an OA is a Hesi, for
  which nobody stands (`HeirsAreHesi`), and a voucher with a link leads to one
  document (`OneVoucher`). Routing goes on because finitely many evaluations in an
  order have a first (`FiniteHasFirst`, by the well-founded order of finite sets).
  Assumed of the books: what they hold is finite and its numbers, which stand for
  record ids in the order of the keys, are different.

`RecordProofs` proves the promises of three parts of `records`.
- `GovernanceSound`, of which `Governance` gives the two halves. Versions: whoever
  publishes a scope holds the lock under which he found no overlap
  (`PublishingApproved`), and no two publish the same version (`PublishersApart`).
  Sign-in: the window of a key holds all failures that are recent, so the limiter
  counts what happened, and failures with the requests let in are fewer than the
  limit with the threads (`LimiterInv`); a cookie that bears a tab's state bears its
  page (`TabKept`).
- `ImportSound`: whoever holds the batch's row found it RECEIVED and leaves it done
  or as it was, and the companies that a commit accepts rows for are locked since
  they were found active (`RequestHolds`). That a batch adds up is a fact about the
  operators that make it and its records from the rows (`ProcessedSettles`); the
  control total of no rows is the only fold that had to be evaluated.
- `DrillSound` (`DrillIsSound`): evidence is produced before it is kept and never
  forgotten, so that a file stays true whoever writes it when (`FileSound`,
  `RunSound`), and nothing has to keep runs apart for that. What a run that is alone
  has in memory is never behind the checkpoint (`RunAhead`, `AloneIsAlone`), so it
  repeats no stage and its writes lose none. That the report shows what the stages
  gave, although a checkpoint was altered, needs that every stage before the one a
  run goes on with was compared or done by itself (`Ready`). Assumed: the value for
  no file is none that a file can have.

The invariants were checked by TLC on the instances of the runs before they were
proved.

Only model-checked:
- the liveness properties (`BatchEnds`, `RunEnds`, `SummaryCatchesUp`, `Ends`,
  `ServicesEnd`), which depend on fairness and are out of reach of the prover;
- `VerdictsSound` and `MetricsSound`: most of their parts are functions of tables that
  `MCRecords` lists case by case, and sums over rows, whose value for every table would
  need induction over data;
- `LedgerSound`, and with it `FilesSound` as a whole; its other four parts are proved
  (`WorkbooksAreSound`, `RefundBooksAreSound`, `DrillIsSound`, `ReportsAreSound`).

## Known deviations

Runs that TLC is expected to refute, each against a line of the repository:

- `refund_target_race`: `import_targets` says that a scanned target cannot be
  changed and checks it without a lock.
- `refund_stale_case`: an ambiguous month leaves a case behind that a later
  month, which finds the refund uniquely on a wrong account, does not turn into
  the wrong-account risk.
- `monthly_empty_retry`: a retry without failed rows leaves a finished run RUNNING.

Others that were seen while modelling and have no run; the models contain them,
and the properties say where they except them:

- `application/income_tax_refunds.py:759` shows a row that the ledger already
  called 已退税 under the label of a received refund
  (`web/.../IncomeTaxRefundPage.tsx:110`); `ListedAs` has both cases.
- `application/refund_writebacks.py:319`: an outage uses up a row's attempts, and
  no listing offers it again afterwards.
- `application/monthly_semantic_runs.py:390`: an attempt that fails with an empty
  message violates the row's lifecycle constraint and breaks the chord.
- `application/monthly_semantic_runs.py:318`: `mark_dispatch_failed` overwrites a
  run whose tasks may already be running.
- `application/monthly_semantic_runs.py:459`: the manual retry does not look at
  the run's status, and locks run and rows in the opposite order of a task.
- `main.py:649`: a canvas sent in part has no chord body; `workers/quarterly_batch.py:104`:
  a rejected scope token is not an emergency for the reconciliation.
- `application/snapshots.py:300`: after a rename the period's snapshot no longer
  equals its sources, and the same sources cannot be validated again.
- `application/master_data.py:365`: nothing retires a published master.
- `application/exports.py:250`: auditing that fails after a completion makes a job
  with a stored file FAILED; `application/exports.py:190`: nothing sends the
  message of a QUEUED job again.
- `application/case_merge.py:74`: a merge repeated with the row version of the
  first is refused before the branch that would replay its result.
- `application/dgc_hesi_no_invoice.py:116`: a process that dies after it created
  its batch leaves it RECEIVED for ever under its key.
- `application/semantic/account_dictionary.py:251`: dictionaries and artifacts are
  published without the lock that scopes have.
- `release/rollback.py:524`: two runs share a checkpoint and its temporary file.
- `scripts/run_real_tax_adjustment_validation.py:1295`: the web report is read,
  merged and written back without a lock; `scripts/run_real_full_validation.py:1068`:
  a run over the first companies replaces the report of all.
- `application/tax_adjustment_accounts/web_report.py:166`: a company that joined
  the base after the last check makes the full validation fail at its end.
- `adapters/dgc/settlement_adjustment.py:178`: a short page ends the settlement
  rows before the announced total is reached; `adapters/dgc/settlement_adjustment.py:295`:
  rows that come without a company are given the one that was asked for.
- `scripts/run_real_full_validation.py:673` (and 726, 786): a monitor whose formula
  failed has no alert and is published as CLEAR; only the potential cost is BLOCKED
  (839). `domain/quarterly.py:61`: a loss that does not fit its column raises, which
  ends the script for all companies.
- `adapters/ingest/dgc_hesi_no_invoice.py:273`: the amounts of one claim are added
  in a context of 28 digits, so a claim can lack more than was reimbursed for it.

Steps that the models take to be simpler than the code makes them, in cases that
no property depends on:

- `ValidationReport.WriteFile` is one replacement. Scripts that overlap use the same
  temporary file (`scripts/run_real_tax_adjustment_validation.py:333`) and may publish
  each other's content or fail; the properties except runs that met.
- `DgcReader.TakeToken` is one read. The code looks at the token twice without the
  lock (`adapters/ingest/dgc_sap_profit.py:433`) while another thread may clear it.
- `SignIn.WrongPassword` always counts a failure. For an unknown user the password is
  compared with a constant one (`security/authentication.py:494`), which would end in
  an assertion and not be counted.
- `SourceImport.ImportNext` has no path for a batch whose metadata are not those of the
  adapter (`application/ingest.py:311`), which leaves the batch as it is.

## Further hazards

`PROJECT.json` lists the forty hazards that carry most; the modules contain these
as well:

- `observability/delivery.py:19`: the delivery view calls a company's output ready
  from row fields that a manual retry resets (`OutputBacked`).
- `application/income_tax_refunds.py:595`: scans of months out of order set
  latest_scan_period back to the earlier month. The field is only displayed;
  nothing reads it for a decision.
- `application/monthly_semantic_runs.py:495`: each attempt takes the version set
  FOR UPDATE for as long as the agents run: attempts of one version set run one
  after another. A matter of throughput; the model's attempts begin and commit in
  separate steps without it.
- `persistence/semantic_repositories.py:283`: the same voucher ingested in two SAP
  batches is projected twice, because projections are chosen by observation and
  not by voucher. The code promises uniqueness per observation only.
- `application/quarterly_runs.py:1020`: a closed case is refreshed by a newer
  alert and stays closed, so the newer alert asks nobody for a review. No line of
  the repository says whether such a case opens again; CaseLifecycle contains the
  behaviour.
- `adapters/cache/redis_fetch_cache.py:97`: an entry of the cache is damaged or
  half written: it must be read as missing, never as data (`FetchSound`).
- `scripts/enqueue_feishu_alert_notifications.py:439`: two runs of the queueing
  script read the same table of queued notifications and both add the missing
  rows: an alert must be queued once (`AlertSound` excepts overlapping runs).
- `domain/quarterly.py:242`: an alert is decided on the exact deviation but the
  rounded one is stored: they must not contradict each other (`VerdictsSound`).
- `adapters/ingest/dgc_hesi_no_invoice.py:490`: a claim has approval dates in two
  quarters, or credit rows that make its group negative: amounts must be counted
  once and in one quarter (`MetricsSound`).
- `adapters/ingest/dgc_hesi_no_invoice.py:562`: rows repeated by overlapping pages
  of Hesi (`MetricsSound`).
- `adapters/ingest/dgc_sap_dividend_detail.py:187`: rows of dividends, turnover or
  balances repeated by overlapping pages are counted twice, since they have no
  key. The adapters are given no identity of a row; MetricsSound states the sums
  over what was delivered.
- `adapters/ingest/dgc_sap_trial_balance.py:136`: a year with rows only after the
  quarter is an error while an empty table gives zeros. Nothing in the repository
  says which of the two answers is meant.
- `application/ingest.py:189`: two requests create a batch under the same key at
  once: one batch, and the other request is answered with it (`ImportSound`).
- `application/ingest.py:377`: a failure is told in a second transaction after
  another request has finished the batch: a terminal batch must stay as it is
  (`ImportSound`).
- `application/ingest.py:300`: a file is sent again for a terminal batch, the same
  or another one: the same is replayed, another refused (`ImportSound`).
- `application/ingest_processors.py:259`: the total of a file passes the width of
  the column while every row is inside it (`ImportSound`).
- `application/ingest.py:371`: a transient failure makes the batch FAILED, and its
  key answers with that for ever. ImportSound states that a terminal batch stays;
  that a new key is needed is the code's choice.
- `application/semantic/version_registry.py:164`: a maker approves his own version
  under another spelling of his name, or a version is published that somebody else
  has rejected (`GovernanceSound`).
- `application/business_entertainment/company_scope.py:359`: a company is
  deactivated between the upload of a scope and its publication, which does not
  look again: whoever resolves the scope is refused while a member is inactive, for
  the other members too (`GovernanceSound`).
- `security/authentication.py:169`: the check of the limiter and its count are two
  steps: requests checked together all go through, and a success clears the
  failures of the others (`GovernanceSound`).
- `security/authentication.py:78`: a restart forgets the failures that were
  counted, and sessions keep the roles they were issued with until they end.
  SignIn contains the restart; the code keeps nothing that would carry either
  over.
- `application/business_entertainment/evaluation_items.py:142`: two SAP rows of
  one document, or several claims of one application, fail the item builder or
  leave a voucher without a paper (`EntertainmentSound`).
- `workers/business_entertainment.py:169`: a retry meets the retry limit, a gate
  that closed or a company that left: every delivery must end (`ServicesEnd`).
- `application/business_entertainment/linker.py:158`: several Hesi claims name one
  OA: the last one read wins, and its text is part of the others' evidence. The
  code chooses silently; EntertainmentRun has the choice, and what evidence a
  claim should see is written nowhere.
- `adapters/ingest/tax_master_xlsx.py:842`: two rows of one company in a file
  overlap because the first has no end; a blank row stands between data
  (`FilesSound`).
- `application/master_data.py:155`: a second request commits under the same key
  after the first has probed it: it must be answered with the same outcome
  (`FilesSound`).
- `application/master_data.py:334`: the maker reviews his own version under
  another spelling of his name (`FilesSound`).
- `adapters/lark/refund_base.py:285`: Feishu answers an update that it did not do,
  or does one whose answer is lost (`FilesSound`).
- `adapters/ingest/income_tax_refund_xlsx.py:378`: an amount is rounded twice, to
  the cell's digits and to cents, and one that parses is too small for the import
  (`FilesSound`).
- `adapters/ingest/income_tax_refund_xlsx.py:243`: a company stands in a workbook
  twice, or a workbook changes a target that has been settled (`FilesSound`).
- `api/routes/income_tax_refunds.py:177`: an upload fails at any of its steps: the
  permit of the parser must come back (`FilesSound`).
- `release/rollback.py:433`: the checkpoint that is found belongs to another
  release or its evidence was altered by hand (`FilesSound`).
- `scripts/run_real_tax_adjustment_validation.py:967`: one of many requests fails:
  the accounts it concerns must be shown as errors, all others as usual
  (`VerdictsSound`).
- `application/tax_adjustment_accounts/adjustment.py:52`: an expense that equals
  its limit, a base of zero or below, a month 000, a profit without its total row
  (`VerdictsSound`).
- `scripts/run_real_full_validation.py:931`: the same amount is booked in several
  families of accounts: the taxes payable count only when the others have none
  (`VerdictsSound`).

## Not modelled

- The wording of vouchers and what models make of it: prompts, rules over words,
  the gateway with its budget. A model's answer is any label, or one that is
  rejected.
- The formats of OA and Hesi files and of CSV rows: what is wrong with a row is a
  value; the legal-entity metrics of Feishu.
- The sending of queued messages to people, which is a call per row.
- Policies and row-level security, which filter what a request sees and keep no
  state; the audit ledger, which is only appended to.
- Manifests, replay gate and scorecard of a release: computations over evidence
  that is given.
- Metrics, tracing and log context; the web client; deployment.
- The broker and the result backend of Celery beyond what the workers rely on.

## Plan

1. Done: quarterly batch with its contract, monthly run, refund scan, refund
   delivery, case lifecycle and snapshot publication; the services;
   the records.
2. Done: proofs about `SnapshotPublication`, the retries of the quarterly batch, four
   services and nine parts of the records. Left: the part of `FilesSound` that is a
   protocol still without proof (`LedgerTable`).
3. A composition of `RefundScan` and `RefundDelivery`, and one of `EntertainmentRun`
   and `SemanticCase`, if the state space allows it.
