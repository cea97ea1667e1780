--------------------------- MODULE QuarterlyBatch ---------------------------
(***************************************************************************)
(* One quarterly monitoring batch: the monitoring_run row, its             *)
(* monitoring_run_company rows, and the Celery canvases (a chord: one task *)
(* per company, then one summary task) that drive them.                    *)
(*                                                                         *)
(* A database transaction that reads and writes under row locks is one     *)
(* step.  The exception is run_company: it holds its row FOR UPDATE and    *)
(* the run FOR SHARE while the company runner commits detections in a      *)
(* transaction of its own, so that attempt is three steps, exec[c] stands  *)
(* for the two locks, and everything else still sees the row as it was     *)
(* committed before the attempt.                                           *)
(*                                                                         *)
(* Task ids: the task of company c in canvas k is identified by k, because *)
(* row c is only ever handled by tasks of company c.  retryable is not     *)
(* stored: every writer sets it exactly for RETRY_PENDING and FAILED.      *)
(***************************************************************************)
EXTENDS Naturals, FiniteSets

CONSTANTS
    Company,     \* the frozen members of the snapshot set, one row each
    Canvas,      \* dispatches of the batch, one chord each (a bound)
    NoCanvas,    \* celery_task_id IS NULL
    MaxRetries,  \* quarterly_task_max_retries
    MaxFaults,   \* how many deliveries the broker may repeat or lose (a bound)
    Faults       \* which failures the environment shows, see FaultKinds

FaultKinds == {"crash", "duplicate", "partial", "scope"}

ASSUME CompanyAssumption == IsFiniteSet(Company) /\ Company # {}
ASSUME CanvasAssumption == NoCanvas \notin Canvas
ASSUME BoundAssumption == MaxRetries \in Nat /\ MaxFaults \in Nat
ASSUME FaultAssumption == Faults \subseteq FaultKinds

VARIABLES
    run,         \* the monitoring_run row
    row,         \* the committed monitoring_run_company rows
    detections,  \* companies whose complete detection set is committed
    exec,        \* attempts that hold row c and share the run
    canvas,      \* what each canvas was planned for and how far it was sent
    msgs,        \* company tasks in the broker: <<canvas, company, retries>>
    header,      \* what each company task reported to its chord
    body,        \* progress of each canvas's summary task
    faults       \* repeated or lost deliveries so far

vars == <<run, row, detections, exec, canvas, msgs, header, body, faults>>

-----------------------------------------------------------------------------

Active   == {"PENDING", "RUNNING", "RETRY_PENDING"}
Settled  == {"SUCCEEDED", "BLOCKED", "FAILED"}
Terminal == {"SUCCEEDED", "PARTIAL_SUCCESS", "FAILED"}

Row == [status : Active \cup Settled \cup {"ABSENT"},
        owner : Canvas \cup {NoCanvas}, attempted : BOOLEAN, ready : BOOLEAN]

Run == [status : Terminal \cup {"ABSENT", "RUNNING"},
        succeeded : Nat, blocked : Nat, failed : Nat,
        finished : BOOLEAN, outputReady : BOOLEAN]

Message == Canvas \X Company \X (0 .. MaxRetries)

NoExec == [canvas |-> NoCanvas, retries |-> 0, calculated |-> FALSE]
Exec == [canvas : Canvas, retries : 0 .. MaxRetries, calculated : BOOLEAN]

RowsIn(S) == {c \in Company : row[c].status \in S}
NumberIn(s) == Cardinality(RowsIn({s}))

\* Mutant: nobody waits for the row lock of an attempt.
MutUnlocked(c) == TRUE

Unlocked(c) == exec[c] = NoExec
\* FOR UPDATE on the run waits for every attempt that shares it.
RunUnlocked == \A c \in Company : Unlocked(c)

PendingRow(attempted) ==
    [status |-> "PENDING", owner |-> NoCanvas, attempted |-> attempted, ready |-> FALSE]

FinishedRow(status, k) ==
    [status |-> status, owner |-> k, attempted |-> TRUE, ready |-> status = "SUCCEEDED"]

Plan(k, cs) == canvas' = [canvas EXCEPT ![k] = [phase |-> "planned", members |-> cs]]

-----------------------------------------------------------------------------

Init ==
    /\ run = [status |-> "ABSENT", succeeded |-> 0, blocked |-> 0, failed |-> 0,
              finished |-> FALSE, outputReady |-> FALSE]
    /\ row = [c \in Company |-> [PendingRow(FALSE) EXCEPT !.status = "ABSENT"]]
    /\ detections = {}
    /\ exec = [c \in Company |-> NoExec]
    /\ canvas = [k \in Canvas |-> [phase |-> "free", members |-> {}]]
    /\ msgs = {}
    /\ header = [k \in Canvas |-> [c \in Company |-> "none"]]
    /\ body = [k \in Canvas |-> "waiting"]
    /\ faults = 0

\* POST /quarterly-runs for a new run key: the run and all its rows at once.
CreateBatch(k) ==
    /\ run.status = "ABSENT"
    /\ canvas[k].phase = "free"
    /\ run' = [run EXCEPT !.status = "RUNNING"]
    /\ row' = [c \in Company |-> PendingRow(FALSE)]
    /\ Plan(k, Company)
    /\ UNCHANGED <<detections, exec, msgs, header, body, faults>>

\* The same POST again: the rows still PENDING are dispatched once more.  It
\* locks neither the run nor the rows, so a row under execution is PENDING here.
ResumeBatch(k) ==
    /\ run.status = "RUNNING"
    /\ canvas[k].phase = "free"
    /\ RowsIn({"PENDING"}) # {}
    /\ Plan(k, RowsIn({"PENDING"}))
    /\ UNCHANGED <<run, row, detections, exec, msgs, header, body, faults>>

\* apply_async sends the header tasks one by one after the plan is committed:
\* a lost process or broker can leave any part of them unsent, and then the
\* summary of that canvas never starts.
Dispatch(k) ==
    /\ canvas[k].phase = "planned"
    /\ canvas' = [canvas EXCEPT ![k].phase = "sent"]
    /\ \E sent \in SUBSET canvas[k].members :
          /\ sent = canvas[k].members \/ "partial" \in Faults
          /\ msgs' = msgs \cup {<<k, c, 0>> : c \in sent}
    /\ UNCHANGED <<run, row, detections, exec, header, body, faults>>

-----------------------------------------------------------------------------
(* The company task.                                                       *)

\* A fault the environment shows, within the bound.
Fault(kind) == kind \in Faults /\ faults < MaxFaults /\ faults' = faults + 1

\* How a delivery of message m ends once its transaction is over: it sends
\* the messages in next, reports result to its chord (the first report of a
\* task stands) and is acknowledged; or the broker has handed m out twice; or
\* the worker dies first and m is delivered again (acks_late).
Complete(m, next, result) ==
    \/ /\ \/ /\ msgs' = (msgs \ {m}) \cup next
             /\ UNCHANGED faults
          \/ /\ msgs' = msgs \cup next
             /\ Fault("duplicate")
       /\ header' = [header EXCEPT ![m[1]][m[2]] = IF @ = "none" THEN result ELSE @]
    \/ /\ Fault("crash")
       /\ UNCHANGED <<msgs, header>>

\* task.retry keeps the task id and counts one retry more.
Again(m) == {<<m[1], m[2], m[3] + 1>>}

\* Mutant: any task may run a row whose retry is scheduled.
MutEligibleAnyOwner(k, c) == row[c].status \in {"PENDING", "RETRY_PENDING"}
\* Mutant: the scheduled retry of a task is not recognised as its own.
MutEligiblePending(k, c) == row[c].status = "PENDING"

Eligible(k, c) ==
    \/ row[c].status = "PENDING"
    \/ row[c].status = "RETRY_PENDING" /\ row[c].owner = k

Executing(k, c, r) ==
    /\ <<k, c, r>> \in msgs
    /\ exec[c].canvas = k
    /\ exec[c].retries = r

RejectScope(k, c, r) ==
    /\ <<k, c, r>> \in msgs
    /\ "scope" \in Faults
    /\ ~Executing(k, c, r)
    /\ Complete(<<k, c, r>>, {}, "scope")
    /\ UNCHANGED <<run, row, detections, exec, canvas, body>>

\* A settled row, or a retry that another task owns: report it as it is.
ReturnCurrent(k, c, r) ==
    /\ <<k, c, r>> \in msgs
    /\ Unlocked(c)
    /\ ~Eligible(k, c)
    /\ Complete(<<k, c, r>>, {}, "outcome")
    /\ UNCHANGED <<run, row, detections, exec, canvas, body>>

BeginAttempt(k, c, r) ==
    /\ <<k, c, r>> \in msgs
    /\ Unlocked(c)
    /\ Eligible(k, c)
    /\ run.status = "RUNNING"
    /\ exec' = [exec EXCEPT ![c] = [canvas |-> k, retries |-> r, calculated |-> FALSE]]
    /\ UNCHANGED <<run, row, detections, canvas, msgs, header, body, faults>>

\* The runner's own transaction commits the detections, or finds them there.
Calculate(k, c, r) ==
    /\ exec[c] = [canvas |-> k, retries |-> r, calculated |-> FALSE]
    /\ exec' = [exec EXCEPT ![c] = [canvas |-> k, retries |-> r, calculated |-> TRUE]]
    /\ detections' = detections \cup {c}
    /\ UNCHANGED <<run, row, canvas, msgs, header, body, faults>>

\* The attempt commits its row and releases both locks.
Commit(c, status) ==
    /\ row' = [row EXCEPT ![c] = FinishedRow(status, exec[c].canvas)]
    /\ exec' = [exec EXCEPT ![c] = NoExec]
    /\ UNCHANGED <<run, detections, canvas, body>>

FinishSucceeded(k, c, r) ==
    /\ Executing(k, c, r)
    /\ exec[c].calculated
    /\ Commit(c, "SUCCEEDED")
    /\ Complete(<<k, c, r>>, {}, "outcome")

\* A QuarterlyRunError: the frozen input is unfit and nothing was written.
FinishBlocked(k, c, r) ==
    /\ Executing(k, c, r)
    /\ ~exec[c].calculated
    /\ c \notin detections
    /\ Commit(c, "BLOCKED")
    /\ Complete(<<k, c, r>>, {}, "outcome")

\* Any other exception of the runner, also one after its own commit.
\* Mutant: a retry is announced although the last one has been used.
MutFinishRetryPending(k, c, r) ==
    /\ Executing(k, c, r)
    /\ Commit(c, "RETRY_PENDING")
    /\ Complete(<<k, c, r>>, Again(<<k, c, r>>), "none")

FinishRetryPending(k, c, r) ==
    /\ Executing(k, c, r)
    /\ r < MaxRetries
    /\ Commit(c, "RETRY_PENDING")
    /\ Complete(<<k, c, r>>, Again(<<k, c, r>>), "none")

FinishFailed(k, c, r) ==
    /\ Executing(k, c, r)
    /\ r = MaxRetries
    /\ Commit(c, "FAILED")
    /\ Complete(<<k, c, r>>, {}, "outcome")

\* An exception that leaves run_company, its transaction rolled back: the
\* task retries, and once exhausted reports an emergency to the summary.
Raise(k, c, r) ==
    /\ <<k, c, r>> \in msgs
    /\ exec' = IF exec[c].canvas = k /\ exec[c].retries = r
               THEN [exec EXCEPT ![c] = NoExec] ELSE exec
    /\ IF r < MaxRetries
       THEN Complete(<<k, c, r>>, Again(<<k, c, r>>), "none")
       ELSE Complete(<<k, c, r>>, {}, "emergency")
    /\ UNCHANGED <<run, row, detections, canvas, body>>

\* The worker dies during the attempt: rolled back, and delivered again.
LoseWorker(c) ==
    /\ ~Unlocked(c)
    /\ Fault("crash")
    /\ exec' = [exec EXCEPT ![c] = NoExec]
    /\ UNCHANGED <<run, row, detections, canvas, msgs, header, body>>

-----------------------------------------------------------------------------
(* The summary task and the manual retry.                                  *)

HeaderComplete(k) ==
    /\ canvas[k].phase = "sent"
    /\ \A c \in canvas[k].members : header[k][c] # "none"

Emergencies(k) == {c \in canvas[k].members : header[k][c] = "emergency"}

\* Mutant: an emergency overrides whatever the row says.
MutExhaustedAny(k) == Emergencies(k)
\* Mutant: an emergency is forgotten when its retry was already scheduled.
MutExhaustedPending(k) == {c \in Emergencies(k) : row[c].status = "PENDING"}

\* Rows an emergency of canvas k may fail: a retry scheduled by another task
\* is left to its owner, a settled row stays.
Exhausted(k) ==
    {c \in Emergencies(k) :
        \/ row[c].status = "PENDING"
        \/ row[c].status \in {"RUNNING", "RETRY_PENDING"} /\ row[c].owner = k}

ReconcileHeader(k) ==
    /\ body[k] = "waiting"
    /\ HeaderComplete(k)
    /\ \A c \in Emergencies(k) : Unlocked(c)
    /\ row' = [c \in Company |-> IF c \in Exhausted(k) THEN FinishedRow("FAILED", k)
                                 ELSE row[c]]
    /\ body' = [body EXCEPT ![k] = "reconciled"]
    /\ UNCHANGED <<run, detections, exec, canvas, msgs, header, faults>>

\* Mutant: a scheduled retry does not count as active.
MutBatchStatusNoRetry ==
    IF RowsIn({"PENDING", "RUNNING"}) # {} THEN "RUNNING"
    ELSE IF NumberIn("SUCCEEDED") = Cardinality(Company) THEN "SUCCEEDED"
    ELSE IF NumberIn("SUCCEEDED") > 0 THEN "PARTIAL_SUCCESS"
    ELSE "FAILED"
\* Mutant: blocked companies count as done.
MutBatchStatusBlocked ==
    IF RowsIn(Active) # {} THEN "RUNNING"
    ELSE IF RowsIn({"FAILED"}) = {} THEN "SUCCEEDED"
    ELSE IF NumberIn("SUCCEEDED") > 0 THEN "PARTIAL_SUCCESS"
    ELSE "FAILED"

BatchStatus ==
    IF RowsIn(Active) # {} THEN "RUNNING"
    ELSE IF NumberIn("SUCCEEDED") = Cardinality(Company) THEN "SUCCEEDED"
    ELSE IF NumberIn("SUCCEEDED") > 0 THEN "PARTIAL_SUCCESS"
    ELSE "FAILED"

\* Mutant: the output is announced when the batch is over.
MutOutputReady == RowsIn(Active) = {}

\* derive_batch_delivery: the output is ready when every company's is.
OutputReady == \A c \in Company : row[c].status = "SUCCEEDED" /\ row[c].ready

Summarize(k) ==
    /\ body[k] = "reconciled"
    /\ RunUnlocked
    /\ run' = [status |-> BatchStatus, succeeded |-> NumberIn("SUCCEEDED"),
               blocked |-> NumberIn("BLOCKED"), failed |-> NumberIn("FAILED"),
               finished |-> RowsIn(Active) = {}, outputReady |-> OutputReady]
    /\ body' = [body EXCEPT ![k] = "done"]
    /\ UNCHANGED <<row, detections, exec, canvas, msgs, header, faults>>

\* The summary task is at least once as well: lost between its two
\* transactions, or delivered again after both.
RedeliverBody(k) ==
    /\ body[k] \in {"reconciled", "done"}
    /\ Fault("crash")
    /\ body' = [body EXCEPT ![k] = "waiting"]
    /\ UNCHANGED <<run, row, detections, exec, canvas, msgs, header>>

RetryFailed(k) ==
    /\ canvas[k].phase = "free"
    /\ run.status \in {"PARTIAL_SUCCESS", "FAILED"}
    /\ RunUnlocked
    /\ RowsIn({"FAILED"}) # {}
    /\ row' = [c \in Company |-> IF row[c].status = "FAILED"
                                 THEN PendingRow(row[c].attempted) ELSE row[c]]
    /\ run' = [status |-> "RUNNING", succeeded |-> NumberIn("SUCCEEDED"),
               blocked |-> NumberIn("BLOCKED"), failed |-> 0,
               finished |-> FALSE, outputReady |-> FALSE]
    /\ Plan(k, RowsIn({"FAILED"}))
    /\ UNCHANGED <<detections, exec, msgs, header, body, faults>>

-----------------------------------------------------------------------------

Deliver(k, c, r) ==
    \/ RejectScope(k, c, r) \/ ReturnCurrent(k, c, r) \/ BeginAttempt(k, c, r)
    \/ Calculate(k, c, r) \/ FinishSucceeded(k, c, r) \/ FinishBlocked(k, c, r)
    \/ FinishRetryPending(k, c, r) \/ FinishFailed(k, c, r) \/ Raise(k, c, r)

Next ==
    \/ \E k \in Canvas :
          \/ CreateBatch(k) \/ ResumeBatch(k) \/ Dispatch(k) \/ RetryFailed(k)
          \/ ReconcileHeader(k) \/ Summarize(k) \/ RedeliverBody(k)
          \/ \E c \in Company, r \in 0 .. MaxRetries : Deliver(k, c, r)
    \/ \E c \in Company : LoseWorker(c)

Spec == Init /\ [][Next]_vars

\* A process that committed a plan goes on to dispatch it, the workers drain
\* the queue, and a complete chord runs its body.  Requests are not fair.
Fairness ==
    \A k \in Canvas :
        /\ WF_vars(Dispatch(k))
        /\ WF_vars(ReconcileHeader(k))
        /\ WF_vars(Summarize(k))
        /\ \A c \in Company, r \in 0 .. MaxRetries : WF_vars(Deliver(k, c, r))

FairSpec == Spec /\ Fairness

-----------------------------------------------------------------------------
(* What the batch guarantees.                                              *)

\* Every variable has its type.
TypeOK ==
    /\ run \in Run
    /\ row \in [Company -> Row]
    /\ detections \in SUBSET Company
    /\ exec \in [Company -> Exec \cup {NoExec}]
    /\ canvas \in [Canvas -> [phase : {"free", "planned", "sent"}, members : SUBSET Company]]
    /\ msgs \in SUBSET Message
    /\ header \in [Canvas -> [Company -> {"none", "outcome", "emergency", "scope"}]]
    /\ body \in [Canvas -> {"waiting", "reconciled", "done"}]
    /\ faults \in Nat

\* A batch reported terminal has no company left to run, whichever duplicate
\* canvases, stale retries and late summaries are still on their way.
TerminalMeansSettled ==
    run.status \in Terminal => \A c \in Company : row[c].status \in Settled

\* The summary of a terminal batch stays what its rows say: nothing moves a
\* row under it, and the status is the one those rows call for.
TerminalSummaryExact ==
    run.status \in Terminal =>
        /\ run.status = BatchStatus
        /\ run.succeeded = NumberIn("SUCCEEDED")
        /\ run.blocked = NumberIn("BLOCKED")
        /\ run.failed = NumberIn("FAILED")
        /\ run.finished

\* An output announced as ready covers every company, with its detections
\* committed; a company reported as blocked has left none behind.
OutputBacked ==
    /\ run.outputReady => \A c \in Company : row[c].status = "SUCCEEDED"
    /\ \A c \in Company : /\ row[c].status = "SUCCEEDED" => c \in detections
                          /\ row[c].status = "BLOCKED" => c \notin detections

\* An attempt under way belongs to a running batch and an unsettled row, so no
\* summary and no manual retry ever overlaps it.
AttemptIsolated ==
    \A c \in Company : exec[c] # NoExec =>
        /\ run.status = "RUNNING"
        /\ row[c].status \in {"PENDING", "RETRY_PENDING"}
        /\ row[c].status = "RETRY_PENDING" => exec[c].canvas = row[c].owner
        /\ exec[c].calculated => c \in detections

\* The results of succeeded and blocked companies are final; a failed row
\* leaves that state only through a manual retry of the whole batch.
ResultsKept ==
    \A c \in Company :
        /\ row[c].status \in {"SUCCEEDED", "BLOCKED"} => row'[c] = row[c]
        /\ row[c].status = "FAILED" /\ row'[c] # row[c] =>
              run.status \in Terminal /\ run'.status = "RUNNING"

ResultsFinal == [][ResultsKept]_vars

\* "A duplicate canvas cannot exhaust or steal another task's in-flight attempt
\* or scheduled retry ownership": whatever ends a scheduled retry, it is the
\* task that owns it.
OwnerKept ==
    \A c \in Company : row[c].status = "RETRY_PENDING" => row'[c].owner = row[c].owner

RetryOwnershipKept == [][OwnerKept]_vars

\* A scheduled retry still has a way on: a message of its owner, or the
\* owner's emergency in a header whose summary has not reconciled it yet.
RetryNotOrphaned ==
    \A c \in Company : row[c].status = "RETRY_PENDING" =>
        LET k == row[c].owner
        IN  \/ \E r \in 0 .. MaxRetries : <<k, c, r>> \in msgs
            \/ header[k][c] = "emergency" /\ body[k] = "waiting"

\* A running batch comes to its end, as long as every plan is sent in full, no
\* task is rejected and no message is handed out twice.
BatchEnds == run.status = "RUNNING" ~> run.status \in Terminal

-----------------------------------------------------------------------------
\* The batch as its callers see it: rows still to be run have no result yet.
Contract == INSTANCE BatchContract WITH
    status <- run.status,
    result <- [c \in Company |-> IF row[c].status \in Settled THEN row[c].status
                                 ELSE "open"]

\* The queue, the retries and the locks keep the promise of BatchContract.
KeepsContract == Contract!Spec
=============================================================================
