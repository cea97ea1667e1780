------------------------------ MODULE MonthlyRun ------------------------------
(***************************************************************************)
(* One monthly semantic run (welfare or donation): the monitoring_run row, *)
(* its company rows and the chords that drive them.  Same tables and same  *)
(* canvas shape as the quarterly batch, different rules: a failed row may  *)
(* be run by any task, attempts do not look at the status of the run, an   *)
(* exception that leaves run_company fails the task and with it its chord, *)
(* and a refused dispatch is written into the run.                         *)
(*                                                                         *)
(* An attempt holds its row, shares the run and holds the semantic version *)
(* set FOR UPDATE until it commits, and all runs of that set need it, so   *)
(* there is one attempt at a time and exec stands for all three locks.     *)
(***************************************************************************)
EXTENDS Naturals, FiniteSets

CONSTANTS
    Company,     \* companies of the run
    Canvas,      \* dispatches of the run, one chord each (a bound)
    NoCanvas,    \* of no attempt
    MaxRetries,  \* quarterly_task_max_retries, shared by this worker
    Faults,      \* faults of the environment, each at most once (a bound)
    MaxFaults,   \* number of them in one behaviour (a bound)
    EmptyRetries \* do operators retry a run that has no failed company?

\* A lost worker, a message handed out twice, a broker that refuses part of a
\* canvas, an exception that leaves run_company: a lock lost to a deadlock, or
\* a failure without a message, which the row's CHECK refuses.
FaultKinds == {"crash", "duplicate", "refusal", "raise"}

ASSUME CompanyAssumption == IsFiniteSet(Company) /\ Company # {}
ASSUME CanvasAssumption == NoCanvas \notin Canvas
ASSUME RetryAssumption == MaxRetries \in Nat
ASSUME FaultAssumption == Faults \subseteq FaultKinds /\ MaxFaults \in Nat
ASSUME OperatorAssumption == EmptyRetries \in BOOLEAN

VARIABLES
    run,         \* the monitoring_run row
    row,         \* committed status of each company row
    detections,  \* companies whose detections the router has committed
    exec,        \* the attempt under way
    canvas,      \* what each canvas was planned for and how far it was sent
    msgs,        \* company tasks in the broker: <<canvas, company, retries>>
    header,      \* what each company task reported to its chord
    body,        \* summary tasks that have run
    faults       \* faults that have happened

vars == <<run, row, detections, exec, canvas, msgs, header, body, faults>>

-----------------------------------------------------------------------------

Terminal == {"SUCCEEDED", "PARTIAL_SUCCESS", "FAILED"}
RowStatus == {"ABSENT", "PENDING", "SUCCEEDED", "FAILED", "NOT_RUN"}

Run == [status : Terminal \cup {"ABSENT", "RUNNING"}, succeeded : Nat, failed : Nat,
        notRun : Nat, outputReady : BOOLEAN, dispatchFailed : BOOLEAN]

NoExec == [canvas |-> NoCanvas]
Exec == [canvas : Canvas, company : Company, retries : 0 .. MaxRetries]

RowsIn(S) == {c \in Company : row[c] \in S}
NumberIn(s) == Cardinality(RowsIn({s}))

Plan(k, cs, origin) ==
    canvas' = [canvas EXCEPT ![k] = [phase |-> "planned", members |-> cs, origin |-> origin]]

Fault(kind) ==
    /\ kind \in Faults \ faults
    /\ Cardinality(faults) < MaxFaults
    /\ faults' = faults \cup {kind}

-----------------------------------------------------------------------------

Init ==
    /\ run = [status |-> "ABSENT", succeeded |-> 0, failed |-> 0, notRun |-> 0,
              outputReady |-> FALSE, dispatchFailed |-> FALSE]
    /\ row = [c \in Company |-> "ABSENT"]
    /\ detections = {}
    /\ exec = NoExec
    /\ canvas = [k \in Canvas |-> [phase |-> "free", members |-> {}, origin |-> "none"]]
    /\ msgs = {}
    /\ header = [k \in Canvas |-> [c \in Company |-> "none"]]
    /\ body = {}
    /\ faults = {}

CreateRun(k) ==
    /\ run.status = "ABSENT"
    /\ canvas[k].phase = "free"
    /\ run' = [run EXCEPT !.status = "RUNNING"]
    /\ row' = [c \in Company |-> "PENDING"]
    /\ Plan(k, Company, "post")
    /\ UNCHANGED <<detections, exec, msgs, header, body, faults>>

\* The same POST again: pending rows are dispatched once more, and a run that
\* failed at its dispatch is running again.  It waits for the version set.
Resubmit(k) ==
    /\ run.status # "ABSENT"
    /\ canvas[k].phase = "free"
    /\ exec = NoExec
    /\ RowsIn({"PENDING"}) # {}
    /\ run' = IF run.dispatchFailed
              THEN [run EXCEPT !.status = "RUNNING", !.failed = 0, !.outputReady = FALSE,
                               !.dispatchFailed = FALSE]
              ELSE run
    /\ Plan(k, RowsIn({"PENDING"}), "post")
    /\ UNCHANGED <<row, detections, exec, msgs, header, body, faults>>

\* apply_async: all of a canvas is sent, or the broker refuses a task and the
\* caller gets an exception, with some of the tasks sent before.
Send(k, sent, phase) ==
    /\ canvas[k].phase = "planned"
    /\ canvas' = [canvas EXCEPT ![k].phase = phase]
    /\ msgs' = msgs \cup {<<k, c, 0>> : c \in sent}
    /\ UNCHANGED <<run, row, detections, exec, header, body>>

Dispatch(k) == Send(k, canvas[k].members, "sent") /\ UNCHANGED faults

DispatchRefused(k) ==
    /\ Fault("refusal")
    /\ \E sent \in (SUBSET canvas[k].members) \ {canvas[k].members} :
          Send(k, sent, IF canvas[k].origin = "post" THEN "refused" ELSE "lost")

\* The request that was refused says so in the run, whatever became of the
\* run in the meantime.  It waits for an attempt that shares the run.
MarkDispatchFailed(k) ==
    /\ canvas[k].phase = "refused"
    /\ exec = NoExec
    /\ run' = [run EXCEPT !.status = "FAILED", !.failed = Cardinality(Company),
                          !.outputReady = FALSE, !.dispatchFailed = TRUE]
    /\ canvas' = [canvas EXCEPT ![k].phase = "lost"]
    /\ UNCHANGED <<row, detections, exec, msgs, header, body, faults>>

-----------------------------------------------------------------------------
(* The company task.                                                       *)

\* How a delivery of m ends once its transaction is over: acknowledged after
\* next is sent and result reported; handed out twice; or the worker is lost
\* and m is delivered again.
Complete(m, next, result) ==
    \/ /\ \/ /\ msgs' = (msgs \ {m}) \cup next
             /\ UNCHANGED faults
          \/ /\ msgs' = msgs \cup next
             /\ Fault("duplicate")
       /\ header' = [header EXCEPT ![m[1]][m[2]] = IF @ = "none" THEN result ELSE @]
    \/ /\ Fault("crash")
       /\ UNCHANGED <<msgs, header>>

\* Mutant: only a success is final.
MutRunnable(c) == row[c] # "SUCCEEDED"

Runnable(c) == row[c] \in {"PENDING", "FAILED"}

ReturnCurrent(k, c, r) ==
    /\ <<k, c, r>> \in msgs
    /\ exec = NoExec
    /\ ~Runnable(c)
    /\ Complete(<<k, c, r>>, {}, "outcome")
    /\ UNCHANGED <<run, row, detections, exec, canvas, body>>

BeginAttempt(k, c, r) ==
    /\ <<k, c, r>> \in msgs
    /\ exec = NoExec
    /\ Runnable(c)
    /\ exec' = [canvas |-> k, company |-> c, retries |-> r]
    /\ UNCHANGED <<run, row, detections, canvas, msgs, header, body, faults>>

Executing(k, c, r) == exec = [canvas |-> k, company |-> c, retries |-> r]

\* The router commits the detections in transactions of its own.
Route(k, c, r) ==
    /\ Executing(k, c, r)
    /\ c \notin detections
    /\ detections' = detections \cup {c}
    /\ UNCHANGED <<run, row, exec, canvas, msgs, header, body, faults>>

Commit(c, status) ==
    /\ row' = [row EXCEPT ![c] = status]
    /\ exec' = NoExec
    /\ UNCHANGED <<run, detections, canvas, body>>

FinishSucceeded(k, c, r) ==
    /\ Executing(k, c, r)
    /\ c \in detections
    /\ Commit(c, "SUCCEEDED")
    /\ Complete(<<k, c, r>>, {}, "outcome")

\* The scope of the company cannot be decided: nothing is routed.
FinishNotRun(k, c, r) ==
    /\ Executing(k, c, r)
    /\ c \notin detections
    /\ Commit(c, "NOT_RUN")
    /\ Complete(<<k, c, r>>, {}, "outcome")

\* Mutant: a task is retried without a limit.
MutFinishFailed(k, c, r) ==
    /\ Executing(k, c, r)
    /\ Commit(c, "FAILED")
    /\ Complete(<<k, c, r>>, {<<k, c, r + 1>>}, "none")

\* The exception of an attempt becomes a failed row, and the task is retried
\* while it has retries left.
FinishFailed(k, c, r) ==
    /\ Executing(k, c, r)
    /\ Commit(c, "FAILED")
    /\ IF r < MaxRetries THEN Complete(<<k, c, r>>, {<<k, c, r + 1>>}, "none")
       ELSE Complete(<<k, c, r>>, {}, "outcome")

\* An exception that leaves run_company: rolled back, and no retry.
Raise(k, c, r) ==
    /\ Executing(k, c, r)
    /\ Fault("raise")
    /\ exec' = NoExec
    /\ msgs' = msgs \ {<<k, c, r>>}
    /\ header' = [header EXCEPT ![k][c] = IF @ = "none" THEN "error" ELSE @]
    /\ UNCHANGED <<run, row, detections, canvas, body>>

LoseWorker ==
    /\ exec # NoExec
    /\ Fault("crash")
    /\ exec' = NoExec
    /\ UNCHANGED <<run, row, detections, canvas, msgs, header, body>>
-----------------------------------------------------------------------------
(* The summary task and the manual retry.                                  *)

\* A chord with a failed header task never runs its body.
HeaderComplete(k) ==
    /\ canvas[k].phase \in {"sent", "lost"}
    /\ \A c \in canvas[k].members : header[k][c] = "outcome"

\* Mutant: companies that were not run count as done.
MutRunStatus ==
    IF RowsIn({"PENDING"}) # {} THEN "RUNNING"
    ELSE IF RowsIn({"FAILED"}) = {} THEN "SUCCEEDED"
    ELSE IF RowsIn({"SUCCEEDED"}) # {} THEN "PARTIAL_SUCCESS"
    ELSE "FAILED"
\* Mutant: a failed company counts as active, as it may be retried.
MutRunStatusActive ==
    IF RowsIn({"PENDING", "FAILED"}) # {} THEN "RUNNING"
    ELSE IF RowsIn({"NOT_RUN"}) = {} THEN "SUCCEEDED"
    ELSE IF RowsIn({"SUCCEEDED"}) # {} THEN "PARTIAL_SUCCESS"
    ELSE "FAILED"

RunStatus ==
    IF RowsIn({"PENDING"}) # {} THEN "RUNNING"
    ELSE IF RowsIn({"FAILED", "NOT_RUN"}) = {} THEN "SUCCEEDED"
    ELSE IF RowsIn({"SUCCEEDED"}) # {} THEN "PARTIAL_SUCCESS"
    ELSE "FAILED"

\* Mutant: the first summary of a run is taken for the last.
MutDue(k) == HeaderComplete(k) /\ k \notin body /\ run.status = "RUNNING"

Due(k) == HeaderComplete(k) /\ k \notin body

Summarize(k) ==
    /\ Due(k)
    /\ exec = NoExec
    /\ run' = [status |-> RunStatus, succeeded |-> NumberIn("SUCCEEDED"),
               failed |-> NumberIn("FAILED"), notRun |-> NumberIn("NOT_RUN"),
               outputReady |-> RowsIn({"SUCCEEDED"}) = Company, dispatchFailed |-> FALSE]
    /\ body' = body \cup {k}
    /\ UNCHANGED <<row, detections, exec, canvas, msgs, header, faults>>

\* The worker is lost after the summary and the task delivered again.
RedeliverBody(k) ==
    /\ k \in body
    /\ Fault("crash")
    /\ body' = body \ {k}
    /\ UNCHANGED <<run, row, detections, exec, canvas, msgs, header>>

\* POST /operations/runs/{id}/retry.  The code asks nothing of the run, which
\* may still be running, nor of the number of failed rows.
RetryFailed(k) ==
    /\ run.status # "ABSENT"
    /\ exec = NoExec
    /\ row' = [c \in Company |-> IF row[c] = "FAILED" THEN "PENDING" ELSE row[c]]
    /\ run' = [run EXCEPT !.status = "RUNNING", !.outputReady = FALSE, !.dispatchFailed = FALSE]
    /\ IF RowsIn({"FAILED"}) = {} THEN EmptyRetries /\ UNCHANGED canvas
       ELSE canvas[k].phase = "free" /\ Plan(k, RowsIn({"FAILED"}), "retry")
    /\ UNCHANGED <<detections, exec, msgs, header, body, faults>>

-----------------------------------------------------------------------------

Deliver(k, c, r) ==
    \/ ReturnCurrent(k, c, r) \/ BeginAttempt(k, c, r) \/ Route(k, c, r)
    \/ FinishSucceeded(k, c, r) \/ FinishNotRun(k, c, r) \/ FinishFailed(k, c, r)
    \/ Raise(k, c, r)

Next ==
    \/ \E k \in Canvas :
          \/ CreateRun(k) \/ Resubmit(k) \/ Dispatch(k) \/ DispatchRefused(k)
          \/ MarkDispatchFailed(k) \/ Summarize(k) \/ RedeliverBody(k) \/ RetryFailed(k)
          \/ \E c \in Company, r \in 0 .. MaxRetries : Deliver(k, c, r)
    \/ LoseWorker

Spec == Init /\ [][Next]_vars

\* A committed plan is dispatched, the workers keep taking tasks from the
\* queue, in any order, and a complete chord runs its body.
Fairness ==
    /\ \A k \in Canvas : WF_vars(Dispatch(k)) /\ WF_vars(Summarize(k))
    /\ WF_vars(\E k \in Canvas, c \in Company, r \in 0 .. MaxRetries : Deliver(k, c, r))

FairSpec == Spec /\ Fairness

-----------------------------------------------------------------------------
(* What a run guarantees.                                                  *)

TypeOK ==
    /\ run \in Run
    /\ row \in [Company -> RowStatus]
    /\ detections \in SUBSET Company
    /\ exec \in Exec \cup {NoExec}
    /\ canvas \in [Canvas -> [phase : {"free", "planned", "sent", "refused", "lost"},
                              members : SUBSET Company, origin : {"none", "post", "retry"}]]
    /\ msgs \in SUBSET (Canvas \X Company \X (0 .. MaxRetries))
    /\ header \in [Canvas -> [Company -> {"none", "outcome", "error"}]]
    /\ body \in SUBSET Canvas
    /\ faults \subseteq FaultKinds

\* "committed successes are kept": whatever is retried, resubmitted, lost or
\* delivered twice, a company that succeeded or was found not to be run keeps
\* its result.
ResultsKept == \A c \in Company : row[c] \in {"SUCCEEDED", "NOT_RUN"} => row'[c] = row[c]
ResultsFinal == [][ResultsKept]_vars

\* A run announced as succeeded or as ready covers every company, with its
\* detections committed, and no late attempt or stale summary takes that back.
SuccessIsComplete ==
    run.status = "SUCCEEDED" \/ run.outputReady =>
        \A c \in Company : row[c] = "SUCCEEDED" /\ c \in detections

\* The state is well formed and an announced success is a real one.
RunSound == TypeOK /\ SuccessIsComplete

SummaryExact ==
    /\ run.status = RunStatus
    /\ run.succeeded = NumberIn("SUCCEEDED")
    /\ run.failed = NumberIn("FAILED")
    /\ run.notRun = NumberIn("NOT_RUN")

\* A task of another canvas may run a failed row after the run was summarised.
\* The summary catches up, because that canvas has a summary of its own to
\* come; not so after a message handed out twice or a chord that was broken.
SummaryCatchesUp ==
    run.status \in Terminal /\ ~SummaryExact ~> SummaryExact \/ faults \ {"crash"} # {}

\* A running run comes to one of its terminal statuses, whatever is lost or
\* handed out twice, unless an exception or the broker broke a chord.
RunEnds ==
    run.status = "RUNNING" ~> run.status \in Terminal \/ faults \cap {"raise", "refusal"} # {}
=============================================================================
