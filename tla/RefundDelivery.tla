--------------------------- MODULE RefundDelivery ---------------------------
(***************************************************************************)
(* Delivery of refund writebacks: the outbox rows that scans commit, the   *)
(* dispatchers that list them (celery beat and every scan request), the    *)
(* delivery tasks and the remote ledger they write to.                     *)
(*                                                                         *)
(* A task claims its row in one transaction, writes to the ledger with no  *)
(* lock held, and finishes the row in another transaction.  attempts is    *)
(* the fencing token: only the last claim may finish the row.              *)
(***************************************************************************)
EXTENDS Naturals, FiniteSets

CONSTANTS
    Writeback,    \* outbox rows
    Task,         \* deliveries that may be under way at a time (a bound)
    NoWriteback,  \* of a free task
    MaxRetries,   \* lark_refund_max_retries
    Faults,       \* faults of the environment, each at most once (a bound)
    MaxFaults     \* number of them in one behaviour (a bound)

\* A lost worker, a failed transaction, a lost answer of the ledger, a ledger
\* that refuses a row (no unique record), a worker without credentials.
FaultKinds == {"crash", "database", "response", "refusal", "unconfigured"}

ASSUME WritebackAssumption == NoWriteback \notin Writeback
ASSUME RetryAssumption == MaxRetries \in Nat
ASSUME FaultAssumption == Faults \subseteq FaultKinds /\ MaxFaults \in Nat

VARIABLES
    row,     \* income_tax_refund_writeback
    listed,  \* rows a dispatcher has listed and not sent yet
    task,    \* the delivery tasks
    ledger,  \* rows whose status stands in the remote ledger
    up,      \* is the ledger reachable
    outages, \* outages of the ledger so far
    faults   \* faults that have happened

vars == <<row, listed, task, ledger, up, outages, faults>>

-----------------------------------------------------------------------------

Row == [status : {"ABSENT", "PENDING", "PROCESSING", "SUCCEEDED", "FAILED"}, attempts : Nat]

Free == [row |-> NoWriteback, phase |-> "free", retries |-> 0, claim |-> 0, answer |-> "none"]
Queued(w, r) == [row |-> w, phase |-> "queued", retries |-> r, claim |-> 0, answer |-> "none"]

TaskState ==
    [row : Writeback \cup {NoWriteback}, phase : {"free", "queued", "writing", "answered"},
     retries : 0 .. MaxRetries, claim : Nat, answer : {"none", "ok", "retryable", "permanent"}]

Dispatchable ==
    {w \in Writeback : row[w].status \in {"PENDING", "FAILED"} /\ row[w].attempts <= MaxRetries}

\* Mutant: a succeeded row may be claimed again.
MutClaimable(w) == row[w].status # "ABSENT" /\ row[w].attempts <= MaxRetries
\* Mutant: a row under delivery is left to whoever claimed it.
MutClaimableIdle(w) == w \in Dispatchable

\* A row left PROCESSING is claimable beyond the retry limit.
Claimable(w) == w \in Dispatchable \/ row[w].status = "PROCESSING"

Fault(kind) ==
    /\ kind \in Faults \ faults
    /\ Cardinality(faults) < MaxFaults
    /\ faults' = faults \cup {kind}

-----------------------------------------------------------------------------

Init ==
    /\ row = [w \in Writeback |-> [status |-> "ABSENT", attempts |-> 0]]
    /\ listed = {}
    /\ task = [t \in Task |-> Free]
    /\ ledger = {}
    /\ up = TRUE
    /\ outages = 0
    /\ faults = {}

\* The scan that finds the refund commits the row.
Enqueue(w) ==
    /\ row[w].status = "ABSENT"
    /\ row' = [row EXCEPT ![w].status = "PENDING"]
    /\ UNCHANGED <<listed, task, ledger, up, outages, faults>>

\* The listing takes no lock: by the time a task is sent, its row may have
\* moved on, and other dispatchers may have listed it as well.
List ==
    /\ listed = {}
    /\ Dispatchable # {}
    /\ listed' = Dispatchable
    /\ UNCHANGED <<row, task, ledger, up, outages, faults>>

Send(w, t) ==
    /\ w \in listed
    /\ task[t] = Free
    /\ listed' = listed \ {w}
    /\ task' = [task EXCEPT ![t] = Queued(w, 0)]
    /\ UNCHANGED <<row, ledger, up, outages, faults>>

-----------------------------------------------------------------------------
(* The delivery task.                                                      *)

Claim(t) ==
    LET w == task[t].row
    IN  /\ task[t].phase = "queued"
        /\ Claimable(w)
        /\ row' = [row EXCEPT ![w] = [status |-> "PROCESSING", attempts |-> @.attempts + 1]]
        /\ task' = [task EXCEPT ![t].phase = "writing", ![t].claim = row[w].attempts + 1]
        /\ UNCHANGED <<listed, ledger, up, outages, faults>>

\* Mutant: the finish does not look at the attempt.
MutOwned(t) == row[task[t].row].status = "PROCESSING"

\* The claim of t still stands: nobody claimed its row after this task.
Owned(t) ==
    /\ row[task[t].row].status = "PROCESSING"
    /\ row[task[t].row].attempts = task[t].claim

\* skip_locked: another task has just claimed the row or is about to finish
\* it.  A finish whose claim no longer stands finds no row to lock.
LockedByOther(t) ==
    \E u \in Task \ {t} :
        task[u].row = task[t].row /\ task[u].phase \in {"writing", "answered"} /\ Owned(u)

\* skip_locked, or nothing to do: the task reports the row as it is.
LeaveUnclaimed(t) ==
    /\ task[t].phase = "queued"
    /\ ~Claimable(task[t].row) \/ LockedByOther(t)
    /\ task' = [task EXCEPT ![t] = Free]
    /\ UNCHANGED <<row, listed, ledger, up, outages, faults>>

\* What a delivery may be told.  All errors of the ledger are retryable; only
\* a worker that is not configured for the ledger gives up at once.
Answers ==
    {IF up THEN "ok" ELSE "retryable"}
        \cup (IF "refusal" \in Faults THEN {"retryable"} ELSE {})
        \cup (IF "unconfigured" \in Faults THEN {"permanent"} ELSE {})

Answer(t, answer) == task' = [task EXCEPT ![t].phase = "answered", ![t].answer = answer]

Write(t) ==
    /\ task[t].phase = "writing"
    /\ \/ \E answer \in Answers :
             /\ Answer(t, answer)
             /\ ledger' = IF answer = "ok" THEN ledger \cup {task[t].row} ELSE ledger
             /\ UNCHANGED faults
       \/ /\ up
          /\ Fault("response")
          /\ ledger' = ledger \cup {task[t].row}
          /\ Answer(t, "retryable")
    /\ UNCHANGED <<row, listed, up, outages>>

\* Mutant: the task is retried without a limit.
MutRequeue(t) == Queued(task[t].row, task[t].retries + 1)

\* task.retry while the task has retries left, else it ends.
Requeue(t) ==
    IF task[t].retries < MaxRetries THEN Queued(task[t].row, task[t].retries + 1) ELSE Free

\* Mutant: a write that may have worked counts as done.
MutOutcome(t) == IF task[t].answer = "permanent" THEN "FAILED" ELSE "SUCCEEDED"

Outcome(t) == IF task[t].answer = "ok" THEN "SUCCEEDED" ELSE "FAILED"

Finish(t) ==
    /\ task[t].phase = "answered"
    /\ row' = IF Owned(t) THEN [row EXCEPT ![task[t].row].status = Outcome(t)] ELSE row
    /\ task' = [task EXCEPT ![t] =
                   IF Owned(t) /\ task[t].answer = "retryable" /\ task[t].claim <= MaxRetries
                   THEN Requeue(t) ELSE Free]
    /\ UNCHANGED <<listed, ledger, up, outages, faults>>

\* Mutant: a message is acknowledged when it is received.
MutRedelivered(t) == Free

\* acks_late: the message of a lost worker is delivered again.
Redelivered(t) == Queued(task[t].row, task[t].retries)

LoseWorker(t) ==
    /\ task[t].phase \in {"writing", "answered"}
    /\ Fault("crash")
    /\ task' = [task EXCEPT ![t] = Redelivered(t)]
    /\ UNCHANGED <<row, listed, ledger, up, outages>>

\* The claim or the finish raises: rolled back, and the task is retried.
LoseDatabase(t) ==
    /\ task[t].phase \in {"queued", "answered"}
    /\ Fault("database")
    /\ task' = [task EXCEPT ![t] = Requeue(t)]
    /\ UNCHANGED <<row, listed, ledger, up, outages>>

\* One outage of the remote ledger, of any length.
LedgerDown ==
    /\ up /\ outages = 0
    /\ up' = FALSE /\ outages' = 1
    /\ UNCHANGED <<row, listed, task, ledger, faults>>

LedgerUp ==
    /\ ~up
    /\ up' = TRUE
    /\ UNCHANGED <<row, listed, task, ledger, outages, faults>>

-----------------------------------------------------------------------------

Deliver(t) == Claim(t) \/ LeaveUnclaimed(t) \/ Write(t) \/ Finish(t)

Next ==
    \/ \E w \in Writeback : Enqueue(w) \/ \E t \in Task : Send(w, t)
    \/ List
    \/ \E t \in Task : Deliver(t) \/ LoseWorker(t) \/ LoseDatabase(t)
    \/ LedgerDown \/ LedgerUp

Spec == Init /\ [][Next]_vars

\* Beat lists and sends again and again, workers run what is queued, and an
\* outage ends.
Fairness ==
    /\ WF_vars(List)
    /\ \A w \in Writeback : WF_vars(\E t \in Task : Send(w, t))
    /\ \A t \in Task : WF_vars(Deliver(t))
    /\ WF_vars(LedgerUp)

FairSpec == Spec /\ Fairness

-----------------------------------------------------------------------------
(* What the delivery guarantees.                                           *)

TypeOK ==
    /\ row \in [Writeback -> Row]
    /\ listed \subseteq Writeback
    /\ task \in [Task -> TaskState]
    /\ ledger \subseteq Writeback
    /\ up \in BOOLEAN
    /\ outages \in Nat
    /\ faults \subseteq FaultKinds

\* A row reported as written back is: no stale claim, crash or retry marks a
\* row succeeded that the ledger does not show.
SuccessIsReal == \A w \in Writeback : row[w].status = "SUCCEEDED" => w \in ledger

\* At most one delivery of a row may still finish it.
Owner(t) == task[t].phase \in {"writing", "answered"} /\ Owned(t)
OneOwner == \A t, u \in Task : Owner(t) /\ Owner(u) /\ task[t].row = task[u].row => t = u

\* A delivered row is never touched again, whatever duplicates are under way.
SuccessIsFinal ==
    [][\A w \in Writeback : row[w].status = "SUCCEEDED" => row'[w] = row[w]]_vars

\* Every row ends delivered, or failed with its attempts used up: a lost
\* worker or answer, a refusal or an outage leaves no row in between.
Ends == \A w \in Writeback :
    row[w].status # "ABSENT" ~> \/ row[w].status = "SUCCEEDED"
                                \/ row[w].status = "FAILED" /\ row[w].attempts > MaxRetries
                                \/ "database" \in faults
=============================================================================
