------------------------ MODULE RefundDeliveryProofs ------------------------
(***************************************************************************)
(* Proofs about RefundDelivery, for any rows, any number of concurrent     *)
(* deliveries, any retry limit and any of the faults it knows, and about   *)
(* ValidationReport, for any companies, judgments and scripts.             *)
(***************************************************************************)
EXTENDS RefundDelivery, ValidationReport, TLAPS

-----------------------------------------------------------------------------
(* Facts about the operators.                                              *)

\* Rows and tasks of every form the actions assign.
LEMMA RecordTypes ==
    /\ Free \in TaskState
    /\ \A w \in Writeback, r \in 0 .. MaxRetries : Queued(w, r) \in TaskState
    /\ \A n \in Nat : [status |-> "PROCESSING", attempts |-> n + 1] \in Row
BY RetryAssumption DEF Free, Queued, TaskState, Row

\* A task that is not free has a row.
HasRow == \A t \in Task : task[t].phase # "free" => task[t].row \in Writeback

\* A task of TaskState keeps its row and retries when it claims or answers.
LEMMA TaskSteps ==
    ASSUME TypeOK, HasRow, NEW t \in Task, task[t].phase # "free"
    PROVE  /\ \A n \in Nat :
                 [task EXCEPT ![t].phase = "writing", ![t].claim = n] \in [Task -> TaskState]
           /\ \A a \in {"ok", "retryable", "permanent"} :
                 [task EXCEPT ![t].phase = "answered", ![t].answer = a] \in [Task -> TaskState]
           /\ Requeue(t) \in TaskState
           /\ Redelivered(t) \in TaskState
<1>1. task \in [Task -> TaskState] /\ task[t].row \in Writeback
    BY DEF TypeOK, HasRow
<1>2. task[t] \in TaskState
    BY <1>1
<1>3. ASSUME NEW n \in Nat
      PROVE  [task EXCEPT ![t].phase = "writing", ![t].claim = n] \in [Task -> TaskState]
  <2> DEFINE one == [task[t] EXCEPT !.phase = "writing"]
             two == [one EXCEPT !.claim = n]
  <2>1. one \in TaskState
    BY <1>2 DEF TaskState
  <2>2. two \in TaskState
    BY <2>1 DEF TaskState
  <2>3. [task EXCEPT ![t].phase = "writing", ![t].claim = n] = [task EXCEPT ![t] = two]
    BY <1>1
  <2> QED
    BY <1>1, <2>2, <2>3
<1>4. ASSUME NEW a \in {"ok", "retryable", "permanent"}
      PROVE  [task EXCEPT ![t].phase = "answered", ![t].answer = a] \in [Task -> TaskState]
  <2> DEFINE one == [task[t] EXCEPT !.phase = "answered"]
             two == [one EXCEPT !.answer = a]
  <2>1. one \in TaskState
    BY <1>2 DEF TaskState
  <2>2. two \in TaskState
    BY <2>1 DEF TaskState
  <2>3. [task EXCEPT ![t].phase = "answered", ![t].answer = a] = [task EXCEPT ![t] = two]
    BY <1>1
  <2> QED
    BY <1>1, <2>2, <2>3
<1>5. task[t].retries \in 0 .. MaxRetries
    BY <1>2 DEF TaskState
<1>6. Requeue(t) \in TaskState
  <2>1. CASE task[t].retries < MaxRetries
    <3>1. task[t].retries + 1 \in 0 .. MaxRetries
        BY <1>5, <2>1, RetryAssumption
    <3> QED
        BY <1>1, <2>1, <3>1, RecordTypes DEF Requeue
  <2>2. CASE ~(task[t].retries < MaxRetries)
    BY <2>2, RecordTypes DEF Requeue
  <2> QED
    BY <2>1, <2>2
<1>7. Redelivered(t) \in TaskState
    BY <1>1, <1>5, RecordTypes DEF Redelivered
<1> QED
    BY <1>3, <1>4, <1>6, <1>7

-----------------------------------------------------------------------------
(* The inductive invariant.  attempts only grows and a claim is the value  *)
(* it had just after the claim, so no two deliveries of a row hold the     *)
(* same claim: that is what makes it a fencing token.                      *)

Delivering(t) == task[t].phase \in {"writing", "answered"}

ClaimsAreCounted == \A t \in Task : Delivering(t) => task[t].claim <= row[task[t].row].attempts

ClaimsDiffer ==
    \A t, u \in Task :
        /\ Delivering(t) /\ Delivering(u)
        /\ task[t].row = task[u].row
        /\ task[t].claim = task[u].claim
        => t = u

\* An answer of the ledger is true when it says the row was written.
OkIsReal ==
    \A t \in Task : task[t].phase = "answered" /\ task[t].answer = "ok" => task[t].row \in ledger

IInv == TypeOK /\ HasRow /\ ClaimsAreCounted /\ ClaimsDiffer /\ OkIsReal /\ SuccessIsReal

LEMMA InitInv == Init => IInv
<1> SUFFICES ASSUME Init PROVE IInv
    OBVIOUS
<1>1. \A t \in Task : task[t].phase = "free"
    BY DEF Init, Free
<1>2. TypeOK
    BY RecordTypes DEF Init, TypeOK, Row
<1>3. SuccessIsReal
    BY DEF Init, SuccessIsReal
<1> QED
    BY <1>1, <1>2, <1>3
    DEF IInv, HasRow, ClaimsAreCounted, ClaimsDiffer, OkIsReal, Delivering

\* A step that leaves rows and ledger alone and puts one task out of delivery.
LEMMA TaskLeaves ==
    ASSUME IInv, NEW t \in Task, NEW s \in TaskState,
           s.phase = "free" \/ (s.phase = "queued" /\ s.row \in Writeback),
           task' = [task EXCEPT ![t] = s],
           row' \in [Writeback -> Row],
           \A w \in Writeback : row'[w].attempts = row[w].attempts,
           ledger' = ledger
    PROVE  /\ task' \in [Task -> TaskState]
           /\ HasRow' /\ ClaimsAreCounted' /\ ClaimsDiffer' /\ OkIsReal'
<1>1. task' \in [Task -> TaskState]
    BY DEF IInv, TypeOK
<1>2. task'[t] = s /\ \A u \in Task \ {t} : task'[u] = task[u]
    BY DEF IInv, TypeOK
<1>3. HasRow'
    BY <1>2 DEF IInv, HasRow
<1>4. \A u \in Task : Delivering(u)' => u # t /\ Delivering(u) /\ task[u].row \in Writeback
    BY <1>2 DEF Delivering, IInv, HasRow
<1>5. ClaimsAreCounted'
    BY <1>2, <1>4 DEF ClaimsAreCounted, IInv
<1>6. ClaimsDiffer'
    BY <1>2, <1>4 DEF ClaimsDiffer, IInv
<1>7. OkIsReal'
    BY <1>2 DEF OkIsReal, IInv
<1> QED
    BY <1>1, <1>3, <1>5, <1>6, <1>7

LEMMA NextInv == IInv /\ [Next]_vars => IInv'
<1> SUFFICES ASSUME IInv, [Next]_vars PROVE IInv'
    OBVIOUS
<1> USE DEF IInv
<1>1. ASSUME NEW w \in Writeback, Enqueue(w) PROVE IInv'
  <2>1. /\ row' \in [Writeback -> Row]
        /\ \A v \in Writeback : row'[v].attempts = row[v].attempts
        /\ \A v \in Writeback : row'[v].status = "SUCCEEDED" => row[v].status = "SUCCEEDED"
    BY <1>1 DEF Enqueue, TypeOK, Row
  <2>2. TypeOK'
    BY <1>1, <2>1 DEF Enqueue, TypeOK
  <2>3. HasRow' /\ ClaimsDiffer' /\ OkIsReal'
    BY <1>1 DEF Enqueue, HasRow, ClaimsDiffer, OkIsReal, Delivering
  <2>4. ClaimsAreCounted'
    BY <1>1, <2>1 DEF Enqueue, ClaimsAreCounted, HasRow, Delivering
  <2>5. SuccessIsReal'
    BY <1>1, <2>1 DEF Enqueue, SuccessIsReal
  <2> QED
    BY <2>2, <2>3, <2>4, <2>5
<1>2. ASSUME List PROVE IInv'
    BY <1>2 DEF List, Dispatchable, TypeOK, HasRow, ClaimsAreCounted, ClaimsDiffer, OkIsReal,
               SuccessIsReal, Delivering
<1>3. ASSUME NEW w \in Writeback, NEW t \in Task, Send(w, t) PROVE IInv'
  <2>1. Queued(w, 0) \in TaskState
    BY RecordTypes, RetryAssumption
  <2>2. Queued(w, 0).phase = "queued" /\ Queued(w, 0).row = w
    BY DEF Queued
  <2>3. /\ task' \in [Task -> TaskState]
        /\ HasRow' /\ ClaimsAreCounted' /\ ClaimsDiffer' /\ OkIsReal'
    BY <1>3, <2>1, <2>2, TaskLeaves DEF Send, TypeOK
  <2>4. TypeOK' /\ SuccessIsReal'
    BY <1>3, <2>3 DEF Send, TypeOK, SuccessIsReal
  <2> QED
    BY <2>3, <2>4
<1>4. ASSUME NEW t \in Task, Claim(t) PROVE IInv'
  <2> DEFINE w == task[t].row
             claim == row[w].attempts + 1
  <2>1. task[t].phase = "queued" /\ w \in Writeback
    BY <1>4 DEF Claim, HasRow
  <2>2. row[w] \in Row /\ row[w].attempts \in Nat /\ claim \in Nat
    BY <2>1 DEF TypeOK, Row
  <2>3. [status |-> "PROCESSING", attempts |-> claim] \in Row
    BY <2>2, RecordTypes
  <2>4. row' = [row EXCEPT ![w] = [status |-> "PROCESSING", attempts |-> claim]]
    BY <1>4 DEF Claim
  <2>5. row' \in [Writeback -> Row]
    BY <2>1, <2>3, <2>4 DEF TypeOK
  <2>6. task' = [task EXCEPT ![t].phase = "writing", ![t].claim = claim]
    BY <1>4 DEF Claim
  <2>7. task' \in [Task -> TaskState]
    BY <2>1, <2>2, <2>6, TaskSteps
  <2>8. /\ task'[t].phase = "writing" /\ task'[t].claim = claim /\ task'[t].row = w
        /\ \A u \in Task \ {t} : task'[u] = task[u]
    BY <2>6 DEF TypeOK, TaskState
  <2>9. /\ row'[w].attempts = claim /\ row'[w].status = "PROCESSING"
        /\ \A v \in Writeback \ {w} : row'[v] = row[v]
    BY <2>1, <2>4 DEF TypeOK
  <2> HIDE DEF w, claim
  <2>10. TypeOK'
    BY <1>4, <2>5, <2>7 DEF Claim, TypeOK
  <2>11. HasRow'
    BY <2>1, <2>8 DEF HasRow
  <2>12. \A u \in Task \ {t} : Delivering(u)' =>
              /\ Delivering(u) /\ task[u].row \in Writeback
              /\ task[u].claim \in Nat /\ row[task[u].row].attempts \in Nat
              /\ task[u].claim <= row[task[u].row].attempts
    BY <2>8 DEF Delivering, HasRow, ClaimsAreCounted, TypeOK, TaskState, Row
  <2>13. ClaimsAreCounted'
    <3>1. ASSUME NEW u \in Task, Delivering(u)' PROVE task'[u].claim <= row'[task'[u].row].attempts
      <4>1. CASE u = t
        BY <2>2, <2>8, <2>9, <4>1
      <4>2. CASE u # t /\ task[u].row = w
        BY <2>2, <2>8, <2>9, <2>12, <3>1, <4>2 DEF claim
      <4>3. CASE u # t /\ task[u].row # w
        BY <2>8, <2>9, <2>12, <3>1, <4>3
      <4> QED
        BY <4>1, <4>2, <4>3
    <3> QED
        BY <3>1 DEF ClaimsAreCounted, Delivering
  <2>14. ClaimsDiffer'
    <3>1. \A u \in Task \ {t} : Delivering(u)' /\ task'[u].row = w => task'[u].claim # claim
        BY <2>2, <2>8, <2>12 DEF claim
    <3> QED
        BY <2>8, <2>12, <3>1 DEF ClaimsDiffer, Delivering
  <2>15. OkIsReal'
    <3>1. ledger' = ledger
        BY <1>4 DEF Claim
    <3>2. \A u \in Task : task'[u].phase = "answered" => task'[u] = task[u]
        BY <2>8
    <3> QED
        BY <3>1, <3>2 DEF OkIsReal
  <2>16. SuccessIsReal'
    BY <1>4, <2>9 DEF Claim, SuccessIsReal
  <2> QED
    BY <2>10, <2>11, <2>13, <2>14, <2>15, <2>16
<1>5. ASSUME NEW t \in Task, LeaveUnclaimed(t) PROVE IInv'
  <2>1. Free \in TaskState /\ Free.phase = "free"
    BY RecordTypes DEF Free
  <2>2. /\ task' \in [Task -> TaskState]
        /\ HasRow' /\ ClaimsAreCounted' /\ ClaimsDiffer' /\ OkIsReal'
    <3>1. /\ task' = [task EXCEPT ![t] = Free]
          /\ row' = row /\ ledger' = ledger
        BY <1>5 DEF LeaveUnclaimed
    <3> QED
        BY <2>1, <3>1, TaskLeaves DEF TypeOK
  <2>3. TypeOK' /\ SuccessIsReal'
    BY <1>5, <2>2 DEF LeaveUnclaimed, TypeOK, SuccessIsReal
  <2> QED
    BY <2>2, <2>3
<1>6. ASSUME NEW t \in Task, Write(t) PROVE IInv'
  <2>1. task[t].phase = "writing" /\ task[t].row \in Writeback
    BY <1>6 DEF Write, HasRow
  <2>2. PICK answer \in {"ok", "retryable", "permanent"} :
            /\ Answer(t, answer)
            /\ answer = "ok" => task[t].row \in ledger'
    BY <1>6 DEF Write, Answers
  <2>3. ledger' \subseteq Writeback /\ ledger \subseteq ledger' /\ faults' \subseteq FaultKinds
    BY <1>6, <2>1, FaultAssumption DEF Write, Fault, TypeOK
  <2>4. task' = [task EXCEPT ![t].phase = "answered", ![t].answer = answer]
    BY <2>2 DEF Answer
  <2>5. task' \in [Task -> TaskState]
    BY <2>1, <2>4, TaskSteps
  <2>6. /\ task'[t].phase = "answered" /\ task'[t].answer = answer
        /\ task'[t].row = task[t].row /\ task'[t].claim = task[t].claim
        /\ \A u \in Task \ {t} : task'[u] = task[u]
    BY <2>4 DEF TypeOK, TaskState
  <2>7. row' = row
    BY <1>6 DEF Write
  <2>8. TypeOK'
    BY <1>6, <2>3, <2>5, <2>7 DEF Write, TypeOK
  <2>9. \A u \in Task : /\ task'[u].row = task[u].row /\ task'[u].claim = task[u].claim
                        /\ Delivering(u)' <=> Delivering(u)
    BY <2>1, <2>6 DEF Delivering
  <2>10. HasRow'
    BY <2>1, <2>6 DEF HasRow
  <2>11. ClaimsAreCounted' /\ ClaimsDiffer'
    BY <2>7, <2>9 DEF ClaimsAreCounted, ClaimsDiffer
  <2>12. OkIsReal'
    BY <2>2, <2>3, <2>6 DEF OkIsReal
  <2>13. SuccessIsReal'
    BY <2>3, <2>7 DEF SuccessIsReal
  <2> QED
    BY <2>8, <2>10, <2>11, <2>12, <2>13
<1>7. ASSUME NEW t \in Task, Finish(t) PROVE IInv'
  <2> DEFINE w == task[t].row
  <2>1. task[t].phase = "answered" /\ w \in Writeback
    BY <1>7 DEF Finish, HasRow
  <2>2. Outcome(t) \in {"SUCCEEDED", "FAILED"} /\ (Outcome(t) = "SUCCEEDED" => w \in ledger)
    BY <2>1 DEF Outcome, OkIsReal
  <2>3. row' = IF Owned(t) THEN [row EXCEPT ![w].status = Outcome(t)] ELSE row
    BY <1>7 DEF Finish
  <2>4. /\ row' \in [Writeback -> Row]
        /\ \A v \in Writeback : row'[v].attempts = row[v].attempts
        /\ \A v \in Writeback : row'[v].status = "SUCCEEDED" => v \in ledger
    BY <2>1, <2>2, <2>3 DEF TypeOK, Row, SuccessIsReal
  <2>5. PICK s \in {Requeue(t), Free} : task' = [task EXCEPT ![t] = s]
    BY <1>7 DEF Finish
  <2>6. s \in TaskState
    BY <2>1, RecordTypes, TaskSteps
  <2>7. s.phase = "free" \/ (s.phase = "queued" /\ s.row \in Writeback)
    BY <2>1 DEF Requeue, Queued, Free
  <2>8. ledger' = ledger
    BY <1>7 DEF Finish
  <2> HIDE DEF w
  <2>9. /\ task' \in [Task -> TaskState]
        /\ HasRow' /\ ClaimsAreCounted' /\ ClaimsDiffer' /\ OkIsReal'
    BY <2>4, <2>5, <2>6, <2>7, <2>8, TaskLeaves
  <2>10. TypeOK' /\ SuccessIsReal'
    BY <1>7, <2>4, <2>9 DEF Finish, TypeOK, SuccessIsReal
  <2> QED
    BY <2>9, <2>10
<1>8. ASSUME NEW t \in Task, LoseWorker(t) PROVE IInv'
  <2>1. task[t].phase # "free" /\ task[t].row \in Writeback
    BY <1>8 DEF LoseWorker, HasRow
  <2>2. Redelivered(t) \in TaskState
    BY <2>1, TaskSteps
  <2>3. Redelivered(t).phase = "queued" /\ Redelivered(t).row \in Writeback
    BY <2>1 DEF Redelivered, Queued
  <2>4. /\ task' \in [Task -> TaskState]
        /\ HasRow' /\ ClaimsAreCounted' /\ ClaimsDiffer' /\ OkIsReal'
    BY <1>8, <2>2, <2>3, TaskLeaves DEF LoseWorker, TypeOK
  <2>5. TypeOK' /\ SuccessIsReal'
    BY <1>8, <2>4, FaultAssumption DEF LoseWorker, Fault, TypeOK, SuccessIsReal
  <2> QED
    BY <2>4, <2>5
<1>9. ASSUME NEW t \in Task, LoseDatabase(t) PROVE IInv'
  <2>1. task[t].phase # "free" /\ task[t].row \in Writeback
    BY <1>9 DEF LoseDatabase, HasRow
  <2>2. Requeue(t) \in TaskState
    BY <2>1, TaskSteps
  <2>3. Requeue(t).phase = "free" \/ (Requeue(t).phase = "queued" /\ Requeue(t).row \in Writeback)
    BY <2>1 DEF Requeue, Queued, Free
  <2>4. /\ task' \in [Task -> TaskState]
        /\ HasRow' /\ ClaimsAreCounted' /\ ClaimsDiffer' /\ OkIsReal'
    BY <1>9, <2>2, <2>3, TaskLeaves DEF LoseDatabase, TypeOK
  <2>5. TypeOK' /\ SuccessIsReal'
    BY <1>9, <2>4, FaultAssumption DEF LoseDatabase, Fault, TypeOK, SuccessIsReal
  <2> QED
    BY <2>4, <2>5
<1>10. ASSUME LedgerDown \/ LedgerUp PROVE IInv'
  <2>0. row' = row /\ listed' = listed /\ task' = task /\ ledger' = ledger /\ faults' = faults
    BY <1>10 DEF LedgerDown, LedgerUp
  <2>1. CASE LedgerDown
    <3>1. up' = FALSE /\ outages' = 1
        BY <2>1 DEF LedgerDown
    <3> QED
        BY <2>0, <3>1 DEF TypeOK, HasRow, ClaimsAreCounted, ClaimsDiffer, OkIsReal,
                          SuccessIsReal, Delivering
  <2>2. CASE LedgerUp
    <3>1. up' = TRUE /\ outages' = outages
        BY <2>2 DEF LedgerUp
    <3> QED
        BY <2>0, <3>1 DEF TypeOK, HasRow, ClaimsAreCounted, ClaimsDiffer, OkIsReal,
                          SuccessIsReal, Delivering
  <2> QED
    BY <1>10, <2>1, <2>2
<1>11. CASE UNCHANGED vars
    BY <1>11 DEF vars, TypeOK, HasRow, ClaimsAreCounted, ClaimsDiffer, OkIsReal,
                SuccessIsReal, Delivering
<1> QED
    BY <1>1, <1>2, <1>3, <1>4, <1>5, <1>6, <1>7, <1>8, <1>9, <1>10, <1>11 DEF Next, Deliver

LEMMA Invariance == Spec => []IInv
BY InitInv, NextInv, PTL DEF Spec

-----------------------------------------------------------------------------
(* What follows.                                                           *)

\* Every variable keeps its type: no delivery is retried past the limit.
THEOREM TypeCorrect == Spec => []TypeOK
BY Invariance, PTL DEF IInv

\* A row reported as written back stands in the ledger, whatever workers,
\* transactions and answers are lost: a stale delivery cannot say so.
THEOREM SuccessIsTrue == Spec => []SuccessIsReal
BY Invariance, PTL DEF IInv

\* At most one of the deliveries of a row may still finish it.
THEOREM OwnerIsUnique == Spec => []OneOwner
<1>1. IInv => OneOwner
  <2> SUFFICES ASSUME IInv, NEW t \in Task, NEW u \in Task,
                      Owner(t), Owner(u), task[t].row = task[u].row
               PROVE  t = u
    BY DEF OneOwner
  <2>1. Delivering(t) /\ Delivering(u) /\ task[t].claim = task[u].claim
    BY DEF Owner, Owned, Delivering
  <2> QED
    BY <2>1 DEF IInv, ClaimsDiffer
<1> QED
    BY <1>1, Invariance, PTL

\* A delivered row is never touched again.
THEOREM SuccessStays == Spec => SuccessIsFinal
<1> DEFINE Kept == \A w \in Writeback : row[w].status = "SUCCEEDED" => row'[w] = row[w]
<1>1. ASSUME IInv, [Next]_vars PROVE Kept
  <2> SUFFICES ASSUME NEW w \in Writeback, row[w].status = "SUCCEEDED" PROVE row'[w] = row[w]
    OBVIOUS
  <2>1. row \in [Writeback -> Row]
    BY <1>1 DEF IInv, TypeOK
  <2>2. CASE row' = row
    BY <2>2
  <2>3. ASSUME NEW v \in Writeback, Enqueue(v) PROVE row'[w] = row[w]
    BY <2>1, <2>3 DEF Enqueue
  <2>4. ASSUME NEW t \in Task, Claim(t) PROVE row'[w] = row[w]
    BY <2>1, <2>4 DEF Claim, Claimable, Dispatchable
  <2>5. ASSUME NEW t \in Task, Finish(t) PROVE row'[w] = row[w]
    BY <2>1, <2>5 DEF Finish, Owned
  <2>6. ASSUME NEW t \in Task, LeaveUnclaimed(t) \/ Write(t) \/ LoseWorker(t) \/ LoseDatabase(t)
        PROVE  row' = row
    BY <2>6 DEF LeaveUnclaimed, Write, LoseWorker, LoseDatabase
  <2>7. ASSUME NEW v \in Writeback, NEW t \in Task, Send(v, t) PROVE row' = row
    BY <2>7 DEF Send
  <2>8. ASSUME List \/ LedgerDown \/ LedgerUp \/ UNCHANGED vars PROVE row' = row
    BY <2>8 DEF List, LedgerDown, LedgerUp, vars
  <2> QED
    BY <1>1, <2>2, <2>3, <2>4, <2>5, <2>6, <2>7, <2>8 DEF Next, Deliver
<1> QED
    BY <1>1, Invariance, PTL DEF Spec, SuccessIsFinal

-----------------------------------------------------------------------------
(* The files of the validation scripts.                                    *)

Files == ReportFile \cup {NoReportFile}

RunRecord(s) ==
    \/ s = AtRest
    \/ s.pc \in {"candidates", "write"} /\ s = [pc |-> s.pc, run |-> s.run, rows |-> s.rows]
       /\ [run |-> s.run, rows |-> s.rows] \in ReportFile
    \/ s.pc = "report"
    \/ s.pc = "results"
    \/ s.pc = "evidence" /\ s.results \in ReportFile
       /\ s.report.firms \subseteq DOMAIN s.results.rows
    \/ s.pc = "publish" /\ s.results \in Files /\ s.evidence \in Files
       /\ (s.results # NoReportFile => s.report.firms \subseteq DOMAIN s.results.rows)

WithReport == {"results", "evidence", "publish"}

ReportTyped ==
    /\ baseFirms \in BaseFirms
    /\ candidateFile \in Files /\ resultFile \in Files
    /\ runsBegun \in 0 .. MaxReportRuns
    /\ RunOf(candidateFile) \in 0 .. runsBegun /\ RunOf(resultFile) \in 0 .. runsBegun
    /\ validators = [v \in Validator |-> validators[v]]
    /\ \A v \in Validator : RunRecord(validators[v])
    /\ \A v \in BusyValidators : validators[v].run \in 1 .. runsBegun
    /\ \A v \in Validator : validators[v].pc \in WithReport => validators[v].report.full \in 0 .. runsBegun
    /\ \A v \in Validator :
          /\ validators[v].pc \in {"evidence", "publish"} => RunOf(validators[v].results) \in 0 .. runsBegun
          /\ validators[v].pc = "publish" => RunOf(validators[v].evidence) \in 0 .. runsBegun
    /\ webReport # NoReportFile =>
          /\ webReport.full \in 0 .. runsBegun
          /\ webReport.results \in 0 .. runsBegun /\ webReport.candidates \in 0 .. runsBegun

\* Runs that are under way at once are told apart and have met; a run that began
\* while another is still under way has met it.
RunsMet ==
    /\ disturbed \subseteq 1 .. runsBegun
    /\ \A u, v \in BusyValidators : u # v =>
          /\ validators[u].run # validators[v].run
          /\ validators[u].run \in disturbed /\ validators[v].run \in disturbed
    /\ \A u \in BusyValidators : \A n \in 1 .. runsBegun : n > validators[u].run => n \in disturbed

\* Candidates are followed by the results of their run, or their run has met
\* another or is about to write them.
CandidatesFollowed ==
    /\ \A u \in Validator : validators[u].pc = "write" =>
          RunOf(candidateFile) \in disturbed \cup {validators[u].run}
    /\ \/ RunOf(candidateFile) \in disturbed \cup {0, RunOf(resultFile)}
       \/ \E u \in Validator : validators[u].pc = "write" /\ validators[u].run = RunOf(candidateFile)
    /\ \A v \in Validator : validators[v].pc = "evidence" =>
          resultFile = validators[v].results \/ RunOf(resultFile) \in disturbed
    /\ \A v \in Validator : validators[v].pc = "publish" =>
          RunOf(validators[v].evidence) \in disturbed \cup {0, RunOf(validators[v].results)}
    /\ OneRunShown

\* What a run that met no other has read is still so.
Undisturbed ==
    \A v \in BusyValidators : validators[v].run \notin disturbed =>
        /\ validators[v].pc \in {"evidence", "publish"} => validators[v].results = resultFile
        /\ validators[v].pc \in WithReport /\ Shown => validators[v].report.full >= webReport.full

\* Results of a run that met no other are replaced by newer ones only.
ResultsGrow ==
    /\ \A v \in Validator : validators[v].pc \in {"evidence", "publish"} =>
          \/ RunOf(validators[v].results) \in disturbed
          \/ RunOf(resultFile) >= RunOf(validators[v].results)
    /\ Shown => \/ webReport.results \in disturbed
                \/ RunOf(resultFile) >= webReport.results

\* Each run that keeps files keeps the same rows in all of them: rowsOf.
Keeps(rowsOf, file) == file # NoReportFile => file.rows = rowsOf[file.run]
ShownAs(rowsOf) ==
    \E results, evidence \in Files :
        /\ Keeps(rowsOf, results) /\ Keeps(rowsOf, evidence)
        /\ results # NoReportFile => webReport.firms \subseteq DOMAIN results.rows
        /\ webReport.results = RunOf(results) /\ webReport.candidates = RunOf(evidence)
        /\ webReport.rows = [c \in webReport.firms |-> ShownResult(results, evidence, c)]
RowsAgree(rowsOf) ==
    /\ Keeps(rowsOf, candidateFile) /\ Keeps(rowsOf, resultFile)
    /\ \A v \in Validator :
          /\ validators[v].pc \in {"candidates", "write"} => validators[v].rows = rowsOf[validators[v].run]
          /\ validators[v].pc \in {"evidence", "publish"} => Keeps(rowsOf, validators[v].results)
          /\ validators[v].pc = "publish" => Keeps(rowsOf, validators[v].evidence)
    /\ Shown => ShownAs(rowsOf)

ReportInv ==
    /\ ReportTyped /\ RunsMet /\ CandidatesFollowed /\ Undisturbed /\ ResultsGrow
    /\ \E rowsOf : RowsAgree(rowsOf)
Moves(v, new) ==
    /\ validators' = [u \in Validator |-> validators'[u]]
    /\ validators'[v] = new
    /\ \A u \in Validator : u # v => validators'[u] = validators[u]

LEMMA StepMoves ==
    ASSUME ReportTyped, NEW v \in Validator, NEW new, ValidatorStep(v, new)
    PROVE  Moves(v, new)
<1>1. validators' = [validators EXCEPT ![v] = new] /\ validators = [u \in Validator |-> validators[u]]
    BY DEF ReportTyped, ValidatorStep
<1>2. validators' = [u \in Validator |-> IF u = v THEN new ELSE validators[u]]
    BY <1>1
<1>3. validators'[v] = new /\ \A u \in Validator : u # v => validators'[u] = validators[u]
    BY <1>2
<1>4. validators' = [u \in Validator |-> validators'[u]]
    BY <1>2
<1> QED BY <1>3, <1>4 DEF Moves

LEMMA FilesHaveRuns ==
    ASSUME NEW f \in Files
    PROVE  /\ RunOf(f) \in Nat
           /\ f = NoReportFile <=> RunOf(f) = 0
           /\ f # NoReportFile => f \in ReportFile /\ RunOf(f) = f.run /\ f.run \in 1 .. MaxReportRuns
BY ValidationReportAssumption DEF Files, ReportFile, RunOf

LEMMA ReportStarts == ReportInit => ReportInv
<1> SUFFICES ASSUME ReportInit PROVE ReportInv
    OBVIOUS
<1>1. BusyValidators = {} /\ \A v \in Validator : validators[v] = AtRest
    BY DEF ReportInit, BusyValidators, AtRest
<1>2. ReportTyped
    BY <1>1, ValidationReportAssumption DEF ReportInit, ReportTyped, RunRecord, Files, RunOf, AtRest, WithReport
<1>3. RunsMet /\ Undisturbed /\ CandidatesFollowed /\ ResultsGrow
    BY <1>1 DEF ReportInit, RunsMet, Undisturbed, CandidatesFollowed, ResultsGrow, OneRunShown, Shown, RunOf, AtRest
<1>4. \A rowsOf : RowsAgree(rowsOf)
    BY <1>1 DEF ReportInit, RowsAgree, Keeps, Shown, AtRest
<1> QED BY <1>2, <1>3, <1>4 DEF ReportInv

-----------------------------------------------------------------------------
(* A script begins.                                                        *)

LEMMA BeginKeeps ==
    ASSUME ReportInv, NEW v \in Validator, NEW new, BeginScript(v, new), RunRecord(new),
           new.pc \in {"candidates", "report", "results"}, new.run = runsBegun + 1,
           new.pc = "results" => new.report.full = runsBegun + 1
    PROVE  ReportInv'
<1> DEFINE n == runsBegun + 1
<1>1. /\ validators[v].pc = "idle" /\ runsBegun < MaxReportRuns /\ runsBegun' = n
      /\ Moves(v, new)
      /\ disturbed' = disturbed \cup (IF BusyValidators = {} THEN {}
                                       ELSE {n} \cup {validators[u].run : u \in BusyValidators})
      /\ UNCHANGED <<baseFirms, candidateFile, resultFile, webReport>>
    BY StepMoves DEF BeginScript, ReportInv
<1>2. runsBegun \in Nat /\ n \in 1 .. MaxReportRuns /\ runsBegun \in 0 .. MaxReportRuns
    BY <1>1, ValidationReportAssumption DEF ReportInv, ReportTyped
<1>3. BusyValidators' = BusyValidators \cup {v} /\ v \notin BusyValidators /\ BusyValidators \subseteq Validator
    BY <1>1 DEF BusyValidators, Moves
<1>4. \A u \in BusyValidators : validators'[u] = validators[u] /\ validators[u].run \in 1 .. runsBegun
                                /\ validators[u].run \in disturbed'
    BY <1>1, <1>3 DEF Moves, ReportInv, ReportTyped
<1>5. disturbed \subseteq disturbed' /\ disturbed' \subseteq 1 .. n /\ (BusyValidators # {} => n \in disturbed')
      /\ (BusyValidators = {} => disturbed' = disturbed)
  <2>1. disturbed \subseteq 1 .. n
      BY <1>2 DEF ReportInv, RunsMet
  <2>2. {validators[u].run : u \in BusyValidators} \subseteq 1 .. n
      BY <1>2, <1>4
  <2>3. n \in 1 .. n
      BY <1>2
  <2>4. CASE BusyValidators = {}
      BY <1>1, <2>1, <2>4
  <2>5. CASE BusyValidators # {}
    <3>1. disturbed' = disturbed \cup ({n} \cup {validators[u].run : u \in BusyValidators})
        BY <1>1, <2>5
    <3> QED BY <2>1, <2>2, <2>3, <2>5, <3>1
  <2> QED BY <2>4, <2>5
<1>6. ReportTyped'
  <2>1. \A u \in Validator : RunRecord(validators'[u])
      BY <1>1 DEF Moves, ReportInv, ReportTyped
  <2>2. \A u \in BusyValidators' : validators'[u].run \in 1 .. runsBegun'
      BY <1>1, <1>2, <1>3, <1>4 DEF Moves
  <2>3. \A u \in Validator : validators'[u].pc \in WithReport => validators'[u].report.full \in 0 .. n
      BY <1>1, <1>2 DEF Moves, ReportInv, ReportTyped, WithReport
  <2>4. /\ RunOf(candidateFile') \in 0 .. n /\ RunOf(resultFile') \in 0 .. n
        /\ webReport' # NoReportFile =>
              /\ webReport'.full \in 0 .. n
              /\ webReport'.results \in 0 .. n /\ webReport'.candidates \in 0 .. n
      BY <1>1, <1>2 DEF ReportInv, ReportTyped
  <2>5. \A u \in Validator :
            /\ validators'[u].pc \in {"evidence", "publish"} => RunOf(validators'[u].results) \in 0 .. n
            /\ validators'[u].pc = "publish" => RunOf(validators'[u].evidence) \in 0 .. n
      BY <1>1, <1>2 DEF Moves, ReportInv, ReportTyped
  <2> QED BY <1>1, <1>2, <2>1, <2>2, <2>3, <2>4, <2>5 DEF ReportInv, ReportTyped, Moves
<1>7. RunsMet'
  <2>1. \A u \in BusyValidators' : u # v => u \in BusyValidators
      BY <1>3
  <2>2. validators'[v].run = n
      BY <1>1 DEF Moves
  <2>3. \A u, w \in BusyValidators : u # w => validators[u].run # validators[w].run
      BY DEF ReportInv, RunsMet
  <2>4. \A u, w \in BusyValidators' : u # w =>
            /\ validators'[u].run # validators'[w].run
            /\ validators'[u].run \in disturbed' /\ validators'[w].run \in disturbed'
      BY <1>2, <1>3, <1>4, <1>5, <2>1, <2>2, <2>3
  <2>5. \A u \in BusyValidators' : \A k \in 1 .. runsBegun' : k > validators'[u].run => k \in disturbed'
    <3> SUFFICES ASSUME NEW u \in BusyValidators', NEW k \in 1 .. n, k > validators'[u].run
                 PROVE  k \in disturbed'
        BY <1>1
    <3>1. u # v /\ u \in BusyValidators
        BY <1>2, <2>1, <2>2
    <3>2. k = n \/ k \in 1 .. runsBegun
        BY <1>2
    <3> QED BY <1>4, <1>5, <3>1, <3>2 DEF ReportInv, RunsMet
  <2> QED BY <1>1, <1>5, <2>4, <2>5 DEF RunsMet
<1>8. CandidatesFollowed'
  <2>1. \A u \in Validator : validators'[u].pc \in {"write", "evidence", "publish"} =>
            u # v /\ validators'[u] = validators[u]
      BY <1>1 DEF Moves
  <2>2. \A u \in Validator : validators[u].pc = "write" => u # v /\ validators'[u] = validators[u]
      BY <1>1 DEF Moves
  <2>3. OneRunShown'
      BY <1>1, <1>5 DEF ReportInv, CandidatesFollowed, OneRunShown, Shown
  <2>4. /\ \A u \in Validator : validators'[u].pc = "write" =>
              RunOf(candidateFile) \in disturbed' \cup {validators'[u].run}
        /\ \A u \in Validator : validators'[u].pc = "evidence" =>
              resultFile = validators'[u].results \/ RunOf(resultFile) \in disturbed'
        /\ \A u \in Validator : validators'[u].pc = "publish" =>
              RunOf(validators'[u].evidence) \in disturbed' \cup {0, RunOf(validators'[u].results)}
      BY <1>5, <2>1 DEF ReportInv, CandidatesFollowed
  <2>5. \/ RunOf(candidateFile) \in disturbed' \cup {0, RunOf(resultFile)}
        \/ \E u \in Validator : validators'[u].pc = "write" /\ validators'[u].run = RunOf(candidateFile)
      BY <1>5, <2>2 DEF ReportInv, CandidatesFollowed
  <2> QED BY <1>1, <2>3, <2>4, <2>5 DEF CandidatesFollowed
<1>9. Undisturbed'
  <2> SUFFICES ASSUME NEW u \in BusyValidators', validators'[u].run \notin disturbed'
               PROVE  /\ validators'[u].pc \in {"evidence", "publish"} => validators'[u].results = resultFile'
                      /\ validators'[u].pc \in WithReport /\ Shown' => validators'[u].report.full >= webReport'.full
      BY DEF Undisturbed
  <2>1. u = v
      BY <1>3, <1>4
  <2>2. validators'[u] = new
      BY <1>1, <2>1 DEF Moves
  <2>3. Shown' => webReport'.full \in 0 .. runsBegun
      BY <1>1 DEF ReportInv, ReportTyped, Shown
  <2> QED BY <1>2, <2>2, <2>3 DEF WithReport
<1>10. ResultsGrow'
  <2>1. \A u \in Validator : validators'[u].pc \in {"evidence", "publish"} => validators'[u] = validators[u]
      BY <1>1 DEF Moves
  <2> QED BY <1>1, <1>5, <2>1 DEF ReportInv, ResultsGrow, Shown
<1>11. \E rowsOf : RowsAgree(rowsOf)'
  <2>1. PICK old : RowsAgree(old)
      BY DEF ReportInv
  <2>0. PICK rowsOf : rowsOf = [k \in Nat |-> IF k = n THEN new.rows ELSE old[k]]
      OBVIOUS
  <2>2. \A k \in 0 .. runsBegun : rowsOf[k] = old[k]
      BY <1>2, <2>0
  <2>3. rowsOf[n] = new.rows
      BY <1>2, <2>0
  <2>4. \A f \in Files : RunOf(f) \in 0 .. runsBegun /\ Keeps(old, f) => Keeps(rowsOf, f)
      BY <2>2, FilesHaveRuns DEF Keeps
  <2>5. Keeps(rowsOf, candidateFile) /\ Keeps(rowsOf, resultFile)
      BY <2>1, <2>4 DEF ReportInv, ReportTyped, RowsAgree
  <2>6. \A u \in Validator :
            /\ validators'[u].pc \in {"candidates", "write"} => validators'[u].rows = rowsOf[validators'[u].run]
            /\ validators'[u].pc \in {"evidence", "publish"} => Keeps(rowsOf, validators'[u].results)
            /\ validators'[u].pc = "publish" => Keeps(rowsOf, validators'[u].evidence)
    <3> TAKE u \in Validator
    <3>1. CASE u = v
        BY <1>1, <2>3, <3>1 DEF Moves
    <3>2. CASE u # v
      <4>1. validators'[u] = validators[u]
          BY <1>1, <3>2 DEF Moves
      <4>2. validators[u].pc \in {"candidates", "write"} => validators[u].run \in 0 .. runsBegun
          BY <1>2, <1>4 DEF BusyValidators
      <4>3. validators[u].pc \in {"evidence", "publish"} =>
                validators[u].results \in Files /\ RunOf(validators[u].results) \in 0 .. runsBegun
        <5>1. RunRecord(validators[u])
            BY DEF ReportInv, ReportTyped
        <5>2. validators[u].pc \in {"evidence", "publish"} => validators[u].results \in Files
            BY <5>1 DEF RunRecord, Files, AtRest
        <5> QED BY <5>2 DEF ReportInv, ReportTyped
      <4>4. validators[u].pc = "publish" =>
                validators[u].evidence \in Files /\ RunOf(validators[u].evidence) \in 0 .. runsBegun
        <5>1. RunRecord(validators[u])
            BY DEF ReportInv, ReportTyped
        <5>2. validators[u].pc = "publish" => validators[u].evidence \in Files
            BY <5>1 DEF RunRecord, AtRest
        <5> QED BY <5>2 DEF ReportInv, ReportTyped
      <4> QED BY <2>1, <2>2, <2>4, <4>1, <4>2, <4>3, <4>4 DEF RowsAgree
    <3> QED BY <3>1, <3>2
  <2>7. Shown => ShownAs(rowsOf)
    <3> SUFFICES ASSUME Shown PROVE ShownAs(rowsOf)
        OBVIOUS
    <3>1. PICK results \in Files, evidence \in Files :
              /\ Keeps(old, results) /\ Keeps(old, evidence)
              /\ results # NoReportFile => webReport.firms \subseteq DOMAIN results.rows
              /\ webReport.results = RunOf(results) /\ webReport.candidates = RunOf(evidence)
              /\ webReport.rows = [c \in webReport.firms |-> ShownResult(results, evidence, c)]
        BY <2>1 DEF RowsAgree, ShownAs
    <3>2. Keeps(rowsOf, results) /\ Keeps(rowsOf, evidence)
        BY <2>4, <3>1 DEF ReportInv, ReportTyped, Shown
    <3> QED BY <3>1, <3>2 DEF ShownAs
  <2>8. (Shown => ShownAs(rowsOf))'
    <3>1. webReport' = webReport
        BY <1>1
    <3>2. (Shown' <=> Shown) /\ (ShownAs(rowsOf)' <=> ShownAs(rowsOf))
        BY <3>1 DEF Shown, ShownAs
    <3> QED BY <2>7, <3>2
  <2> QED BY <1>1, <2>5, <2>6, <2>8 DEF RowsAgree
<1> QED BY <1>6, <1>7, <1>8, <1>9, <1>10, <1>11 DEF ReportInv

-----------------------------------------------------------------------------
(* Steps of a run under way.                                               *)

\* What is known of the validators once one has moved to another step of its run
\* or has ended it.
Stays(v, new) ==
    /\ Moves(v, new) /\ RunRecord(new)
    /\ validators[v].pc # "idle" /\ (new.pc # "idle" => new.run = validators[v].run)
    /\ UNCHANGED <<baseFirms, runsBegun>>

LEMMA StaysMet ==
    ASSUME ReportInv, NEW v \in Validator, NEW new, Stays(v, new), UNCHANGED disturbed
    PROVE  RunsMet' /\ BusyValidators' \subseteq BusyValidators
           /\ \A u \in BusyValidators' : validators'[u].run = validators[u].run
<1>1. BusyValidators' \subseteq BusyValidators /\ \A u \in BusyValidators' : validators'[u].run = validators[u].run
  <2>1. \A u \in Validator : validators'[u].pc # "idle" =>
            validators[u].pc # "idle" /\ validators'[u].run = validators[u].run
      BY DEF Stays, Moves
  <2> QED BY <2>1 DEF BusyValidators
<1>2. RunsMet'
  <2>1. disturbed' = disturbed /\ runsBegun' = runsBegun
      BY DEF Stays
  <2>2. disturbed \subseteq 1 .. runsBegun
      BY DEF ReportInv, RunsMet
  <2>3. \A u, w \in BusyValidators' : u # w =>
          /\ validators'[u].run # validators'[w].run
          /\ validators'[u].run \in disturbed /\ validators'[w].run \in disturbed
      BY <1>1 DEF ReportInv, RunsMet
  <2>4. \A u \in BusyValidators' : \A n \in 1 .. runsBegun : n > validators'[u].run => n \in disturbed
      BY <1>1 DEF ReportInv, RunsMet
  <2> QED BY <2>1, <2>2, <2>3, <2>4 DEF RunsMet
<1> QED BY <1>1, <1>2

LEMMA FileOfRun ==
    ASSUME ReportInv, NEW v \in Validator, validators[v].pc \in {"candidates", "write"}
    PROVE  LET file == [run |-> validators[v].run, rows |-> validators[v].rows]
           IN /\ file \in Files /\ file # NoReportFile /\ RunOf(file) = validators[v].run
              /\ validators[v].run \in 1 .. runsBegun
              /\ validators[v] = [pc |-> validators[v].pc, run |-> validators[v].run, rows |-> validators[v].rows]
<1>1. RunRecord(validators[v]) /\ v \in BusyValidators
    BY DEF ReportInv, ReportTyped, BusyValidators
<1>2. [run |-> validators[v].run, rows |-> validators[v].rows] \in ReportFile
      /\ validators[v] = [pc |-> validators[v].pc, run |-> validators[v].run, rows |-> validators[v].rows]
    BY <1>1 DEF RunRecord, AtRest
<1> QED BY <1>1, <1>2, ValidationReportAssumption DEF ReportInv, ReportTyped, Files, RunOf

LEMMA WriteCandidatesKeeps ==
    ASSUME ReportInv, NEW v \in Validator, validators[v].pc = "candidates", WriteCandidates(v),
           ValidatorStep(v, [validators[v] EXCEPT !.pc = "write"]),
           UNCHANGED <<baseFirms, webReport, runsBegun, baseChanges, disturbed>>
    PROVE  ReportInv'
<1> DEFINE file == [run |-> validators[v].run, rows |-> validators[v].rows]
           new == [validators[v] EXCEPT !.pc = "write"]
<1>1. /\ file \in Files /\ file # NoReportFile /\ RunOf(file) = validators[v].run
      /\ validators[v].run \in 1 .. runsBegun
      /\ new = [pc |-> "write", run |-> validators[v].run, rows |-> validators[v].rows]
  <2>1. validators[v] = [pc |-> validators[v].pc, run |-> validators[v].run, rows |-> validators[v].rows]
      BY FileOfRun
  <2>2. new = [pc |-> "write", run |-> validators[v].run, rows |-> validators[v].rows]
      BY <2>1
  <2> HIDE DEF new
  <2> QED BY <2>2, FileOfRun
<1>2. candidateFile' = file /\ resultFile' = resultFile
    BY DEF WriteCandidates
<1>3. Moves(v, new)
    BY StepMoves DEF ReportInv
<1>4. Stays(v, new)
  <2>1. RunRecord(new)
      BY <1>1 DEF RunRecord, Files
  <2> QED BY <1>1, <1>3, <2>1 DEF Stays
<1> HIDE DEF new
<1>5. RunsMet' /\ BusyValidators' \subseteq BusyValidators
      /\ \A u \in BusyValidators' : validators'[u].run = validators[u].run
    BY <1>4, StaysMet
<1>6. ReportTyped'
  <2>1. \A u \in Validator : RunRecord(validators'[u])
      BY <1>4 DEF Stays, Moves, ReportInv, ReportTyped
  <2>2. \A u \in BusyValidators' : validators'[u].run \in 1 .. runsBegun
      BY <1>5 DEF ReportInv, ReportTyped
  <2>3. \A u \in Validator : validators'[u].pc \in WithReport => validators'[u] = validators[u]
      BY <1>1, <1>3 DEF Moves, WithReport
  <2>4. RunOf(file) \in 0 .. runsBegun
      BY <1>1 DEF ReportInv, ReportTyped
  <2>5. \A u \in Validator :
          /\ validators'[u].pc \in WithReport => validators'[u].report.full \in 0 .. runsBegun
          /\ validators'[u].pc \in {"evidence", "publish"} => RunOf(validators'[u].results) \in 0 .. runsBegun
          /\ validators'[u].pc = "publish" => RunOf(validators'[u].evidence) \in 0 .. runsBegun
      BY <2>3 DEF ReportInv, ReportTyped, WithReport
  <2> QED BY <1>1, <1>2, <1>3, <2>1, <2>2, <2>4, <2>5 DEF ReportInv, ReportTyped, Moves
<1>7. CandidatesFollowed'
  <2>1. \A u \in Validator : validators'[u].pc = "write" => validators[v].run \in disturbed \cup {validators'[u].run}
    <3> SUFFICES ASSUME NEW u \in Validator, validators'[u].pc = "write", u # v
                 PROVE  validators[v].run \in disturbed
        BY <1>1, <1>3 DEF Moves
    <3>1. u \in BusyValidators /\ v \in BusyValidators
        BY <1>3 DEF BusyValidators, Moves
    <3> QED BY <3>1 DEF ReportInv, RunsMet
  <2>2. validators'[v].pc = "write" /\ validators'[v].run = RunOf(file)
      BY <1>1, <1>3 DEF Moves
  <2>3. \A u \in Validator : validators'[u].pc \in {"evidence", "publish"} => validators'[u] = validators[u]
      BY <1>1, <1>3 DEF Moves
  <2>4. OneRunShown'
      BY DEF ReportInv, CandidatesFollowed, OneRunShown, Shown
  <2> QED BY <1>1, <1>2, <2>1, <2>2, <2>3, <2>4 DEF ReportInv, CandidatesFollowed
<1>8. Undisturbed' /\ ResultsGrow'
  <2>1. \A u \in Validator : validators'[u].pc \in WithReport \cup {"evidence", "publish"} =>
            validators'[u] = validators[u]
      BY <1>1, <1>3 DEF Moves, WithReport
  <2>2. Undisturbed'
    <3>1. ASSUME NEW u \in BusyValidators', validators'[u].run \notin disturbed
          PROVE  /\ validators'[u].pc \in {"evidence", "publish"} => validators'[u].results = resultFile
                 /\ validators'[u].pc \in WithReport /\ Shown => validators'[u].report.full >= webReport.full
      <4>1. u \in BusyValidators /\ u \in Validator /\ validators[u].run \notin disturbed
          BY <1>5, <3>1 DEF BusyValidators
      <4> QED BY <2>1, <4>1 DEF ReportInv, Undisturbed, WithReport
    <3> QED BY <1>2, <3>1 DEF Undisturbed, Shown
  <2>3. ResultsGrow'
      BY <1>2, <2>1 DEF ReportInv, ResultsGrow, Shown
  <2> QED BY <2>2, <2>3
<1>9. ASSUME NEW rowsOf, RowsAgree(rowsOf)
      PROVE  RowsAgree(rowsOf)'
  <2>1. Keeps(rowsOf, file)
      BY <1>9 DEF RowsAgree, Keeps
  <2>2. \A u \in Validator :
          /\ validators'[u].pc \in {"candidates", "write"} => validators'[u].rows = rowsOf[validators'[u].run]
          /\ validators'[u].pc \in {"evidence", "publish"} => Keeps(rowsOf, validators'[u].results)
          /\ validators'[u].pc = "publish" => Keeps(rowsOf, validators'[u].evidence)
      BY <1>1, <1>3, <1>9 DEF Moves, RowsAgree
  <2>3. (Shown' <=> Shown) /\ (ShownAs(rowsOf)' <=> ShownAs(rowsOf))
      BY DEF Shown, ShownAs
  <2> QED BY <1>2, <1>9, <2>1, <2>2, <2>3 DEF RowsAgree
<1> QED BY <1>5, <1>6, <1>7, <1>8, <1>9 DEF ReportInv

\* What a step that only reads must know of what it then holds.
Holds(v, new) ==
    /\ new.pc \in WithReport =>
          /\ new.report.full \in 0 .. runsBegun
          /\ validators[v].run \notin disturbed /\ Shown => new.report.full >= webReport.full
    /\ new.pc \in {"evidence", "publish"} =>
          /\ RunOf(new.results) \in 0 .. runsBegun
          /\ RunOf(new.results) \in disturbed \/ RunOf(resultFile) >= RunOf(new.results)
          /\ validators[v].run \notin disturbed => new.results = resultFile
          /\ \A rowsOf : RowsAgree(rowsOf) => Keeps(rowsOf, new.results)
    /\ new.pc = "evidence" => resultFile = new.results \/ RunOf(resultFile) \in disturbed
    /\ new.pc = "publish" =>
          /\ RunOf(new.evidence) \in 0 .. runsBegun
          /\ RunOf(new.evidence) \in disturbed \cup {0, RunOf(new.results)}
          /\ \A rowsOf : RowsAgree(rowsOf) => Keeps(rowsOf, new.evidence)

LEMMA ReadingKeeps ==
    ASSUME ReportInv, NEW v \in Validator, NEW new, Stays(v, new), Quiet, Holds(v, new),
           new.pc \notin {"candidates", "write"}, validators[v].pc # "write"
    PROVE  ReportInv'
<1>1. Moves(v, new) /\ validators' = [u \in Validator |-> validators'[u]]
      /\ validators'[v] = new /\ \A u \in Validator : u # v => validators'[u] = validators[u]
    BY DEF Stays, Moves
<1>2. UNCHANGED <<baseFirms, candidateFile, resultFile, webReport, runsBegun, disturbed>>
    BY DEF Quiet
<1>3. RunsMet' /\ BusyValidators' \subseteq BusyValidators
      /\ \A u \in BusyValidators' : validators'[u].run = validators[u].run
    BY <1>2, StaysMet
<1>4. v \in BusyValidators
    BY DEF Stays, BusyValidators
<1>5. ReportTyped'
  <2>1. \A u \in Validator : RunRecord(validators'[u])
      BY <1>1 DEF Stays, ReportInv, ReportTyped
  <2>2. \A u \in BusyValidators' : validators'[u].run \in 1 .. runsBegun
      BY <1>3 DEF ReportInv, ReportTyped
  <2>3. \A u \in Validator :
          /\ validators'[u].pc \in WithReport => validators'[u].report.full \in 0 .. runsBegun
          /\ validators'[u].pc \in {"evidence", "publish"} => RunOf(validators'[u].results) \in 0 .. runsBegun
          /\ validators'[u].pc = "publish" => RunOf(validators'[u].evidence) \in 0 .. runsBegun
      BY <1>1 DEF ReportInv, ReportTyped, Holds
  <2> QED BY <1>1, <1>2, <2>1, <2>2, <2>3 DEF ReportInv, ReportTyped
<1>6. CandidatesFollowed'
  <2>1. \A u \in Validator : validators'[u].pc = "write" \/ validators[u].pc = "write" =>
            validators'[u] = validators[u]
      BY <1>1
  <2>2. \A u \in Validator :
          /\ validators'[u].pc = "evidence" => resultFile = validators'[u].results \/ RunOf(resultFile) \in disturbed
          /\ validators'[u].pc = "publish" =>
                RunOf(validators'[u].evidence) \in disturbed \cup {0, RunOf(validators'[u].results)}
      BY <1>1 DEF ReportInv, CandidatesFollowed, Holds
  <2>3. OneRunShown'
      BY <1>2 DEF ReportInv, CandidatesFollowed, OneRunShown, Shown
  <2> QED BY <1>2, <2>1, <2>2, <2>3 DEF ReportInv, CandidatesFollowed
<1>7. Undisturbed'
  <2>1. ASSUME NEW u \in BusyValidators', validators'[u].run \notin disturbed
        PROVE  /\ validators'[u].pc \in {"evidence", "publish"} => validators'[u].results = resultFile
               /\ validators'[u].pc \in WithReport /\ Shown => validators'[u].report.full >= webReport.full
    <3>1. u \in BusyValidators /\ u \in Validator /\ validators[u].run \notin disturbed
        BY <1>3, <2>1 DEF BusyValidators
    <3>2. CASE u = v
        BY <1>1, <3>1, <3>2 DEF Holds
    <3>3. CASE u # v
        BY <1>1, <3>1, <3>3 DEF ReportInv, Undisturbed
    <3> QED BY <3>2, <3>3
  <2> QED BY <1>2, <2>1 DEF Undisturbed, Shown
<1>8. ResultsGrow'
  <2>1. \A u \in Validator : validators'[u].pc \in {"evidence", "publish"} =>
          \/ RunOf(validators'[u].results) \in disturbed
          \/ RunOf(resultFile) >= RunOf(validators'[u].results)
      BY <1>1 DEF ReportInv, ResultsGrow, Holds
  <2> QED BY <1>2, <2>1 DEF ReportInv, ResultsGrow, Shown
<1>9. ASSUME NEW rowsOf, RowsAgree(rowsOf)
      PROVE  RowsAgree(rowsOf)'
  <2>1. \A u \in Validator :
          /\ validators'[u].pc \in {"candidates", "write"} => validators'[u].rows = rowsOf[validators'[u].run]
          /\ validators'[u].pc \in {"evidence", "publish"} => Keeps(rowsOf, validators'[u].results)
          /\ validators'[u].pc = "publish" => Keeps(rowsOf, validators'[u].evidence)
    <3> TAKE u \in Validator
    <3>1. CASE u = v
        BY <1>1, <1>9, <3>1 DEF Holds
    <3>2. CASE u # v
        BY <1>1, <1>9, <3>2 DEF RowsAgree
    <3> QED BY <3>1, <3>2
  <2>2. (Shown' <=> Shown) /\ (ShownAs(rowsOf)' <=> ShownAs(rowsOf))
      BY <1>2 DEF Shown, ShownAs
  <2> QED BY <1>2, <1>9, <2>1, <2>2 DEF RowsAgree
<1> QED BY <1>3, <1>5, <1>6, <1>7, <1>8, <1>9 DEF ReportInv

\* A run that ends holds nothing.
LEMMA EndingHolds ==
    ASSUME NEW v \in Validator
    PROVE  Holds(v, AtRest) /\ RunRecord(AtRest)
BY DEF Holds, AtRest, WithReport, RunRecord

LEMMA ReadReportKeeps ==
    ASSUME ReportInv, NEW v \in Validator, ReadReport(v)
    PROVE  ReportInv'
<1>1. CASE webReport = NoReportFile
  <2>1. ValidatorStep(v, AtRest) /\ Quiet /\ validators[v].pc = "report"
      BY <1>1 DEF ReadReport
  <2>2. Stays(v, AtRest)
      BY <2>1, StepMoves, EndingHolds DEF Stays, ReportInv, Quiet, AtRest
  <2> QED BY <2>1, <2>2, EndingHolds, ReadingKeeps DEF AtRest
<1>2. CASE webReport # NoReportFile
  <2> DEFINE new == [pc |-> "results", run |-> validators[v].run,
                     report |-> [full |-> webReport.full, firms |-> webReport.firms]]
  <2>1. ValidatorStep(v, new) /\ Quiet /\ validators[v].pc = "report"
      BY <1>2 DEF ReadReport
  <2>2. new.pc = "results" /\ new.run = validators[v].run /\ new.report.full = webReport.full
      OBVIOUS
  <2>3. webReport.full \in 0 .. runsBegun /\ webReport.full >= webReport.full
      BY <1>2 DEF ReportInv, ReportTyped
  <2> HIDE DEF new
  <2>4. Stays(v, new)
      BY <2>1, <2>2, StepMoves DEF Stays, ReportInv, Quiet, RunRecord
  <2>5. Holds(v, new)
      BY <2>2, <2>3 DEF Holds, WithReport
  <2> QED BY <2>1, <2>2, <2>4, <2>5, ReadingKeeps
<1> QED BY <1>1, <1>2

LEMMA ReadResultsKeeps ==
    ASSUME ReportInv, NEW v \in Validator, ReadResults(v)
    PROVE  ReportInv'
<1> DEFINE self == validators[v]
<1>0. Quiet /\ self.pc = "results" /\ v \in BusyValidators /\ self.report.full \in 0 .. runsBegun
      /\ (self.run \notin disturbed /\ Shown => self.report.full >= webReport.full)
  <2>1. Quiet /\ self.pc = "results" /\ v \in BusyValidators
      BY DEF ReadResults, BusyValidators
  <2> QED BY <2>1 DEF ReportInv, ReportTyped, Undisturbed, WithReport
<1>1. CASE resultFile = NoReportFile
  <2> DEFINE new == [pc |-> "publish", run |-> self.run, report |-> self.report,
                     results |-> NoReportFile, evidence |-> NoReportFile]
  <2>1. ValidatorStep(v, new)
      BY <1>1 DEF ReadResults
  <2>2. new.pc = "publish" /\ new.run = self.run /\ new.report = self.report
        /\ new.results = NoReportFile /\ new.evidence = NoReportFile
      OBVIOUS
  <2> HIDE DEF new
  <2>3. RunOf(NoReportFile) = 0 /\ 0 \in 0 .. runsBegun /\ RunOf(resultFile) = 0 /\ 0 >= 0
      BY <1>1 DEF RunOf, ReportInv, ReportTyped
  <2>4. Stays(v, new)
      BY <1>0, <2>1, <2>2, StepMoves DEF Stays, ReportInv, Quiet, RunRecord, Files
  <2>5. Holds(v, new)
    <3>1. \A rowsOf : Keeps(rowsOf, NoReportFile)
        BY DEF Keeps
    <3>2. \A rowsOf : Keeps(rowsOf, new.results) /\ Keeps(rowsOf, new.evidence)
        BY <2>2, <3>1
    <3>3. /\ RunOf(new.results) = 0 /\ RunOf(new.evidence) = 0 /\ new.results = resultFile
          /\ new.report.full = self.report.full
        BY <1>1, <2>2, <2>3
    <3>4. /\ new.report.full \in 0 .. runsBegun
          /\ validators[v].run \notin disturbed /\ Shown => new.report.full >= webReport.full
        BY <1>0, <3>3
    <3>5. RunOf(new.results) \in 0 .. runsBegun /\ RunOf(resultFile) >= RunOf(new.results)
          /\ RunOf(new.evidence) \in 0 .. runsBegun
        BY <2>3, <3>3
    <3> QED BY <2>2, <3>2, <3>3, <3>4, <3>5 DEF Holds
  <2> QED BY <1>0, <2>2, <2>4, <2>5, ReadingKeeps
<1>2. CASE resultFile # NoReportFile /\ Covers(self.report.firms)
  <2> DEFINE new == [pc |-> "evidence", run |-> self.run, report |-> self.report, results |-> resultFile]
  <2>1. ValidatorStep(v, new)
      BY <1>2 DEF ReadResults
  <2>2. new.pc = "evidence" /\ new.run = self.run /\ new.report = self.report /\ new.results = resultFile
      OBVIOUS
  <2> HIDE DEF new
  <2>3. RunOf(resultFile) \in 0 .. runsBegun /\ resultFile \in ReportFile
      BY <1>2 DEF ReportInv, ReportTyped, Files
  <2>4. Stays(v, new)
      BY <1>0, <1>2, <2>1, <2>2, <2>3, StepMoves DEF Stays, ReportInv, Quiet, RunRecord, Covers
  <2>5. Holds(v, new)
      BY <1>0, <2>2, <2>3 DEF Holds, WithReport, RowsAgree
  <2> QED BY <1>0, <2>2, <2>4, <2>5, ReadingKeeps
<1>3. CASE resultFile # NoReportFile /\ ~Covers(self.report.firms)
  <2>1. ValidatorStep(v, AtRest)
      BY <1>3 DEF ReadResults
  <2>2. Stays(v, AtRest)
      BY <1>0, <2>1, StepMoves, EndingHolds DEF Stays, ReportInv, Quiet, AtRest
  <2> QED BY <1>0, <2>2, EndingHolds, ReadingKeeps DEF AtRest
<1> QED BY <1>1, <1>2, <1>3

LEMMA ReadCandidatesKeeps ==
    ASSUME ReportInv, NEW v \in Validator, ReadCandidates(v)
    PROVE  ReportInv'
<1> DEFINE self == validators[v]
           new == [pc |-> "publish", run |-> self.run, report |-> self.report,
                   results |-> self.results, evidence |-> candidateFile]
<1>1. Quiet /\ self.pc = "evidence" /\ v \in BusyValidators /\ ValidatorStep(v, new)
    BY DEF ReadCandidates, BusyValidators
<1>2. new.pc = "publish" /\ new.run = self.run /\ new.report = self.report
      /\ new.results = self.results /\ new.evidence = candidateFile
    OBVIOUS
<1> HIDE DEF new
<1>3. /\ self.report.full \in 0 .. runsBegun
      /\ self.run \notin disturbed /\ Shown => self.report.full >= webReport.full
      /\ self.run \notin disturbed => self.results = resultFile
      /\ RunOf(self.results) \in disturbed \/ RunOf(resultFile) >= RunOf(self.results)
      /\ resultFile = self.results \/ RunOf(resultFile) \in disturbed
      /\ RunOf(self.results) \in 0 .. runsBegun
    BY <1>1 DEF ReportInv, ReportTyped, Undisturbed, ResultsGrow, CandidatesFollowed, WithReport
<1>4. self.results \in ReportFile /\ self.report.firms \subseteq DOMAIN self.results.rows
  <2>1. RunRecord(self)
      BY DEF ReportInv, ReportTyped
  <2> QED BY <1>1, <2>1 DEF RunRecord, AtRest
<1>5. candidateFile \in Files /\ RunOf(candidateFile) \in 0 .. runsBegun
    BY DEF ReportInv, ReportTyped
<1>6. RunOf(candidateFile) \in disturbed \cup {0, RunOf(self.results)}
  <2>1. CASE \E u \in Validator : validators[u].pc = "write" /\ validators[u].run = RunOf(candidateFile)
    <3>1. PICK u \in Validator : validators[u].pc = "write" /\ validators[u].run = RunOf(candidateFile)
        BY <2>1
    <3>2. u \in BusyValidators /\ u # v
        BY <1>1, <3>1 DEF BusyValidators
    <3> QED BY <1>1, <3>1, <3>2 DEF ReportInv, RunsMet
  <2>2. CASE RunOf(candidateFile) \in disturbed \cup {0, RunOf(resultFile)}
      BY <1>3, <2>2
  <2> QED BY <2>1, <2>2 DEF ReportInv, CandidatesFollowed
<1>7. Stays(v, new)
  <2>1. RunRecord(new)
      BY <1>2, <1>4, <1>5 DEF RunRecord, Files
  <2> QED BY <1>1, <1>2, <2>1, StepMoves DEF Stays, ReportInv, Quiet
<1>8. Holds(v, new)
  <2>1. \A rowsOf : RowsAgree(rowsOf) => Keeps(rowsOf, self.results) /\ Keeps(rowsOf, candidateFile)
      BY <1>1 DEF RowsAgree
  <2> QED BY <1>2, <1>3, <1>5, <1>6, <2>1 DEF Holds
<1> QED BY <1>1, <1>2, <1>7, <1>8, ReadingKeeps

LEMMA WriteResultsKeeps ==
    ASSUME ReportInv, NEW v \in Validator, validators[v].pc = "write", WriteResults(v),
           ValidatorStep(v, [validators[v] EXCEPT !.pc = "report"]),
           UNCHANGED <<baseFirms, webReport, runsBegun, baseChanges, disturbed>>
    PROVE  ReportInv'
<1> DEFINE file == [run |-> validators[v].run, rows |-> validators[v].rows]
           new == [validators[v] EXCEPT !.pc = "report"]
<1>1. /\ file \in Files /\ file # NoReportFile /\ RunOf(file) = validators[v].run
      /\ validators[v].run \in 1 .. runsBegun /\ v \in BusyValidators
      /\ new.pc = "report" /\ new.run = validators[v].run
  <2>1. validators[v] = [pc |-> validators[v].pc, run |-> validators[v].run, rows |-> validators[v].rows]
      BY FileOfRun
  <2>2. new = [pc |-> "report", run |-> validators[v].run, rows |-> validators[v].rows]
      BY <2>1
  <2> HIDE DEF new
  <2> QED BY <2>2, FileOfRun DEF BusyValidators
<1>2. candidateFile' = candidateFile /\ resultFile' = file
    BY DEF WriteResults
<1>3. Moves(v, new)
    BY StepMoves DEF ReportInv
<1>4. Stays(v, new)
    BY <1>1, <1>3 DEF Stays, RunRecord
<1> HIDE DEF new
<1>5. RunsMet' /\ BusyValidators' \subseteq BusyValidators
      /\ \A u \in BusyValidators' : validators'[u].run = validators[u].run
    BY <1>4, StaysMet
<1>6. \A u \in Validator : validators'[u].pc \in WithReport \cup {"evidence", "publish", "write", "candidates"} =>
          u # v /\ validators'[u] = validators[u]
    BY <1>1, <1>3 DEF Moves, WithReport
<1>7. \A u \in Validator : u # v /\ validators[u].pc # "idle" =>
          validators[u].run \in disturbed /\ validators[v].run \in disturbed
    BY <1>1 DEF ReportInv, RunsMet, BusyValidators
<1>8. ReportTyped'
  <2>1. \A u \in Validator : RunRecord(validators'[u])
      BY <1>4 DEF Stays, Moves, ReportInv, ReportTyped
  <2>2. \A u \in BusyValidators' : validators'[u].run \in 1 .. runsBegun
      BY <1>5 DEF ReportInv, ReportTyped
  <2>3. RunOf(file) \in 0 .. runsBegun
      BY <1>1 DEF ReportInv, ReportTyped
  <2>4. \A u \in Validator :
          /\ validators'[u].pc \in WithReport => validators'[u].report.full \in 0 .. runsBegun
          /\ validators'[u].pc \in {"evidence", "publish"} => RunOf(validators'[u].results) \in 0 .. runsBegun
          /\ validators'[u].pc = "publish" => RunOf(validators'[u].evidence) \in 0 .. runsBegun
      BY <1>6 DEF ReportInv, ReportTyped
  <2> QED BY <1>1, <1>2, <1>3, <2>1, <2>2, <2>3, <2>4 DEF ReportInv, ReportTyped, Moves
<1>9. CandidatesFollowed'
  <2>1. RunOf(candidateFile) \in disturbed \cup {RunOf(file)}
      BY <1>1 DEF ReportInv, CandidatesFollowed
  <2>2. \A u \in Validator :
          /\ validators'[u].pc = "write" => RunOf(candidateFile) \in disturbed \cup {validators'[u].run}
          /\ validators'[u].pc = "publish" =>
                RunOf(validators'[u].evidence) \in disturbed \cup {0, RunOf(validators'[u].results)}
      BY <1>6 DEF ReportInv, CandidatesFollowed
  <2>3. \A u \in Validator : validators'[u].pc = "evidence" => RunOf(file) \in disturbed
      BY <1>1, <1>6, <1>7
  <2>4. OneRunShown'
      BY DEF ReportInv, CandidatesFollowed, OneRunShown, Shown
  <2> QED BY <1>2, <2>1, <2>2, <2>3, <2>4 DEF CandidatesFollowed
<1>10. Undisturbed'
  <2>1. ASSUME NEW u \in BusyValidators', validators'[u].run \notin disturbed
        PROVE  validators'[u].pc \notin WithReport \cup {"evidence", "publish"}
    <3>1. u \in BusyValidators /\ u \in Validator /\ validators[u].run \notin disturbed
        BY <1>5, <2>1 DEF BusyValidators
    <3> QED BY <1>6, <1>7, <3>1 DEF BusyValidators
  <2> QED BY <2>1 DEF Undisturbed
<1>11. ResultsGrow'
  <2>1. \A n \in 0 .. runsBegun : n \in disturbed \/ RunOf(file) >= n
    <3>1. \A n \in 1 .. runsBegun : n > validators[v].run => n \in disturbed
        BY <1>1 DEF ReportInv, RunsMet
    <3> QED BY <1>1, <3>1
  <2>2. \A u \in Validator : validators'[u].pc \in {"evidence", "publish"} =>
            RunOf(validators'[u].results) \in 0 .. runsBegun
      BY <1>6 DEF ReportInv, ReportTyped
  <2>3. Shown => webReport.results \in 0 .. runsBegun
      BY DEF ReportInv, ReportTyped, Shown
  <2> QED BY <1>2, <2>1, <2>2, <2>3 DEF ResultsGrow, Shown
<1>12. ASSUME NEW rowsOf, RowsAgree(rowsOf)
       PROVE  RowsAgree(rowsOf)'
  <2>1. Keeps(rowsOf, file)
      BY <1>12 DEF RowsAgree, Keeps
  <2>2. \A u \in Validator :
          /\ validators'[u].pc \in {"candidates", "write"} => validators'[u].rows = rowsOf[validators'[u].run]
          /\ validators'[u].pc \in {"evidence", "publish"} => Keeps(rowsOf, validators'[u].results)
          /\ validators'[u].pc = "publish" => Keeps(rowsOf, validators'[u].evidence)
      BY <1>6, <1>12 DEF RowsAgree
  <2>3. (Shown' <=> Shown) /\ (ShownAs(rowsOf)' <=> ShownAs(rowsOf))
      BY DEF Shown, ShownAs
  <2> QED BY <1>2, <1>12, <2>1, <2>2, <2>3 DEF RowsAgree
<1> QED BY <1>5, <1>8, <1>9, <1>10, <1>11, <1>12 DEF ReportInv

\* What a step that publishes puts into the report.
LEMMA PublishingGives ==
    ASSUME ReportInv, NEW v \in Validator, PublishReport(v)
    PROVE  /\ v \in BusyValidators /\ Stays(v, AtRest)
           /\ UNCHANGED <<candidateFile, resultFile, disturbed>>
           /\ webReport'.full = validators[v].report.full /\ webReport'.firms = validators[v].report.firms
           /\ webReport'.results = RunOf(validators[v].results)
           /\ webReport'.candidates = RunOf(validators[v].evidence)
           /\ webReport'.rows = [c \in validators[v].report.firms |->
                  ShownResult(validators[v].results, validators[v].evidence, c)]
           /\ \A u \in Validator : validators'[u].pc # "idle" => u # v /\ validators'[u] = validators[u]
           /\ \A u \in BusyValidators : u # v => validators[u].run \in disturbed
<1>1. ValidatorStep(v, AtRest) /\ validators[v].pc = "publish" /\ webReport' = Published(validators[v])
      /\ UNCHANGED <<baseFirms, candidateFile, resultFile, runsBegun, disturbed>>
    BY DEF PublishReport
<1>2. Moves(v, AtRest)
    BY <1>1, StepMoves DEF ReportInv
<1>3. v \in BusyValidators /\ Stays(v, AtRest)
    BY <1>1, <1>2, EndingHolds DEF BusyValidators, Stays, AtRest
<1>4. \A u \in Validator : validators'[u].pc # "idle" => u # v /\ validators'[u] = validators[u]
    BY <1>2 DEF Moves, AtRest
<1>5. \A u \in BusyValidators : u # v => validators[u].run \in disturbed
    BY <1>3 DEF ReportInv, RunsMet
<1>6. webReport' = [full |-> validators[v].report.full, firms |-> validators[v].report.firms,
                    results |-> RunOf(validators[v].results), candidates |-> RunOf(validators[v].evidence),
                    rows |-> [c \in validators[v].report.firms |->
                                 ShownResult(validators[v].results, validators[v].evidence, c)]]
    BY <1>1 DEF Published
<1> QED BY <1>1, <1>3, <1>4, <1>5, <1>6

LEMMA PublishKeeps ==
    ASSUME ReportInv, NEW v \in Validator, PublishReport(v)
    PROVE  ReportInv'
<1> DEFINE self == validators[v]
<1>1. /\ v \in BusyValidators /\ Stays(v, AtRest)
      /\ UNCHANGED <<candidateFile, resultFile, disturbed>>
      /\ \A u \in Validator : validators'[u].pc # "idle" => u # v /\ validators'[u] = validators[u]
      /\ \A u \in BusyValidators : u # v => validators[u].run \in disturbed
    BY PublishingGives
<1>2. RunsMet' /\ BusyValidators' \subseteq BusyValidators
      /\ \A u \in BusyValidators' : validators'[u].run = validators[u].run
    BY <1>1, StaysMet
<1>3. self.pc = "publish" /\ self.results \in Files /\ self.evidence \in Files
      /\ (self.results # NoReportFile => self.report.firms \subseteq DOMAIN self.results.rows)
  <2>1. RunRecord(self) /\ self.pc = "publish"
      BY DEF ReportInv, ReportTyped, PublishReport
  <2> QED BY <2>1 DEF RunRecord, AtRest
<1>4. \A u \in Validator : validators'[u].pc \in WithReport \cup {"evidence", "publish", "write", "candidates"} =>
          u # v /\ validators'[u] = validators[u]
    BY <1>1 DEF WithReport
<1>5. ReportTyped'
  <2>1. \A u \in Validator : RunRecord(validators'[u])
      BY <1>1 DEF Stays, Moves, ReportInv, ReportTyped
  <2>2. \A u \in BusyValidators' : validators'[u].run \in 1 .. runsBegun
      BY <1>2 DEF ReportInv, ReportTyped
  <2>3. \A u \in Validator :
          /\ validators'[u].pc \in WithReport => validators'[u].report.full \in 0 .. runsBegun
          /\ validators'[u].pc \in {"evidence", "publish"} => RunOf(validators'[u].results) \in 0 .. runsBegun
          /\ validators'[u].pc = "publish" => RunOf(validators'[u].evidence) \in 0 .. runsBegun
      BY <1>4 DEF ReportInv, ReportTyped
  <2>4. /\ webReport'.full \in 0 .. runsBegun
        /\ webReport'.results \in 0 .. runsBegun /\ webReport'.candidates \in 0 .. runsBegun
      BY <1>3, PublishingGives DEF ReportInv, ReportTyped, WithReport
  <2>5. UNCHANGED <<baseFirms, runsBegun>> /\ validators' = [u \in Validator |-> validators'[u]]
      BY <1>1 DEF Stays, Moves
  <2> QED BY <1>1, <2>1, <2>2, <2>3, <2>4, <2>5 DEF ReportInv, ReportTyped
<1>6. CandidatesFollowed'
  <2>1. \A u \in Validator :
          /\ validators'[u].pc = "write" => RunOf(candidateFile) \in disturbed \cup {validators'[u].run}
          /\ validators'[u].pc = "evidence" =>
                resultFile = validators'[u].results \/ RunOf(resultFile) \in disturbed
          /\ validators'[u].pc = "publish" =>
                RunOf(validators'[u].evidence) \in disturbed \cup {0, RunOf(validators'[u].results)}
      BY <1>4 DEF ReportInv, CandidatesFollowed
  <2>2. \A u \in Validator : validators[u].pc = "write" => validators'[u] = validators[u]
      BY <1>1, <1>3 DEF Stays, Moves
  <2>3. \/ RunOf(candidateFile) \in disturbed \cup {0, RunOf(resultFile)}
        \/ \E u \in Validator : validators'[u].pc = "write" /\ validators'[u].run = RunOf(candidateFile)
      BY <2>2 DEF ReportInv, CandidatesFollowed
  <2>4. OneRunShown'
    <3>1. webReport'.candidates \in disturbed \cup {0, webReport'.results}
        BY <1>3, PublishingGives DEF ReportInv, CandidatesFollowed
    <3> QED BY <1>1, <3>1 DEF OneRunShown
  <2> QED BY <1>1, <2>1, <2>3, <2>4 DEF CandidatesFollowed
<1>7. Undisturbed'
  <2>1. \A u \in BusyValidators' : validators'[u].run \in disturbed
      BY <1>1, <1>2 DEF BusyValidators
  <2> QED BY <1>1, <2>1 DEF Undisturbed
<1>8. ResultsGrow'
  <2>1. \A u \in Validator : validators'[u].pc \in {"evidence", "publish"} =>
          \/ RunOf(validators'[u].results) \in disturbed
          \/ RunOf(resultFile) >= RunOf(validators'[u].results)
      BY <1>4 DEF ReportInv, ResultsGrow
  <2>2. webReport'.results \in disturbed \/ RunOf(resultFile) >= webReport'.results
      BY <1>3, PublishingGives DEF ReportInv, ResultsGrow
  <2> QED BY <1>1, <2>1, <2>2 DEF ResultsGrow
<1>9. ASSUME NEW rowsOf, RowsAgree(rowsOf)
      PROVE  RowsAgree(rowsOf)'
  <2>1. \A u \in Validator :
          /\ validators'[u].pc \in {"candidates", "write"} => validators'[u].rows = rowsOf[validators'[u].run]
          /\ validators'[u].pc \in {"evidence", "publish"} => Keeps(rowsOf, validators'[u].results)
          /\ validators'[u].pc = "publish" => Keeps(rowsOf, validators'[u].evidence)
      BY <1>4, <1>9 DEF RowsAgree
  <2>2. Keeps(rowsOf, self.results) /\ Keeps(rowsOf, self.evidence)
      BY <1>3, <1>9 DEF RowsAgree
  <2>3. /\ webReport'.firms = self.report.firms
        /\ webReport'.results = RunOf(self.results) /\ webReport'.candidates = RunOf(self.evidence)
        /\ webReport'.rows = [c \in webReport'.firms |-> ShownResult(self.results, self.evidence, c)]
      BY PublishingGives
  <2>4. ShownAs(rowsOf)'
    <3> DEFINE results == self.results
               evidence == self.evidence
    <3> HIDE DEF self
    <3>1. PICK x, y : x = results /\ y = evidence
        OBVIOUS
    <3>2. /\ x \in Files /\ y \in Files /\ Keeps(rowsOf, x) /\ Keeps(rowsOf, y)
          /\ x # NoReportFile => webReport'.firms \subseteq DOMAIN x.rows
          /\ webReport'.results = RunOf(x) /\ webReport'.candidates = RunOf(y)
          /\ webReport'.rows = [c \in webReport'.firms |-> ShownResult(x, y, c)]
        BY <1>3, <2>2, <2>3, <3>1
    <3> QED BY <3>2 DEF ShownAs
  <2> QED BY <1>1, <1>9, <2>1, <2>4 DEF RowsAgree
<1> QED BY <1>2, <1>5, <1>6, <1>7, <1>8, <1>9 DEF ReportInv

LEMMA StopKeeps ==
    ASSUME ReportInv, NEW v \in Validator, StopRun(v)
    PROVE  ReportInv'
<1>1. /\ ValidatorStep(v, AtRest) /\ validators[v].pc # "idle" /\ v \in BusyValidators
      /\ disturbed' = disturbed \cup (IF validators[v].pc = "write" THEN {validators[v].run} ELSE {})
      /\ UNCHANGED <<baseFirms, candidateFile, resultFile, webReport, runsBegun>>
    BY DEF StopRun, BusyValidators
<1>2. Moves(v, AtRest)
    BY <1>1, StepMoves DEF ReportInv
<1>3. \A u \in Validator : validators'[u].pc # "idle" => u # v /\ validators'[u] = validators[u]
    BY <1>2 DEF Moves, AtRest
<1>4. BusyValidators' \subseteq BusyValidators
      /\ \A u \in BusyValidators' : u \in Validator /\ validators'[u] = validators[u]
    BY <1>3 DEF BusyValidators
<1>5. disturbed \subseteq disturbed' /\ disturbed' \subseteq 1 .. runsBegun
      /\ (validators[v].pc = "write" => validators[v].run \in disturbed')
  <2>1. validators[v].run \in 1 .. runsBegun /\ disturbed \subseteq 1 .. runsBegun
      BY <1>1 DEF ReportInv, ReportTyped, RunsMet
  <2> QED BY <1>1, <2>1
<1>6. ReportTyped'
  <2>1. \A u \in Validator : RunRecord(validators'[u])
      BY <1>2, EndingHolds DEF Moves, ReportInv, ReportTyped
  <2>2. \A u \in BusyValidators' : validators'[u].run \in 1 .. runsBegun
      BY <1>4 DEF ReportInv, ReportTyped
  <2>3. \A u \in Validator :
          /\ validators'[u].pc \in WithReport => validators'[u].report.full \in 0 .. runsBegun
          /\ validators'[u].pc \in {"evidence", "publish"} => RunOf(validators'[u].results) \in 0 .. runsBegun
          /\ validators'[u].pc = "publish" => RunOf(validators'[u].evidence) \in 0 .. runsBegun
      BY <1>3 DEF ReportInv, ReportTyped, WithReport
  <2> QED BY <1>1, <1>2, <2>1, <2>2, <2>3 DEF ReportInv, ReportTyped, Moves
<1>7. RunsMet'
  <2>1. \A u, w \in BusyValidators' : u # w =>
          /\ validators'[u].run # validators'[w].run
          /\ validators'[u].run \in disturbed' /\ validators'[w].run \in disturbed'
      BY <1>4, <1>5 DEF ReportInv, RunsMet
  <2>2. \A u \in BusyValidators' : \A n \in 1 .. runsBegun : n > validators'[u].run => n \in disturbed'
      BY <1>4, <1>5 DEF ReportInv, RunsMet
  <2> QED BY <1>1, <1>5, <2>1, <2>2 DEF RunsMet
<1>8. CandidatesFollowed'
  <2>1. \A u \in Validator :
          /\ validators'[u].pc = "write" => RunOf(candidateFile) \in disturbed' \cup {validators'[u].run}
          /\ validators'[u].pc = "evidence" =>
                resultFile = validators'[u].results \/ RunOf(resultFile) \in disturbed'
          /\ validators'[u].pc = "publish" =>
                RunOf(validators'[u].evidence) \in disturbed' \cup {0, RunOf(validators'[u].results)}
      BY <1>3, <1>5 DEF ReportInv, CandidatesFollowed
  <2>2. \A u \in Validator : u # v => validators'[u] = validators[u]
      BY <1>2 DEF Moves
  <2>3. \/ RunOf(candidateFile) \in disturbed' \cup {0, RunOf(resultFile)}
        \/ \E u \in Validator : validators'[u].pc = "write" /\ validators'[u].run = RunOf(candidateFile)
      BY <1>5, <2>2 DEF ReportInv, CandidatesFollowed
  <2>4. OneRunShown'
      BY <1>1, <1>5 DEF ReportInv, CandidatesFollowed, OneRunShown, Shown
  <2> QED BY <1>1, <2>1, <2>3, <2>4 DEF CandidatesFollowed
<1>9. Undisturbed'
  <2>1. ASSUME NEW u \in BusyValidators', validators'[u].run \notin disturbed'
        PROVE  /\ validators'[u].pc \in {"evidence", "publish"} => validators'[u].results = resultFile
               /\ validators'[u].pc \in WithReport /\ Shown => validators'[u].report.full >= webReport.full
      BY <1>4, <1>5, <2>1 DEF ReportInv, Undisturbed
  <2> QED BY <1>1, <2>1 DEF Undisturbed, Shown
<1>10. ResultsGrow'
  <2>1. \A u \in Validator : validators'[u].pc \in {"evidence", "publish"} =>
          \/ RunOf(validators'[u].results) \in disturbed'
          \/ RunOf(resultFile) >= RunOf(validators'[u].results)
      BY <1>3, <1>5 DEF ReportInv, ResultsGrow
  <2> QED BY <1>1, <1>5, <2>1 DEF ReportInv, ResultsGrow, Shown
<1>11. ASSUME NEW rowsOf, RowsAgree(rowsOf)
       PROVE  RowsAgree(rowsOf)'
  <2>1. \A u \in Validator :
          /\ validators'[u].pc \in {"candidates", "write"} => validators'[u].rows = rowsOf[validators'[u].run]
          /\ validators'[u].pc \in {"evidence", "publish"} => Keeps(rowsOf, validators'[u].results)
          /\ validators'[u].pc = "publish" => Keeps(rowsOf, validators'[u].evidence)
      BY <1>3, <1>11 DEF RowsAgree
  <2>2. webReport' = webReport
      BY <1>1
  <2>3. (Shown' <=> Shown) /\ (ShownAs(rowsOf)' <=> ShownAs(rowsOf))
      BY <2>2 DEF Shown, ShownAs
  <2> QED BY <1>1, <1>11, <2>1, <2>3 DEF RowsAgree
<1> QED BY <1>6, <1>7, <1>8, <1>9, <1>10, <1>11 DEF ReportInv

\* Nothing that the invariant speaks of changes but the companies of the base.
LEMMA RestKeeps ==
    ASSUME ReportInv, baseFirms' \in BaseFirms,
           UNCHANGED <<candidateFile, resultFile, webReport, validators, runsBegun, disturbed>>
    PROVE  ReportInv'
<1>1. BusyValidators' = BusyValidators /\ Shown' = Shown
    BY DEF BusyValidators, Shown
<1>2. ReportTyped'
    BY <1>1 DEF ReportInv, ReportTyped
<1>3. RunsMet' /\ Undisturbed' /\ ResultsGrow'
    BY <1>1 DEF ReportInv, RunsMet, Undisturbed, ResultsGrow
<1>4. CandidatesFollowed'
    BY <1>1 DEF ReportInv, CandidatesFollowed, OneRunShown
<1>5. ASSUME NEW rowsOf, RowsAgree(rowsOf)
      PROVE  RowsAgree(rowsOf)'
  <2>1. ShownAs(rowsOf)' <=> ShownAs(rowsOf)
      BY DEF ShownAs
  <2> QED BY <1>1, <1>5, <2>1 DEF RowsAgree
<1> QED BY <1>2, <1>3, <1>4, <1>5 DEF ReportInv

LEMMA ReportStays == ReportInv /\ [ReportNext]_reportVars => ReportInv'
<1> SUFFICES ASSUME ReportInv, [ReportNext]_reportVars PROVE ReportInv'
    OBVIOUS
<1>1. ASSUME NEW v \in Validator, BeginCheck(v) PROVE ReportInv'
  <2>1. PICK found \in Findings :
            BeginScript(v, [pc |-> "candidates", run |-> runsBegun + 1, rows |-> RowsFor(baseFirms, found)])
      BY <1>1 DEF BeginCheck
  <2> DEFINE new == [pc |-> "candidates", run |-> runsBegun + 1, rows |-> RowsFor(baseFirms, found)]
  <2>2. runsBegun + 1 \in 1 .. MaxReportRuns
      BY <2>1, ValidationReportAssumption DEF BeginScript, ReportInv, ReportTyped
  <2>3. [run |-> new.run, rows |-> new.rows] \in ReportFile
      BY <2>2 DEF ReportFile, ReportInv, ReportTyped
  <2>4. new.pc = "candidates" /\ new.run = runsBegun + 1 /\ new = [pc |-> new.pc, run |-> new.run, rows |-> new.rows]
      OBVIOUS
  <2>5. BeginScript(v, new)
      BY <2>1
  <2> HIDE DEF new
  <2>6. RunRecord(new)
      BY <2>3, <2>4 DEF RunRecord
  <2> QED BY <2>4, <2>5, <2>6, BeginKeeps
<1>2. ASSUME NEW v \in Validator, BeginFull(v) PROVE ReportInv'
  <2>1. PICK firms : BeginScript(v, [pc |-> "results", run |-> runsBegun + 1,
                                     report |-> [full |-> runsBegun + 1, firms |-> firms]])
      BY <1>2 DEF BeginFull
  <2> DEFINE new == [pc |-> "results", run |-> runsBegun + 1,
                     report |-> [full |-> runsBegun + 1, firms |-> firms]]
  <2>2. new.pc = "results" /\ new.run = runsBegun + 1 /\ new.report.full = runsBegun + 1
      OBVIOUS
  <2>3. BeginScript(v, new)
      BY <2>1
  <2> HIDE DEF new
  <2> QED BY <2>2, <2>3, BeginKeeps DEF RunRecord
<1>3. ASSUME NEW v \in Validator, BeginMerging(v) PROVE ReportInv'
  <2> DEFINE new == [pc |-> "report", run |-> runsBegun + 1]
  <2>1. BeginScript(v, new) /\ new.pc = "report" /\ new.run = runsBegun + 1
      BY <1>3 DEF BeginMerging
  <2> HIDE DEF new
  <2> QED BY <2>1, BeginKeeps DEF RunRecord
<1>4. ASSUME NEW v \in Validator, WriteFile(v) PROVE ReportInv'
    BY <1>4, WriteCandidatesKeeps, WriteResultsKeeps DEF WriteFile
<1>5. ASSUME NEW firms \in BaseFirms, ChangeBase(firms) PROVE ReportInv'
    BY <1>5, RestKeeps DEF ChangeBase
<1>6. ASSUME UNCHANGED reportVars PROVE ReportInv'
  <2>1. baseFirms' \in BaseFirms
      BY <1>6 DEF reportVars, ReportInv, ReportTyped
  <2> QED BY <1>6, <2>1, RestKeeps DEF reportVars
<1> QED BY <1>1, <1>2, <1>3, <1>4, <1>5, <1>6, ReadReportKeeps, ReadResultsKeeps, ReadCandidatesKeeps,
           PublishKeeps, StopKeeps DEF ReportNext

-----------------------------------------------------------------------------

LEMMA RowsAreJudged ==
    ASSUME NEW f \in ReportFile, NEW c \in DOMAIN f.rows
    PROVE  DOMAIN f.rows[c].status # {}
<1>1. PICK firms \in BaseFirms, found \in Findings : f.rows = RowsFor(firms, found)
    BY DEF ReportFile
<1>2. c \in DOMAIN found /\ f.rows[c] = found[c]
    BY <1>1, ValidationReportAssumption DEF RowsFor
<1> QED BY <1>2, ValidationReportAssumption

LEMMA ReportInvIsEnough == ReportInv => OneRunShown /\ WorstComesFirst /\ EveryFirmJudged
<1> SUFFICES ASSUME ReportInv, Shown PROVE WorstComesFirst /\ EveryFirmJudged
    BY DEF ReportInv, CandidatesFollowed, WorstComesFirst, EveryFirmJudged
<1>1. PICK rowsOf : RowsAgree(rowsOf)
    BY DEF ReportInv
<1>2. PICK results \in Files, evidence \in Files :
          /\ Keeps(rowsOf, results) /\ Keeps(rowsOf, evidence)
          /\ results # NoReportFile => webReport.firms \subseteq DOMAIN results.rows
          /\ webReport.results = RunOf(results) /\ webReport.candidates = RunOf(evidence)
          /\ webReport.rows = [c \in webReport.firms |-> ShownResult(results, evidence, c)]
    BY <1>1 DEF RowsAgree, ShownAs
<1>3. DOMAIN webReport.rows = webReport.firms
      /\ \A c \in webReport.firms : webReport.rows[c] = ShownResult(results, evidence, c)
    BY <1>2
<1>4. CASE results = NoReportFile
  <2>1. \A c \in webReport.firms :
            webReport.rows[c] = [status |-> "BLOCKED", subjects |-> <<>>, shown |-> <<>>]
      BY <1>3, <1>4 DEF ShownResult
  <2>2. webReport.results = 0
      BY <1>2, <1>4 DEF RunOf
  <2>3. \A c \in webReport.firms :
            webReport.rows[c].subjects = <<>> /\ webReport.rows[c].status = "BLOCKED"
      BY <2>1
  <2>4. DOMAIN <<>> = {}
      OBVIOUS
  <2> QED BY <1>3, <2>2, <2>3, <2>4 DEF WorstComesFirst, EveryFirmJudged
<1>5. CASE results # NoReportFile
  <2>1. webReport.results # 0 /\ results \in ReportFile /\ RunOf(results) = results.run
      BY <1>2, <1>5, FilesHaveRuns
  <2>2. ASSUME NEW c \in webReport.firms
        PROVE  /\ webReport.rows[c].status =
                     MonitorStatus({results.rows[c].status[s] : s \in DOMAIN results.rows[c].status})
               /\ webReport.rows[c].subjects =
                     [s \in DOMAIN results.rows[c].status |-> MonitorStatus({results.rows[c].status[s]})]
               /\ webReport.rows[c].shown =
                     IF evidence = NoReportFile \/ c \notin DOMAIN evidence.rows THEN <<>>
                     ELSE evidence.rows[c].candidates
    <3>1. webReport.rows[c] = ShownResult(results, evidence, c)
        BY <1>3
    <3>2. ShownResult(results, evidence, c) =
              [status |-> MonitorStatus({results.rows[c].status[s] : s \in DOMAIN results.rows[c].status}),
               subjects |-> [s \in DOMAIN results.rows[c].status |-> MonitorStatus({results.rows[c].status[s]})],
               shown |-> IF evidence = NoReportFile \/ c \notin DOMAIN evidence.rows THEN <<>>
                         ELSE evidence.rows[c].candidates]
        BY <1>5 DEF ShownResult
    <3> QED BY <3>1, <3>2
  <2>3. \A c \in webReport.firms : DOMAIN results.rows[c].status # {}
      BY <1>2, <1>5, <2>1, RowsAreJudged
  <2>4. EveryFirmJudged
    <3>1. ASSUME NEW c \in webReport.firms PROVE webReport.rows[c].subjects # <<>>
      <4>1. DOMAIN webReport.rows[c].subjects = DOMAIN results.rows[c].status
          BY <2>2
      <4>2. DOMAIN webReport.rows[c].subjects # {}
          BY <2>3, <4>1
      <4>3. DOMAIN <<>> = {}
          OBVIOUS
      <4> QED BY <4>2, <4>3
    <3> QED BY <1>3, <2>1, <3>1 DEF EveryFirmJudged
  <2>5. ASSUME NEW c \in webReport.firms, NEW s \in DOMAIN webReport.rows[c].subjects
        PROVE  /\ webReport.rows[c].subjects[s] = "BLOCKED" => webReport.rows[c].status = "BLOCKED"
               /\ webReport.rows[c].subjects[s] = "ALERT" => webReport.rows[c].status # "CLEAR"
               /\ (webReport.candidates = webReport.results /\ RunOf(resultFile) = webReport.results) =>
                      webReport.rows[c].shown[s] = resultFile.rows[c].candidates[s]
    <3> DEFINE found == results.rows[c].status
    <3>1. s \in DOMAIN found /\ webReport.rows[c].subjects[s] = MonitorStatus({found[s]})
        BY <2>2
    <3>2. found[s] \in {found[x] : x \in DOMAIN found}
        BY <3>1
    <3>3. webReport.rows[c].status = MonitorStatus({found[x] : x \in DOMAIN found})
        BY <2>2
    <3>4. /\ webReport.rows[c].subjects[s] = "BLOCKED" => webReport.rows[c].status = "BLOCKED"
          /\ webReport.rows[c].subjects[s] = "ALERT" => webReport.rows[c].status # "CLEAR"
      <4> DEFINE all == {found[x] : x \in DOMAIN found}
                 one == found[s]
      <4>1. one \in all /\ webReport.rows[c].status = MonitorStatus(all)
            /\ webReport.rows[c].subjects[s] = MonitorStatus({one})
          BY <3>1, <3>2, <3>3
      <4> HIDE DEF all, one, found
      <4> QED BY <4>1 DEF MonitorStatus
    <3>5. ASSUME webReport.candidates = webReport.results, RunOf(resultFile) = webReport.results
          PROVE  webReport.rows[c].shown[s] = resultFile.rows[c].candidates[s]
      <4>1. evidence # NoReportFile /\ evidence.run = webReport.results
          BY <1>2, <2>1, <3>5, FilesHaveRuns
      <4>2. results.run = webReport.results
          BY <1>2, <2>1
      <4>3. evidence.rows = results.rows
          BY <1>2, <1>5, <4>1, <4>2 DEF Keeps
      <4>4. c \in DOMAIN evidence.rows
          BY <1>2, <1>5, <4>3
      <4>5. resultFile \in Files
          BY DEF ReportInv, ReportTyped
      <4>6. resultFile # NoReportFile /\ resultFile.run = webReport.results
          BY <2>1, <3>5, <4>5, FilesHaveRuns
      <4>7. Keeps(rowsOf, resultFile)
          BY <1>1 DEF RowsAgree
      <4>8. resultFile.rows = evidence.rows
          BY <1>2, <4>1, <4>6, <4>7 DEF Keeps
      <4> QED BY <2>2, <4>1, <4>4, <4>8
    <3> QED BY <3>4, <3>5
  <2>6. WorstComesFirst
      BY <1>3, <2>5 DEF WorstComesFirst
  <2> QED BY <2>4, <2>6
<1> QED BY <1>4, <1>5

LEMMA NothingGoesBackSteps == ReportInv /\ [ReportNext]_reportVars => [NothingGoesBack]_reportVars
<1> SUFFICES ASSUME ReportInv, ReportNext, webReport' # webReport PROVE NothingGoesBack
    BY DEF NothingGoesBack, reportVars
<1>1. PICK v \in Validator : PublishReport(v)
    BY DEF ReportNext, BeginCheck, BeginFull, BeginMerging, BeginScript, WriteFile, ReadReport, ReadResults,
           ReadCandidates, StopRun, ChangeBase, Quiet
<1>2. validators[v].pc = "publish" /\ webReport' = Published(validators[v]) /\ v \in BusyValidators
    BY <1>1 DEF PublishReport, BusyValidators
<1>3. ASSUME NEW u \in Validator, validators[u].pc = "publish", validators[u].run \notin disturbed
      PROVE  u = v
    BY <1>2, <1>3 DEF BusyValidators, ReportInv, RunsMet
<1>4. webReport'.results = RunOf(validators[v].results) /\ webReport'.full = validators[v].report.full
    BY <1>2 DEF Published
<1>5. ASSUME validators[v].run \notin disturbed
      PROVE  /\ validators[v].results = resultFile
             /\ Shown => validators[v].report.full >= webReport.full
    BY <1>2, <1>5 DEF ReportInv, Undisturbed, WithReport
<1>6. Shown => webReport.results \in disturbed \/ RunOf(resultFile) >= webReport.results
    BY DEF ReportInv, ResultsGrow
<1> QED BY <1>3, <1>4, <1>5, <1>6 DEF NothingGoesBack, RunOf

\* What the report shows is of one run, judged for every company with the worst
\* first, and no run that met no other takes it back
\* (run_real_tax_adjustment_validation.py:1239).
THEOREM ReportsAreSound == ReportSpec => ReportSound
<1>1. ReportSpec => []ReportInv
    BY ReportStarts, ReportStays, PTL DEF ReportSpec
<1> QED BY <1>1, ReportInvIsEnough, NothingGoesBackSteps, PTL DEF ReportSpec, ReportSound
=============================================================================
