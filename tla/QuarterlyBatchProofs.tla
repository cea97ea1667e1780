------------------------ MODULE QuarterlyBatchProofs ------------------------
(***************************************************************************)
(* Proofs about QuarterlyBatch, for any set of companies, any number of    *)
(* canvases and retries, and any of the faults it knows.                   *)
(***************************************************************************)
EXTENDS QuarterlyBatch, FiniteSetTheorems, TLAPS

-----------------------------------------------------------------------------
(* Facts about the operators.                                              *)

\* The number of rows in a state is a number.
LEMMA NumberInNat ==
    ASSUME NEW s
    PROVE  NumberIn(s) \in Nat
<1>1. RowsIn({s}) \in SUBSET Company
    BY DEF RowsIn
<1>2. IsFiniteSet(RowsIn({s}))
    BY <1>1, FS_Subset, CompanyAssumption
<1> QED
    BY <1>2, FS_CardinalityType DEF NumberIn

\* How a delivery ends changes the broker, the header and the fault budget only
\* within their types.
LEMMA CompleteType ==
    ASSUME TypeOK,
           NEW m \in Message, NEW next \in SUBSET Message,
           NEW result \in {"none", "outcome", "emergency", "scope"},
           Complete(m, next, result)
    PROVE  /\ msgs' \in SUBSET Message
           /\ header' \in [Canvas -> [Company -> {"none", "outcome", "emergency", "scope"}]]
           /\ faults' \in Nat
<1>1. msgs' \in SUBSET Message
    BY DEF Complete, TypeOK
<1>2. m[1] \in Canvas /\ m[2] \in Company
    BY DEF Message
<1>3. header' \in [Canvas -> [Company -> {"none", "outcome", "emergency", "scope"}]]
  <2> DEFINE Results == {"none", "outcome", "emergency", "scope"}
             reported == [header[m[1]] EXCEPT ![m[2]] = IF @ = "none" THEN result ELSE @]
  <2>1. header[m[1]] \in [Company -> Results]
    BY <1>2 DEF TypeOK
  <2>2. reported \in [Company -> Results]
    BY <1>2, <2>1
  <2>3. header' = header \/ header' = [header EXCEPT ![m[1]] = reported]
    BY DEF Complete
  <2> QED
    BY <1>2, <2>2, <2>3 DEF TypeOK
<1>4. faults' \in Nat
    BY DEF Complete, Fault, TypeOK
<1> QED
    BY <1>1, <1>3, <1>4

\* A message may be retried while it has retries left.
LEMMA AgainType ==
    ASSUME NEW k \in Canvas, NEW c \in Company, NEW r \in 0 .. MaxRetries,
           r < MaxRetries
    PROVE  Again(<<k, c, r>>) \in SUBSET Message
<1>1. r + 1 \in 0 .. MaxRetries
    BY BoundAssumption
<1> QED
    BY <1>1 DEF Again, Message

\* A finished or pending row is a row.
LEMMA RowType ==
    /\ \A s \in Active \cup Settled, k \in Canvas : FinishedRow(s, k) \in Row
    /\ \A b \in BOOLEAN : PendingRow(b) \in Row
BY DEF FinishedRow, PendingRow, Row, Active, Settled

-----------------------------------------------------------------------------
(* Type correctness.                                                       *)

LEMMA InitType == Init => TypeOK
<1> SUFFICES ASSUME Init PROVE TypeOK
    OBVIOUS
<1>1. [PendingRow(FALSE) EXCEPT !.status = "ABSENT"] \in Row
    BY DEF PendingRow, Row
<1> QED
    BY <1>1 DEF Init, TypeOK, Run

LEMMA NextType == TypeOK /\ [Next]_vars => TypeOK'
<1> SUFFICES ASSUME TypeOK, [Next]_vars PROVE TypeOK'
    OBVIOUS
<1>1. ASSUME NEW k \in Canvas, CreateBatch(k) PROVE TypeOK'
    BY <1>1, RowType DEF CreateBatch, Plan, TypeOK, Run
<1>2. ASSUME NEW k \in Canvas, ResumeBatch(k) PROVE TypeOK'
    BY <1>2 DEF ResumeBatch, Plan, RowsIn, TypeOK
<1>3. ASSUME NEW k \in Canvas, Dispatch(k) PROVE TypeOK'
  <2>1. msgs' \in SUBSET Message
    <3>1. PICK sent \in SUBSET canvas[k].members :
                msgs' = msgs \cup {<<k, c, 0>> : c \in sent}
        BY <1>3 DEF Dispatch
    <3>2. canvas[k].members \in SUBSET Company
        BY DEF TypeOK
    <3>3. 0 \in 0 .. MaxRetries
        BY BoundAssumption
    <3> QED
        BY <3>1, <3>2, <3>3 DEF TypeOK, Message
  <2> QED
    BY <1>3, <2>1 DEF Dispatch, TypeOK
<1>4. ASSUME NEW k \in Canvas, RetryFailed(k) PROVE TypeOK'
  <2>1. row' \in [Company -> Row]
    <3>1. \A c \in Company : row[c].attempted \in BOOLEAN
        BY DEF TypeOK, Row
    <3> QED
        BY <1>4, <3>1, RowType DEF RetryFailed, TypeOK
  <2>2. run' \in Run
    BY <1>4, NumberInNat DEF RetryFailed, Run
  <2> QED
    BY <1>4, <2>1, <2>2 DEF RetryFailed, Plan, RowsIn, TypeOK
<1>5. ASSUME NEW k \in Canvas, ReconcileHeader(k) PROVE TypeOK'
  <2>1. row' \in [Company -> Row]
    BY <1>5, RowType DEF ReconcileHeader, TypeOK, Settled
  <2> QED
    BY <1>5, <2>1 DEF ReconcileHeader, TypeOK
<1>6. ASSUME NEW k \in Canvas, Summarize(k) PROVE TypeOK'
  <2>1. BatchStatus \in Terminal \cup {"RUNNING"}
    BY DEF BatchStatus, Terminal
  <2>2. run' \in Run
    BY <1>6, <2>1, NumberInNat DEF Summarize, Run, OutputReady
  <2> QED
    BY <1>6, <2>2 DEF Summarize, TypeOK
<1>7. ASSUME NEW k \in Canvas, RedeliverBody(k) PROVE TypeOK'
    BY <1>7 DEF RedeliverBody, Fault, TypeOK
<1>8. ASSUME NEW c \in Company, LoseWorker(c) PROVE TypeOK'
    BY <1>8 DEF LoseWorker, Fault, TypeOK
<1>9. ASSUME NEW k \in Canvas, NEW c \in Company, NEW r \in 0 .. MaxRetries, Deliver(k, c, r)
      PROVE  TypeOK'
  <2> DEFINE m == <<k, c, r>>
  <2>0. m \in Message /\ {} \in SUBSET Message
    BY DEF Message
  <2>1. CASE RejectScope(k, c, r)
    <3>1. Complete(m, {}, "scope")
        BY <2>1 DEF RejectScope
    <3> HIDE DEF m
    <3> QED
        BY <2>0, <2>1, <3>1, CompleteType DEF RejectScope, TypeOK
  <2>2. CASE ReturnCurrent(k, c, r)
    <3>1. Complete(m, {}, "outcome")
        BY <2>2 DEF ReturnCurrent
    <3> HIDE DEF m
    <3> QED
        BY <2>0, <2>2, <3>1, CompleteType DEF ReturnCurrent, TypeOK
  <2>3. CASE BeginAttempt(k, c, r)
    BY <2>3 DEF BeginAttempt, TypeOK, Exec
  <2>4. CASE Calculate(k, c, r)
    BY <2>4 DEF Calculate, TypeOK, Exec
  <2>5. ASSUME NEW s \in Active \cup Settled, Commit(c, s), exec[c].canvas = k
        PROVE  /\ run' \in Run /\ row' \in [Company -> Row] /\ detections' \in SUBSET Company
               /\ exec' \in [Company -> Exec \cup {NoExec}]
               /\ canvas' = canvas /\ body' = body
    BY <2>5, RowType DEF Commit, TypeOK
  <2>6. CASE FinishSucceeded(k, c, r)
    <3>1. Complete(m, {}, "outcome") /\ Commit(c, "SUCCEEDED") /\ exec[c].canvas = k
        BY <2>6 DEF FinishSucceeded, Executing
    <3> HIDE DEF m
    <3> QED
        BY <2>0, <2>5, <3>1, CompleteType DEF TypeOK, Settled
  <2>7. CASE FinishBlocked(k, c, r)
    <3>1. Complete(m, {}, "outcome") /\ Commit(c, "BLOCKED") /\ exec[c].canvas = k
        BY <2>7 DEF FinishBlocked, Executing
    <3> HIDE DEF m
    <3> QED
        BY <2>0, <2>5, <3>1, CompleteType DEF TypeOK, Settled
  <2>8. CASE FinishRetryPending(k, c, r)
    <3>1. Complete(m, Again(m), "none") /\ Commit(c, "RETRY_PENDING") /\ exec[c].canvas = k
        BY <2>8 DEF FinishRetryPending, Executing
    <3>2. Again(m) \in SUBSET Message
        BY <2>8, AgainType DEF FinishRetryPending
    <3> HIDE DEF m
    <3> QED
        BY <2>0, <2>5, <3>1, <3>2, CompleteType DEF TypeOK, Active
  <2>9. CASE FinishFailed(k, c, r)
    <3>1. Complete(m, {}, "outcome") /\ Commit(c, "FAILED") /\ exec[c].canvas = k
        BY <2>9 DEF FinishFailed, Executing
    <3> HIDE DEF m
    <3> QED
        BY <2>0, <2>5, <3>1, CompleteType DEF TypeOK, Settled
  <2>10. CASE Raise(k, c, r)
    <3>1. \E next \in SUBSET Message, result \in {"none", "emergency"} :
                Complete(m, next, result)
        BY <2>0, <2>10, AgainType DEF Raise
    <3>2. exec' \in [Company -> Exec \cup {NoExec}]
        BY <2>10 DEF Raise, TypeOK
    <3> HIDE DEF m
    <3> QED
        BY <2>0, <2>10, <3>1, <3>2, CompleteType DEF Raise, TypeOK
  <2> QED
    BY <1>9, <2>1, <2>2, <2>3, <2>4, <2>6, <2>7, <2>8, <2>9, <2>10 DEF Deliver
<1>10. CASE UNCHANGED vars
    BY <1>10 DEF vars, TypeOK
<1> QED
    BY <1>1, <1>2, <1>3, <1>4, <1>5, <1>6, <1>7, <1>8, <1>9, <1>10 DEF Next

\* Every variable keeps its type, whatever the number of companies, canvases,
\* retries and faults: in particular no retry is numbered past the limit.
THEOREM TypeCorrect == Spec => []TypeOK
BY InitType, NextType, PTL DEF Spec

-----------------------------------------------------------------------------
(* The inductive invariant.                                                *)

\* The run and its rows are created together, before any canvas.
CreatedTogether ==
    /\ \A c \in Company : row[c].status = "ABSENT" <=> run.status = "ABSENT"
    /\ run.status = "ABSENT" =>
          \A k \in Canvas : canvas[k].phase = "free" /\ body[k] = "waiting"

\* Terminal batches are exact because their rows cannot move, they cannot move
\* because attempts and reconciliations only touch active rows, and attempts
\* do because the locks keep a batch running around them: none of the parts is
\* inductive without the others.
Invariant ==
    /\ TypeOK
    /\ CreatedTogether
    /\ TerminalMeansSettled
    /\ TerminalSummaryExact
    /\ OutputBacked
    /\ AttemptIsolated

LEMMA InitInvariant == Init => Invariant
<1> SUFFICES ASSUME Init PROVE Invariant
    OBVIOUS
<1>1. TypeOK
    BY InitType
<1>2. \A c \in Company : row[c].status = "ABSENT"
    BY DEF Init, PendingRow
<1>3. /\ run.status = "ABSENT" /\ ~run.outputReady
      /\ \A c \in Company : exec[c] = NoExec
      /\ \A k \in Canvas : canvas[k].phase = "free" /\ body[k] = "waiting"
    BY DEF Init
<1> QED
    BY <1>1, <1>2, <1>3 DEF Invariant, CreatedTogether, TerminalMeansSettled,
        TerminalSummaryExact, OutputBacked, AttemptIsolated, Terminal

\* A step that leaves the run and the rows alone, drops attempts or turns an
\* eligible row of a running batch into one, and commits no detections but
\* those of an attempt, preserves the invariant.
LEMMA QuietStep ==
    ASSUME Invariant, TypeOK', UNCHANGED <<run, row>>,
           run.status = "ABSENT" => canvas' = canvas /\ body' = body,
           detections \subseteq detections',
           \A c \in detections' \ detections : exec[c] # NoExec,
           \A c \in Company : exec'[c] # NoExec =>
                /\ run.status = "RUNNING"
                /\ row[c].status \in {"PENDING", "RETRY_PENDING"}
                /\ row[c].status = "RETRY_PENDING" => exec'[c].canvas = row[c].owner
                /\ exec'[c].calculated => c \in detections'
    PROVE  Invariant'
<1>1. CreatedTogether' /\ TerminalMeansSettled'
    BY DEF Invariant, CreatedTogether, TerminalMeansSettled
<1>2. TerminalSummaryExact'
    BY DEF Invariant, TerminalSummaryExact, BatchStatus, NumberIn, RowsIn
<1>3. OutputBacked'
    BY DEF Invariant, OutputBacked, AttemptIsolated
<1>4. AttemptIsolated'
    BY DEF AttemptIsolated
<1> QED
    BY <1>1, <1>2, <1>3, <1>4 DEF Invariant

\* An attempt commits its row: the batch is running, so no summary is at stake.
LEMMA CommitStep ==
    ASSUME Invariant, TypeOK', NEW c \in Company, exec[c] # NoExec,
           NEW s \in {"SUCCEEDED", "BLOCKED", "RETRY_PENDING", "FAILED"}, Commit(c, s),
           s = "SUCCEEDED" => c \in detections,
           s = "BLOCKED" => c \notin detections
    PROVE  Invariant'
<1>1. run.status = "RUNNING" /\ run' = run /\ detections' = detections
    BY DEF Invariant, AttemptIsolated, Commit
<1>2. /\ row' = [row EXCEPT ![c] = FinishedRow(s, exec[c].canvas)]
      /\ exec' = [exec EXCEPT ![c] = NoExec]
    BY DEF Commit
<1>3. /\ row'[c].status = s
      /\ \A d \in Company \ {c} : row'[d] = row[d] /\ exec'[d] = exec[d]
      /\ exec'[c] = NoExec
    BY <1>2 DEF Invariant, TypeOK, FinishedRow
<1>4. CreatedTogether'
    BY <1>1, <1>3 DEF Invariant, CreatedTogether, AttemptIsolated
<1>5. TerminalMeansSettled' /\ TerminalSummaryExact'
    BY <1>1 DEF TerminalMeansSettled, TerminalSummaryExact, Terminal
<1>6. ~run.outputReady
  <2>1. row[c].status # "SUCCEEDED"
    BY DEF Invariant, AttemptIsolated
  <2> QED
    BY <2>1 DEF Invariant, OutputBacked
<1>7. OutputBacked'
    BY <1>1, <1>3, <1>6 DEF Invariant, OutputBacked
<1>8. AttemptIsolated'
    BY <1>1, <1>3 DEF Invariant, AttemptIsolated
<1> QED
    BY <1>4, <1>5, <1>7, <1>8 DEF Invariant

\* The summary counts the rows it reads, and is terminal only without active ones.
LEMMA SummaryStatus ==
    /\ BatchStatus \in Terminal \cup {"RUNNING"}
    /\ BatchStatus \in Terminal <=> RowsIn(Active) = {}
BY DEF BatchStatus, Terminal

\* A reconciled emergency settles active rows, hence nothing of a terminal batch.
LEMMA ReconcileStep ==
    ASSUME Invariant, TypeOK', NEW k \in Canvas, ReconcileHeader(k)
    PROVE  Invariant'
<1>1. run' = run /\ exec' = exec /\ detections' = detections
    BY DEF ReconcileHeader
<1>2. Exhausted(k) \subseteq Company
    BY DEF Exhausted, Emergencies, Invariant, TypeOK
<1>3. \A c \in Exhausted(k) : row[c].status \in Active /\ exec[c] = NoExec
    BY DEF Exhausted, ReconcileHeader, Unlocked, Active
<1>4. \A c \in Company : row'[c] = IF c \in Exhausted(k) THEN FinishedRow("FAILED", k)
                                   ELSE row[c]
    BY DEF ReconcileHeader
<1>5. \A c \in Exhausted(k) : row'[c].status = "FAILED"
    BY <1>2, <1>4 DEF FinishedRow
<1>6. CASE run.status \in Terminal
  <2>1. Exhausted(k) = {}
    BY <1>2, <1>3, <1>6 DEF Invariant, TerminalMeansSettled, Active, Settled
  <2>2. row' = row
    BY <2>1 DEF ReconcileHeader, Invariant, TypeOK
  <2> QED
    BY <1>1, <1>6, <2>2, QuietStep DEF Invariant, AttemptIsolated, Terminal
<1>7. CASE run.status \notin Terminal
  <2>1. TerminalMeansSettled' /\ TerminalSummaryExact'
    BY <1>1, <1>7 DEF TerminalMeansSettled, TerminalSummaryExact
  <2>2. CreatedTogether'
    <3>1. run.status # "ABSENT"
        BY DEF ReconcileHeader, HeaderComplete, Invariant, CreatedTogether
    <3>2. \A c \in Company : row[c].status # "ABSENT"
        BY <3>1 DEF Invariant, CreatedTogether
    <3>3. \A c \in Company : row'[c].status # "ABSENT"
        BY <1>4, <1>5, <3>2
    <3> QED
        BY <1>1, <3>1, <3>3 DEF CreatedTogether
  <2>3. OutputBacked'
    <3>1. run.outputReady => Exhausted(k) = {}
        BY <1>2, <1>3 DEF Invariant, OutputBacked, Active
    <3> QED
        BY <1>1, <1>2, <1>4, <1>5, <3>1 DEF Invariant, OutputBacked
  <2>4. AttemptIsolated'
    BY <1>1, <1>3, <1>4 DEF Invariant, AttemptIsolated
  <2> QED
    BY <2>1, <2>2, <2>3, <2>4 DEF Invariant
<1> QED
    BY <1>6, <1>7

\* A summary makes the run say what its rows say.
LEMMA SummarizeStep ==
    ASSUME Invariant, TypeOK', NEW k \in Canvas, Summarize(k)
    PROVE  Invariant'
<1>1. row' = row /\ exec' = exec /\ detections' = detections
    BY DEF Summarize
<1>2. /\ run'.status = BatchStatus
      /\ run'.succeeded = NumberIn("SUCCEEDED")
      /\ run'.blocked = NumberIn("BLOCKED")
      /\ run'.failed = NumberIn("FAILED")
      /\ run'.finished = (RowsIn(Active) = {})
      /\ run'.outputReady = OutputReady
    BY DEF Summarize
<1>3. run.status # "ABSENT"
    BY DEF Summarize, Invariant, CreatedTogether
<1>4. CreatedTogether'
    BY <1>1, <1>2, <1>3, SummaryStatus DEF Invariant, CreatedTogether, Terminal
<1>5. TerminalMeansSettled'
  <2>1. \A c \in Company : row[c].status \in Active \cup Settled
    BY <1>3 DEF Invariant, CreatedTogether, TypeOK, Row
  <2> QED
    BY <1>1, <1>2, <2>1, SummaryStatus DEF TerminalMeansSettled, RowsIn
<1>6. TerminalSummaryExact'
  <2>1. BatchStatus' = BatchStatus
    BY <1>1 DEF BatchStatus, NumberIn, RowsIn
  <2>2. \A s : NumberIn(s)' = NumberIn(s)
    BY <1>1 DEF NumberIn, RowsIn
  <2> QED
    BY <1>2, <2>1, <2>2, SummaryStatus DEF TerminalSummaryExact
<1>7. OutputBacked'
    BY <1>1, <1>2 DEF Invariant, OutputBacked, OutputReady
<1>8. AttemptIsolated'
    BY <1>1 DEF Summarize, RunUnlocked, Unlocked, AttemptIsolated
<1> QED
    BY <1>4, <1>5, <1>6, <1>7, <1>8 DEF Invariant

\* Manual retry reopens the batch with the failed rows pending again.
LEMMA RetryFailedStep ==
    ASSUME Invariant, TypeOK', NEW k \in Canvas, RetryFailed(k)
    PROVE  Invariant'
<1>1. /\ run'.status = "RUNNING" /\ run'.outputReady = FALSE
      /\ detections' = detections /\ exec' = exec
    BY DEF RetryFailed
<1>2. \A c \in Company : row'[c] = IF row[c].status = "FAILED"
                                   THEN PendingRow(row[c].attempted) ELSE row[c]
    BY DEF RetryFailed
<1>3. \A c \in Company : row[c].status # "ABSENT"
    BY DEF RetryFailed, Invariant, CreatedTogether
<1>4. \A c \in Company : row'[c] = row[c] \/ row'[c].status = "PENDING"
  <2>1. \A b : PendingRow(b).status = "PENDING"
    BY DEF PendingRow
  <2> QED
    BY <1>2, <2>1
<1>5. CreatedTogether'
    BY <1>1, <1>3, <1>4 DEF CreatedTogether
<1>6. TerminalMeansSettled' /\ TerminalSummaryExact'
    BY <1>1 DEF TerminalMeansSettled, TerminalSummaryExact, Terminal
<1>7. OutputBacked'
    BY <1>1, <1>4 DEF Invariant, OutputBacked
<1>8. AttemptIsolated'
    BY <1>1 DEF RetryFailed, RunUnlocked, Unlocked, AttemptIsolated
<1> QED
    BY <1>5, <1>6, <1>7, <1>8 DEF Invariant

\* Creation puts every company into the pending state of a running batch.
LEMMA CreateStep ==
    ASSUME Invariant, TypeOK', NEW k \in Canvas, CreateBatch(k)
    PROVE  Invariant'
<1>1. /\ run'.status = "RUNNING" /\ run'.outputReady = run.outputReady
      /\ detections' = detections /\ exec' = exec
    BY DEF CreateBatch, Invariant, TypeOK, Run
<1>2. \A c \in Company : row'[c].status = "PENDING"
    BY DEF CreateBatch, PendingRow
<1>3. ~run.outputReady
  <2>1. PICK c \in Company : TRUE
    BY CompanyAssumption
  <2>2. row[c].status = "ABSENT"
    BY DEF CreateBatch, Invariant, CreatedTogether
  <2> QED
    BY <2>2 DEF Invariant, OutputBacked
<1>4. \A c \in Company : exec[c] = NoExec
    BY DEF CreateBatch, Invariant, AttemptIsolated
<1> QED
    BY <1>1, <1>2, <1>3, <1>4 DEF Invariant, CreatedTogether, TerminalMeansSettled,
        TerminalSummaryExact, OutputBacked, AttemptIsolated, Terminal

LEMMA NextInvariant == Invariant /\ [Next]_vars => Invariant'
<1> SUFFICES ASSUME Invariant, [Next]_vars PROVE Invariant'
    OBVIOUS
<1>0. TypeOK'
    BY NextType DEF Invariant
<1>1. ASSUME NEW k \in Canvas, ResumeBatch(k) PROVE Invariant'
    BY <1>0, <1>1, QuietStep DEF ResumeBatch, Invariant, AttemptIsolated
<1>2. ASSUME NEW k \in Canvas, Dispatch(k) PROVE Invariant'
    BY <1>0, <1>2, QuietStep DEF Dispatch, Invariant, AttemptIsolated, CreatedTogether
<1>3. ASSUME NEW k \in Canvas, RedeliverBody(k) PROVE Invariant'
    BY <1>0, <1>3, QuietStep DEF RedeliverBody, Invariant, AttemptIsolated, CreatedTogether
<1>4. ASSUME NEW c \in Company, LoseWorker(c) PROVE Invariant'
  <2>1. \A d \in Company : exec'[d] = exec[d] \/ exec'[d] = NoExec
    BY <1>4 DEF LoseWorker, Invariant, TypeOK
  <2> QED
    BY <1>0, <1>4, <2>1, QuietStep DEF LoseWorker, Invariant, AttemptIsolated
<1>5. ASSUME NEW k \in Canvas, NEW c \in Company, NEW r \in 0 .. MaxRetries, Deliver(k, c, r)
      PROVE  Invariant'
  <2>1. CASE RejectScope(k, c, r)
    BY <1>0, <2>1, QuietStep DEF RejectScope, Invariant, AttemptIsolated
  <2>2. CASE ReturnCurrent(k, c, r)
    BY <1>0, <2>2, QuietStep DEF ReturnCurrent, Invariant, AttemptIsolated
  <2>3. CASE BeginAttempt(k, c, r)
    <3>1. \A d \in Company \ {c} : exec'[d] = exec[d]
        BY <2>3 DEF BeginAttempt
    <3>2. ~exec'[c].calculated
        BY <2>3 DEF BeginAttempt, Invariant, TypeOK
    <3> QED
        BY <1>0, <2>3, <3>1, <3>2, QuietStep
        DEF BeginAttempt, Eligible, Invariant, AttemptIsolated
  <2>4. CASE Calculate(k, c, r)
    <3>1. exec[c] # NoExec
        BY <2>4, CanvasAssumption DEF Calculate, NoExec
    <3>2. \A d \in Company \ {c} : exec'[d] = exec[d]
        BY <2>4 DEF Calculate
    <3> QED
        BY <1>0, <2>4, <3>1, <3>2, QuietStep DEF Calculate, Invariant, AttemptIsolated
  <2>5. ASSUME Executing(k, c, r) PROVE exec[c] # NoExec
    BY <2>5, CanvasAssumption DEF Executing, NoExec
  <2>6. CASE FinishSucceeded(k, c, r)
    <3>1. exec[c] # NoExec /\ Commit(c, "SUCCEEDED") /\ c \in detections
        BY <2>5, <2>6 DEF FinishSucceeded, Invariant, AttemptIsolated
    <3> QED
        BY <1>0, <3>1, CommitStep
  <2>7. CASE FinishBlocked(k, c, r)
    <3>1. exec[c] # NoExec /\ Commit(c, "BLOCKED") /\ c \notin detections
        BY <2>5, <2>7 DEF FinishBlocked
    <3> QED
        BY <1>0, <3>1, CommitStep
  <2>8. CASE FinishRetryPending(k, c, r)
    <3>1. exec[c] # NoExec /\ Commit(c, "RETRY_PENDING")
        BY <2>5, <2>8 DEF FinishRetryPending
    <3> QED
        BY <1>0, <3>1, CommitStep
  <2>9. CASE FinishFailed(k, c, r)
    <3>1. exec[c] # NoExec /\ Commit(c, "FAILED")
        BY <2>5, <2>9 DEF FinishFailed
    <3> QED
        BY <1>0, <3>1, CommitStep
  <2>10. CASE Raise(k, c, r)
    <3>1. \A d \in Company : exec'[d] = exec[d] \/ exec'[d] = NoExec
        BY <2>10 DEF Raise, Invariant, TypeOK
    <3> QED
        BY <1>0, <2>10, <3>1, QuietStep DEF Raise, Invariant, AttemptIsolated
  <2> QED
    BY <1>5, <2>1, <2>2, <2>3, <2>4, <2>6, <2>7, <2>8, <2>9, <2>10 DEF Deliver
<1>6. CASE UNCHANGED vars
    BY <1>0, <1>6, QuietStep DEF vars, Invariant, AttemptIsolated
<1> QED
    BY <1>0, <1>1, <1>2, <1>3, <1>4, <1>5, <1>6, CreateStep, ReconcileStep, SummarizeStep,
       RetryFailedStep DEF Next

LEMMA InvariantHolds == Spec => []Invariant
BY InitInvariant, NextInvariant, PTL DEF Spec

-----------------------------------------------------------------------------
(* The safety properties.                                                  *)

\* A terminal batch has no company left to run.
THEOREM TerminalBatchesAreSettled == Spec => []TerminalMeansSettled
<1>1. Invariant => TerminalMeansSettled
    BY DEF Invariant
<1> QED
    BY <1>1, InvariantHolds, PTL

\* The counters and the status of a terminal batch agree with its rows.
THEOREM TerminalSummariesAreExact == Spec => []TerminalSummaryExact
<1>1. Invariant => TerminalSummaryExact
    BY DEF Invariant
<1> QED
    BY <1>1, InvariantHolds, PTL

\* What is announced as output, succeeded or blocked is backed by detections.
THEOREM OutputIsBacked == Spec => []OutputBacked
<1>1. Invariant => OutputBacked
    BY DEF Invariant
<1> QED
    BY <1>1, InvariantHolds, PTL

\* Attempts happen in running batches, on unsettled rows.
THEOREM AttemptsAreIsolated == Spec => []AttemptIsolated
<1>1. Invariant => AttemptIsolated
    BY DEF Invariant
<1> QED
    BY <1>1, InvariantHolds, PTL

-----------------------------------------------------------------------------
(* What a step may never do to a row.                                      *)

\* How any step of the system changes the rows: not at all, by creating the
\* batch, by committing one attempt, by reconciling, or by a manual retry.
LEMMA RowSteps ==
    ASSUME Invariant, [Next]_vars, row' # row
    PROVE  \/ \E k \in Canvas : CreateBatch(k) \/ ReconcileHeader(k) \/ RetryFailed(k)
           \/ \E c \in Company, s \in {"SUCCEEDED", "BLOCKED", "RETRY_PENDING", "FAILED"} :
                 exec[c] # NoExec /\ Commit(c, s)
<1>1. ASSUME NEW k \in Canvas, NEW c \in Company, NEW r \in 0 .. MaxRetries, Deliver(k, c, r)
      PROVE  \E s \in {"SUCCEEDED", "BLOCKED", "RETRY_PENDING", "FAILED"} :
                 exec[c] # NoExec /\ Commit(c, s)
  <2>1. ASSUME Executing(k, c, r) PROVE exec[c] # NoExec
    BY <2>1, CanvasAssumption DEF Executing, NoExec
  <2>2. CASE RejectScope(k, c, r) \/ ReturnCurrent(k, c, r) \/ BeginAttempt(k, c, r)
             \/ Calculate(k, c, r) \/ Raise(k, c, r)
    BY <2>2 DEF RejectScope, ReturnCurrent, BeginAttempt, Calculate, Raise
  <2>3. CASE FinishSucceeded(k, c, r)
    BY <2>1, <2>3 DEF FinishSucceeded
  <2>4. CASE FinishBlocked(k, c, r)
    BY <2>1, <2>4 DEF FinishBlocked
  <2>5. CASE FinishRetryPending(k, c, r)
    BY <2>1, <2>5 DEF FinishRetryPending
  <2>6. CASE FinishFailed(k, c, r)
    BY <2>1, <2>6 DEF FinishFailed
  <2> QED
    BY <1>1, <2>2, <2>3, <2>4, <2>5, <2>6 DEF Deliver
<1>2. ASSUME NEW k \in Canvas,
             ResumeBatch(k) \/ Dispatch(k) \/ Summarize(k) \/ RedeliverBody(k)
      PROVE  FALSE
    BY <1>2 DEF ResumeBatch, Dispatch, Summarize, RedeliverBody
<1>3. ASSUME NEW c \in Company, LoseWorker(c) PROVE FALSE
    BY <1>3 DEF LoseWorker
<1> QED
    BY <1>1, <1>2, <1>3 DEF Next, vars

\* An attempt finishes a pending row or a retry of its own.
LEMMA CommitRow ==
    ASSUME Invariant, NEW c \in Company, exec[c] # NoExec,
           NEW s \in {"SUCCEEDED", "BLOCKED", "RETRY_PENDING", "FAILED"}, Commit(c, s)
    PROVE  /\ run.status = "RUNNING" /\ run' = run
           /\ row[c].status \in {"PENDING", "RETRY_PENDING"}
           /\ row[c].status = "RETRY_PENDING" => row'[c].owner = row[c].owner
           /\ row'[c].status = s
           /\ \A d \in Company \ {c} : row'[d] = row[d]
<1>1. row' = [row EXCEPT ![c] = FinishedRow(s, exec[c].canvas)]
    BY DEF Commit
<1>2. row'[c] = FinishedRow(s, exec[c].canvas) /\ \A d \in Company \ {c} : row'[d] = row[d]
    BY <1>1 DEF Invariant, TypeOK
<1>3. row'[c].status = s /\ row'[c].owner = exec[c].canvas
    BY <1>2 DEF FinishedRow
<1> QED
    BY <1>2, <1>3 DEF Invariant, AttemptIsolated, Commit

\* A reconciliation fails the exhausted rows, each active and with no owner
\* but the canvas, and touches no other.
LEMMA ReconcileRow ==
    ASSUME Invariant, NEW k \in Canvas, ReconcileHeader(k), NEW c \in Company
    PROVE  /\ run' = run
           /\ \/ row'[c] = row[c]
              \/ /\ row[c].status \in Active
                 /\ row[c].status = "RETRY_PENDING" => row[c].owner = k
                 /\ row'[c].status = "FAILED" /\ row'[c].owner = k
<1>1. row'[c] = IF c \in Exhausted(k) THEN FinishedRow("FAILED", k) ELSE row[c]
    BY DEF ReconcileHeader
<1>2. FinishedRow("FAILED", k).status = "FAILED" /\ FinishedRow("FAILED", k).owner = k
    BY DEF FinishedRow
<1>3. c \in Exhausted(k) => /\ row[c].status \in Active
                            /\ row[c].status = "RETRY_PENDING" => row[c].owner = k
    BY DEF Exhausted, Active
<1> QED
    BY <1>1, <1>2, <1>3 DEF ReconcileHeader

\* A manual retry makes the failed rows pending again and touches no other.
LEMMA RetryFailedRow ==
    ASSUME NEW k \in Canvas, RetryFailed(k), NEW c \in Company
    PROVE  \/ row[c].status # "FAILED" /\ row'[c] = row[c]
           \/ row[c].status = "FAILED" /\ row'[c].status = "PENDING"
<1>1. \A b : PendingRow(b).status = "PENDING"
    BY DEF PendingRow
<1> QED
    BY <1>1 DEF RetryFailed

LEMMA StepKeepsRows == Invariant /\ [Next]_vars => ResultsKept /\ OwnerKept
<1> SUFFICES ASSUME Invariant, [Next]_vars PROVE ResultsKept /\ OwnerKept
    OBVIOUS
<1>1. CASE row' = row
    BY <1>1 DEF ResultsKept, OwnerKept
<1>2. ASSUME NEW k \in Canvas, CreateBatch(k) PROVE ResultsKept /\ OwnerKept
    BY <1>2 DEF CreateBatch, Invariant, CreatedTogether, ResultsKept, OwnerKept
<1>3. ASSUME NEW k \in Canvas, ReconcileHeader(k) PROVE ResultsKept /\ OwnerKept
    BY <1>3, ReconcileRow DEF Active, ResultsKept, OwnerKept
<1>4. ASSUME NEW k \in Canvas, RetryFailed(k) PROVE ResultsKept /\ OwnerKept
  <2>1. run.status \in Terminal /\ run'.status = "RUNNING"
    BY <1>4 DEF RetryFailed, Terminal
  <2> QED
    BY <1>4, <2>1, RetryFailedRow DEF ResultsKept, OwnerKept
<1>5. ASSUME NEW c \in Company, NEW s \in {"SUCCEEDED", "BLOCKED", "RETRY_PENDING", "FAILED"},
             exec[c] # NoExec, Commit(c, s)
      PROVE  ResultsKept /\ OwnerKept
    BY <1>5, CommitRow DEF ResultsKept, OwnerKept
<1> QED
    BY <1>1, <1>2, <1>3, <1>4, <1>5, RowSteps

\* Succeeded and blocked companies keep their results for ever, failed ones
\* until a manual retry of the terminal batch.
THEOREM ResultsAreFinal == Spec => ResultsFinal
<1>1. Invariant /\ [Next]_vars => [ResultsKept]_vars
    BY StepKeepsRows
<1> QED
    BY <1>1, InvariantHolds, PTL DEF Spec, ResultsFinal

\* A scheduled retry is ended by the task that owns it and by no other.
THEOREM RetryOwnershipIsKept == Spec => RetryOwnershipKept
<1>1. Invariant /\ [Next]_vars => [OwnerKept]_vars
    BY StepKeepsRows
<1> QED
    BY <1>1, InvariantHolds, PTL DEF Spec, RetryOwnershipKept

-----------------------------------------------------------------------------
(* The contract.                                                           *)

\* The result of company c as the contract sees it.
Result(c) == IF row[c].status \in Settled THEN row[c].status ELSE "open"

\* Counting the successes tells whether all, some or no companies succeeded.
LEMMA SuccessCount ==
    /\ NumberIn("SUCCEEDED") = Cardinality(Company)
          <=> \A c \in Company : row[c].status = "SUCCEEDED"
    /\ NumberIn("SUCCEEDED") > 0 <=> \E c \in Company : row[c].status = "SUCCEEDED"
<1> DEFINE S == RowsIn({"SUCCEEDED"})
<1>1. S \in SUBSET Company /\ S = {c \in Company : row[c].status = "SUCCEEDED"}
    BY DEF RowsIn
<1>2. IsFiniteSet(S) /\ (Cardinality(S) = Cardinality(Company) => S = Company)
    BY <1>1, FS_Subset, CompanyAssumption
<1>3. Cardinality(S) \in Nat /\ (Cardinality(S) = 0 <=> S = {})
    BY <1>2, FS_CardinalityType, FS_EmptySet
<1>4. NumberIn("SUCCEEDED") = Cardinality(S)
    BY DEF NumberIn
<1> HIDE DEF S
<1>5. Cardinality(S) > 0 <=> S # {}
    BY <1>3
<1>6. Cardinality(S) = Cardinality(Company) <=> S = Company
    BY <1>2
<1> QED
    BY <1>1, <1>4, <1>5, <1>6

\* Without active rows the status of the summary is the closing status.
LEMMA SummaryCloses ==
    ASSUME RowsIn(Active) = {}, \A c \in Company : row[c].status \in Active \cup Settled
    PROVE  BatchStatus = Contract!ClosingStatus
<1>1. \A c \in Company : row[c].status = "SUCCEEDED" <=> Result(c) = "SUCCEEDED"
    BY DEF Result, Settled
<1> QED
    BY <1>1, SuccessCount DEF BatchStatus, Contract!ClosingStatus, Result

\* The initial states are those of the contract.
LEMMA InitContract == Init => Contract!Init
<1> SUFFICES ASSUME Init PROVE Contract!Init
    OBVIOUS
<1>1. run.status = "ABSENT"
    BY DEF Init
<1>2. \A c \in Company : row[c].status = "ABSENT"
    BY DEF Init, PendingRow
<1> QED
    BY <1>1, <1>2 DEF Contract!Init, Settled

\* Only creation, summaries and manual retries write the run.
LEMMA RunSteps ==
    ASSUME [Next]_vars, run' # run
    PROVE  \E k \in Canvas : CreateBatch(k) \/ Summarize(k) \/ RetryFailed(k)
<1>1. ASSUME NEW k \in Canvas, NEW c \in Company, NEW r \in 0 .. MaxRetries, Deliver(k, c, r)
      PROVE  FALSE
    BY <1>1 DEF Deliver, RejectScope, ReturnCurrent, BeginAttempt, Calculate, FinishSucceeded,
        FinishBlocked, FinishRetryPending, FinishFailed, Commit, Raise
<1>2. ASSUME NEW k \in Canvas,
             ResumeBatch(k) \/ Dispatch(k) \/ ReconcileHeader(k) \/ RedeliverBody(k)
      PROVE  FALSE
    BY <1>2 DEF ResumeBatch, Dispatch, ReconcileHeader, RedeliverBody
<1>3. ASSUME NEW c \in Company, LoseWorker(c) PROVE FALSE
    BY <1>3 DEF LoseWorker
<1> QED
    BY <1>1, <1>2, <1>3 DEF Next, vars

\* While the batch runs, giving results to open companies is what it is for.
LEMMA SettleStep ==
    ASSUME run.status = "RUNNING", run'.status = run.status,
           \A c \in Company : Result(c) # "open" => Result(c)' = Result(c)
    PROVE  Contract!Settle
BY DEF Contract!Settle, Contract!Outcomes, Result, Settled

\* Every step is one of the contract's, or none of its business.
LEMMA StepContract ==
    Invariant /\ [Next]_vars =>
        Contract!Next \/ (run'.status = run.status /\ \A c \in Company : Result(c)' = Result(c))
<1> DEFINE Stutter == run'.status = run.status /\ \A c \in Company : Result(c)' = Result(c)
<1> SUFFICES ASSUME Invariant, [Next]_vars PROVE Contract!Next \/ Stutter
    OBVIOUS
<1>1. ASSUME NEW k \in Canvas, CreateBatch(k) PROVE Contract!Create
  <2>1. \A b : PendingRow(b).status = "PENDING"
    BY DEF PendingRow
  <2>2. \A c \in Company : Result(c) = "open" /\ Result(c)' = "open"
    BY <1>1, <2>1 DEF CreateBatch, Invariant, CreatedTogether, Result, Settled
  <2>3. run.status = "ABSENT" /\ run'.status = "RUNNING"
    BY <1>1 DEF CreateBatch, Invariant, TypeOK, Run
  <2> QED
    BY <2>2, <2>3 DEF Contract!Create, Result
<1>2. ASSUME NEW k \in Canvas, ReconcileHeader(k) PROVE Contract!Settle \/ Stutter
  <2>1. run'.status = run.status
    BY <1>2 DEF ReconcileHeader
  <2>2. \A c \in Company : row'[c] = row[c] \/ (Result(c) = "open" /\ Result(c)' = "FAILED")
    BY <1>2, ReconcileRow DEF Result, Active, Settled
  <2>3. CASE run.status = "RUNNING"
    <3>1. \A c \in Company : Result(c) # "open" => Result(c)' = Result(c)
        BY <2>2 DEF Result
    <3> QED
        BY <2>1, <2>3, <3>1, SettleStep
  <2>4. CASE run.status \in Terminal
    <3>1. \A c \in Company : Result(c) # "open"
        BY <2>4 DEF Invariant, TerminalMeansSettled, Result, Settled
    <3>2. \A c \in Company : row'[c] = row[c]
        BY <2>2, <3>1
    <3> QED
        BY <2>1, <3>2 DEF Result
  <2>5. run.status # "ABSENT"
    BY <1>2 DEF ReconcileHeader, HeaderComplete, Invariant, CreatedTogether
  <2> QED
    BY <2>3, <2>4, <2>5 DEF Invariant, TypeOK, Run
<1>3. ASSUME NEW k \in Canvas, RetryFailed(k) PROVE Contract!Reopen
  <2>1. run.status \in {"PARTIAL_SUCCESS", "FAILED"} /\ run'.status = "RUNNING"
    BY <1>3 DEF RetryFailed
  <2>2. \A c \in Company : Result(c)' = IF Result(c) = "FAILED" THEN "open" ELSE Result(c)
    BY <1>3, RetryFailedRow DEF Result, Settled
  <2> QED
    BY <2>1, <2>2 DEF Contract!Reopen, Result
<1>4. ASSUME NEW c \in Company, NEW s \in {"SUCCEEDED", "BLOCKED", "RETRY_PENDING", "FAILED"},
             exec[c] # NoExec, Commit(c, s)
      PROVE  Contract!Settle
  <2>1. run.status = "RUNNING" /\ run' = run /\ Result(c) = "open"
    BY <1>4, CommitRow DEF Result, Settled
  <2>2. \A d \in Company \ {c} : Result(d)' = Result(d)
    BY <1>4, CommitRow DEF Result
  <2> QED
    BY <2>1, <2>2, SettleStep
<1>5. ASSUME NEW k \in Canvas, Summarize(k) PROVE Contract!Close \/ Stutter
  <2>1. row' = row /\ run'.status = BatchStatus
    BY <1>5 DEF Summarize
  <2>2. \A c \in Company : Result(c)' = Result(c)
    BY <2>1 DEF Result
  <2>3. run.status # "ABSENT" /\ \A c \in Company : row[c].status \in Active \cup Settled
    BY <1>5 DEF Summarize, Invariant, CreatedTogether, TypeOK, Row
  <2>4. CASE run.status \in Terminal
    BY <2>1, <2>2, <2>4 DEF Invariant, TerminalSummaryExact
  <2>5. CASE run.status = "RUNNING" /\ RowsIn(Active) # {}
    BY <2>1, <2>2, <2>5 DEF BatchStatus
  <2>6. CASE run.status = "RUNNING" /\ RowsIn(Active) = {}
    <3>1. run'.status = Contract!ClosingStatus
        BY <2>1, <2>3, <2>6, SummaryCloses
    <3>2. \A c \in Company : Result(c) # "open"
        BY <2>3, <2>6 DEF Result, RowsIn, Settled
    <3> QED
        BY <2>2, <2>6, <3>1, <3>2 DEF Contract!Close, Result
  <2> QED
    BY <2>3, <2>4, <2>5, <2>6 DEF Invariant, TypeOK, Run
<1>6. CASE row' = row /\ run' = run
    BY <1>6 DEF Result
<1> QED
    BY <1>1, <1>2, <1>3, <1>4, <1>5, <1>6, RowSteps, RunSteps DEF Contract!Next

\* Whatever the queue loses or repeats, callers see the batch of BatchContract:
\* results only while it runs, a status that is due to them, and no reopening
\* but for failed companies.
THEOREM BatchKeepsContract == Spec => KeepsContract
<1>1. Invariant /\ [Next]_vars =>
        [Contract!Next]_<<run.status, [c \in Company |-> IF row[c].status \in Settled
                                                         THEN row[c].status ELSE "open"]>>
    BY StepContract DEF Result
<1> QED
    BY <1>1, InitContract, InvariantHolds, PTL DEF Spec, KeepsContract, Contract!Spec

-----------------------------------------------------------------------------
(* Scheduled retries.  A broker that neither hands a message out twice nor *)
(* lets a task be rejected still crashes workers, redelivers and loses     *)
(* parts of a dispatch.                                                    *)

\* No message is handed out twice, and no task is rejected.
Undoubled == Faults \subseteq {"crash", "partial"}

\* A task of a canvas is one message until it has reported, and never again.
TaskOnce ==
    \A k \in Canvas, c \in Company :
        /\ \A r, q \in 0 .. MaxRetries : <<k, c, r>> \in msgs /\ <<k, c, q>> \in msgs => r = q
        /\ (\E r \in 0 .. MaxRetries : <<k, c, r>> \in msgs) => header[k][c] = "none"
        /\ (\E r \in 0 .. MaxRetries : <<k, c, r>> \in msgs) \/ header[k][c] # "none" =>
              canvas[k].phase = "sent" /\ c \in canvas[k].members

\* A summary task has begun only when every task has reported.
BodiesLate == \A k \in Canvas : body[k] # "waiting" => HeaderComplete(k)

\* A scheduled retry has an owner.
RetryOwned == \A c \in Company : row[c].status = "RETRY_PENDING" => row[c].owner \in Canvas

\* Why no retry is orphaned: its message is the only one of its task, so when it
\* goes the task has not reported yet, and its emergency is not reconciled yet.
Queue == TaskOnce /\ BodiesLate /\ RetryOwned /\ RetryNotOrphaned

\* Nothing of the queue changes.
LEMMA QueueStays ==
    ASSUME Queue, UNCHANGED <<msgs, header, body>>,
           \A k \in Canvas : canvas[k].phase = "sent" => canvas'[k] = canvas[k],
           \A c \in Company : row'[c].status = "RETRY_PENDING" => row'[c] = row[c]
    PROVE  Queue'
<1>1. TaskOnce'
    BY DEF Queue, TaskOnce
<1>2. BodiesLate'
    BY DEF Queue, BodiesLate, HeaderComplete
<1>3. RetryOwned' /\ RetryNotOrphaned'
    BY DEF Queue, RetryOwned, RetryNotOrphaned
<1> QED
    BY <1>1, <1>2, <1>3 DEF Queue

\* A delivery ends by replacing its message or reporting, or not at all.
LEMMA DeliveryEnds ==
    ASSUME Undoubled, TypeOK, Queue, NEW k \in Canvas, NEW c \in Company, NEW r \in 0 .. MaxRetries,
           NEW next, NEW result, <<k, c, r>> \in msgs,
           \/ next = {} /\ result \in {"outcome", "emergency"}
           \/ r < MaxRetries /\ next = Again(<<k, c, r>>) /\ result = "none",
           Complete(<<k, c, r>>, next, result), canvas' = canvas, body' = body
    PROVE  /\ TaskOnce' /\ BodiesLate'
           /\ \A j \in Canvas, d \in Company : j # k \/ d # c =>
                /\ header'[j][d] = header[j][d]
                /\ \A q \in 0 .. MaxRetries : <<j, d, q>> \in msgs' <=> <<j, d, q>> \in msgs
           /\ body'[k] = "waiting"
           /\ \/ \E q \in 0 .. MaxRetries : <<k, c, q>> \in msgs'
              \/ next = {} /\ header'[k][c] = result
<1> DEFINE m == <<k, c, r>>
<1>1. CASE UNCHANGED <<msgs, header>>
  <2>1. TaskOnce' /\ BodiesLate'
    BY <1>1 DEF Queue, TaskOnce, BodiesLate, HeaderComplete
  <2>2. body[k] = "waiting"
    BY DEF Queue, TaskOnce, BodiesLate, HeaderComplete
  <2> QED
    BY <1>1, <2>1, <2>2
<1>2. CASE /\ msgs' = (msgs \ {m}) \cup next
           /\ header' = [header EXCEPT ![m[1]][m[2]] = IF @ = "none" THEN result ELSE @]
  <2>1. /\ header[k][c] = "none" /\ canvas[k].phase = "sent" /\ c \in canvas[k].members
        /\ \A q \in 0 .. MaxRetries : <<k, c, q>> \in msgs => q = r
    BY DEF Queue, TaskOnce
  <2>2. body[k] = "waiting"
    BY <2>1 DEF Queue, BodiesLate, HeaderComplete
  <2>3. /\ header'[k][c] = result
        /\ \A j \in Canvas, d \in Company : j # k \/ d # c => header'[j][d] = header[j][d]
    <3>1. header' = [header EXCEPT ![k] = [header[k] EXCEPT ![c] = result]]
      BY <1>2, <2>1
    <3>2. header[k] \in [Company -> {"none", "outcome", "emergency", "scope"}]
      BY DEF TypeOK
    <3>3. header'[k] = [header[k] EXCEPT ![c] = result] /\ \A j \in Canvas : j # k => header'[j] = header[j]
      BY <3>1 DEF TypeOK
    <3> QED
      BY <3>2, <3>3
  <2>4. \A j \in Canvas, d \in Company, q \in 0 .. MaxRetries :
          <<j, d, q>> \in msgs' <=> \/ <<j, d, q>> \in msgs /\ <<j, d, q>> # m
                                   \/ <<j, d, q>> \in next
    BY <1>2
  <2>5. \A j \in Canvas, d \in Company : j # k \/ d # c =>
          \A q \in 0 .. MaxRetries : <<j, d, q>> \in msgs' <=> <<j, d, q>> \in msgs
    BY <2>4 DEF Again
  <2>6. CASE next = {} /\ result \in {"outcome", "emergency"}
    <3>1. \A q \in 0 .. MaxRetries : <<k, c, q>> \notin msgs'
      BY <2>1, <2>4, <2>6
    <3>2. TaskOnce'
      <4>1. ASSUME NEW j \in Canvas, NEW d \in Company
            PROVE  /\ \A p, q \in 0 .. MaxRetries : <<j, d, p>> \in msgs' /\ <<j, d, q>> \in msgs' => p = q
                   /\ (\E q \in 0 .. MaxRetries : <<j, d, q>> \in msgs') => header'[j][d] = "none"
                   /\ (\E q \in 0 .. MaxRetries : <<j, d, q>> \in msgs') \/ header'[j][d] # "none" =>
                        canvas'[j].phase = "sent" /\ d \in canvas'[j].members
        <5>1. CASE j = k /\ d = c
          BY <2>1, <3>1, <5>1
        <5>2. CASE j # k \/ d # c
          BY <2>3, <2>5, <5>2 DEF Queue, TaskOnce
        <5> QED
          BY <5>1, <5>2
      <4> QED
        BY <4>1 DEF TaskOnce
    <3>3. BodiesLate'
      BY <2>3, <2>6 DEF Queue, BodiesLate, HeaderComplete, TypeOK
    <3> QED
      BY <2>2, <2>3, <2>5, <2>6, <3>2, <3>3
  <2>7. CASE r < MaxRetries /\ next = Again(m) /\ result = "none"
    <3>1. r + 1 \in 0 .. MaxRetries /\ r + 1 # r
      BY <2>7, BoundAssumption
    <3>2. next = {<<k, c, r + 1>>}
      BY <2>7 DEF Again
    <3>3. \A q \in 0 .. MaxRetries : <<k, c, q>> \in msgs' <=> q = r + 1
      BY <2>1, <2>4, <3>1, <3>2
    <3>4. TaskOnce'
      <4>1. ASSUME NEW j \in Canvas, NEW d \in Company
            PROVE  /\ \A p, q \in 0 .. MaxRetries : <<j, d, p>> \in msgs' /\ <<j, d, q>> \in msgs' => p = q
                   /\ (\E q \in 0 .. MaxRetries : <<j, d, q>> \in msgs') => header'[j][d] = "none"
                   /\ (\E q \in 0 .. MaxRetries : <<j, d, q>> \in msgs') \/ header'[j][d] # "none" =>
                        canvas'[j].phase = "sent" /\ d \in canvas'[j].members
        <5>1. CASE j = k /\ d = c
          BY <2>1, <2>3, <2>7, <3>3, <5>1
        <5>2. CASE j # k \/ d # c
          BY <2>3, <2>5, <5>2 DEF Queue, TaskOnce
        <5> QED
          BY <5>1, <5>2
      <4> QED
        BY <4>1 DEF TaskOnce
    <3>5. BodiesLate'
      <4>1. ASSUME NEW j \in Canvas, body'[j] # "waiting" PROVE HeaderComplete(j)'
        <5>1. j # k /\ HeaderComplete(j)
          BY <2>2, <4>1 DEF Queue, BodiesLate
        <5>2. canvas[j].members \subseteq Company
          BY DEF TypeOK
        <5> QED
          BY <2>3, <5>1, <5>2 DEF HeaderComplete
      <4> QED
        BY <4>1 DEF BodiesLate
    <3> QED
      BY <2>2, <2>3, <2>5, <3>1, <3>3, <3>4, <3>5
  <2> QED
    BY <2>6, <2>7
<1> QED
    BY <1>1, <1>2 DEF Complete, Fault, Undoubled

\* A delivery that leaves the rows alone, unless it ends without a report the
\* task that owns a scheduled retry.
LEMMA DeliveryKeepsRows ==
    ASSUME Undoubled, TypeOK, Queue, NEW k \in Canvas, NEW c \in Company, NEW r \in 0 .. MaxRetries,
           NEW next, NEW result, <<k, c, r>> \in msgs,
           \/ next = {} /\ result \in {"outcome", "emergency"}
           \/ r < MaxRetries /\ next = Again(<<k, c, r>>) /\ result = "none",
           Complete(<<k, c, r>>, next, result), UNCHANGED <<row, canvas, body>>,
           result = "outcome" => ~Eligible(k, c)
    PROVE  Queue'
<1>1. /\ TaskOnce' /\ BodiesLate'
      /\ \A j \in Canvas, d \in Company : j # k \/ d # c =>
           /\ header'[j][d] = header[j][d]
           /\ \A q \in 0 .. MaxRetries : <<j, d, q>> \in msgs' <=> <<j, d, q>> \in msgs
      /\ body'[k] = "waiting"
      /\ \/ \E q \in 0 .. MaxRetries : <<k, c, q>> \in msgs'
         \/ next = {} /\ header'[k][c] = result
    BY DeliveryEnds
<1>2. ASSUME NEW d \in Company, row[d].status = "RETRY_PENDING"
      PROVE  \/ \E q \in 0 .. MaxRetries : <<row[d].owner, d, q>> \in msgs'
             \/ header'[row[d].owner][d] = "emergency" /\ body'[row[d].owner] = "waiting"
  <2>1. row[d].owner \in Canvas
    BY <1>2 DEF Queue, RetryOwned
  <2>2. CASE row[d].owner = k /\ d = c
    <3>1. result # "outcome"
      BY <1>2, <2>2 DEF Eligible
    <3>2. next = {} => result = "emergency"
      BY <3>1 DEF Again
    <3> QED
      BY <1>1, <2>2, <3>2
  <2>3. CASE row[d].owner # k \/ d # c
    BY <1>1, <1>2, <2>1, <2>3 DEF Queue, RetryNotOrphaned
  <2> QED
    BY <2>2, <2>3
<1>3. RetryOwned' /\ RetryNotOrphaned'
    BY <1>2 DEF Queue, RetryOwned, RetryNotOrphaned
<1> QED
    BY <1>1, <1>3 DEF Queue

\* An attempt commits its row: settled, or with the next message of its task.
LEMMA AttemptKeepsRetries ==
    ASSUME Undoubled, TypeOK, Queue, NEW k \in Canvas, NEW c \in Company, NEW r \in 0 .. MaxRetries,
           NEW status, NEW next, NEW result, Executing(k, c, r), Commit(c, status),
           \/ next = {} /\ result = "outcome" /\ status \in Settled
           \/ /\ r < MaxRetries /\ next = Again(<<k, c, r>>) /\ result = "none"
              /\ status = "RETRY_PENDING",
           Complete(<<k, c, r>>, next, result)
    PROVE  Queue'
<1>1. /\ TaskOnce' /\ BodiesLate'
      /\ \A j \in Canvas, d \in Company : j # k \/ d # c =>
           /\ header'[j][d] = header[j][d]
           /\ \A q \in 0 .. MaxRetries : <<j, d, q>> \in msgs' <=> <<j, d, q>> \in msgs
      /\ body'[k] = "waiting"
      /\ \/ \E q \in 0 .. MaxRetries : <<k, c, q>> \in msgs'
         \/ next = {} /\ header'[k][c] = result
    BY DeliveryEnds DEF Executing, Commit
<1>2. /\ row'[c].status = status /\ row'[c].owner = k
      /\ \A d \in Company : d # c => row'[d] = row[d]
      /\ body' = body
    BY DEF Executing, Commit, FinishedRow, TypeOK
<1>3. ASSUME NEW d \in Company, row'[d].status = "RETRY_PENDING"
      PROVE  /\ row'[d].owner \in Canvas
             /\ \/ \E q \in 0 .. MaxRetries : <<row'[d].owner, d, q>> \in msgs'
                \/ header'[row'[d].owner][d] = "emergency" /\ body'[row'[d].owner] = "waiting"
  <2>1. CASE d = c
    <3>1. next # {}
      BY <1>2, <1>3, <2>1 DEF Settled, Again
    <3> QED
      BY <1>1, <1>2, <2>1, <3>1
  <2>2. CASE d # c
    BY <1>1, <1>2, <1>3, <2>2 DEF Queue, RetryOwned, RetryNotOrphaned
  <2> QED
    BY <2>1, <2>2
<1>4. RetryOwned' /\ RetryNotOrphaned'
    BY <1>3 DEF RetryOwned, RetryNotOrphaned
<1> QED
    BY <1>1, <1>4 DEF Queue

LEMMA DeliverQueue ==
    ASSUME Undoubled, TypeOK, Queue, NEW k \in Canvas, NEW c \in Company, NEW r \in 0 .. MaxRetries,
           Deliver(k, c, r)
    PROVE  Queue'
<1>1. ~RejectScope(k, c, r)
    BY DEF RejectScope, Undoubled
<1>2. CASE ReturnCurrent(k, c, r)
    BY <1>2, DeliveryKeepsRows DEF ReturnCurrent
<1>3. CASE BeginAttempt(k, c, r)
    BY <1>3, QueueStays DEF BeginAttempt
<1>4. CASE Calculate(k, c, r)
    BY <1>4, QueueStays DEF Calculate
<1>5. CASE FinishSucceeded(k, c, r)
    BY <1>5, AttemptKeepsRetries DEF FinishSucceeded, Settled
<1>6. CASE FinishBlocked(k, c, r)
    BY <1>6, AttemptKeepsRetries DEF FinishBlocked, Settled
<1>7. CASE FinishRetryPending(k, c, r)
    BY <1>7, AttemptKeepsRetries DEF FinishRetryPending
<1>8. CASE FinishFailed(k, c, r)
    BY <1>8, AttemptKeepsRetries DEF FinishFailed, Settled
<1>9. CASE Raise(k, c, r)
    BY <1>9, DeliveryKeepsRows DEF Raise
<1> QED
    BY <1>1, <1>2, <1>3, <1>4, <1>5, <1>6, <1>7, <1>8, <1>9 DEF Deliver

\* A plan that is sent: the messages of a canvas that had none.
LEMMA DispatchQueue ==
    ASSUME TypeOK, Queue, NEW k \in Canvas, Dispatch(k)
    PROVE  Queue'
<1>1. PICK sent \in SUBSET canvas[k].members : msgs' = msgs \cup {<<k, c, 0>> : c \in sent}
    BY DEF Dispatch
<1>2. /\ canvas[k].phase = "planned" /\ canvas'[k].phase = "sent"
      /\ canvas'[k].members = canvas[k].members
      /\ \A j \in Canvas : j # k => canvas'[j] = canvas[j]
      /\ UNCHANGED <<row, header, body>>
    BY DEF Dispatch, TypeOK
<1>3. \A c \in Company : header[k][c] = "none" /\ \A q \in 0 .. MaxRetries : <<k, c, q>> \notin msgs
    BY <1>2 DEF Queue, TaskOnce
<1>4. TaskOnce'
  <2>1. ASSUME NEW j \in Canvas, NEW d \in Company
        PROVE  /\ \A p, q \in 0 .. MaxRetries : <<j, d, p>> \in msgs' /\ <<j, d, q>> \in msgs' => p = q
               /\ (\E q \in 0 .. MaxRetries : <<j, d, q>> \in msgs') => header'[j][d] = "none"
               /\ (\E q \in 0 .. MaxRetries : <<j, d, q>> \in msgs') \/ header'[j][d] # "none" =>
                    canvas'[j].phase = "sent" /\ d \in canvas'[j].members
    <3>1. CASE j = k
      <4>1. \A q \in 0 .. MaxRetries : <<k, d, q>> \in msgs' <=> q = 0 /\ d \in sent
        BY <1>1, <1>3, BoundAssumption
      <4> QED
        BY <1>1, <1>2, <1>3, <3>1, <4>1
    <3>2. CASE j # k
      <4>1. \A q \in 0 .. MaxRetries : <<j, d, q>> \in msgs' <=> <<j, d, q>> \in msgs
        BY <1>1, <3>2
      <4> QED
        BY <1>2, <3>2, <4>1 DEF Queue, TaskOnce
    <3> QED
      BY <3>1, <3>2
  <2> QED
    BY <2>1 DEF TaskOnce
<1>5. BodiesLate'
    BY <1>2 DEF Queue, BodiesLate, HeaderComplete
<1>6. RetryOwned' /\ RetryNotOrphaned'
    BY <1>1, <1>2 DEF Queue, RetryOwned, RetryNotOrphaned
<1> QED
    BY <1>4, <1>5, <1>6 DEF Queue

\* A summary task that reconciles its header fails the retries its own tasks gave up.
LEMMA ReconcileQueue ==
    ASSUME TypeOK, Queue, NEW k \in Canvas, ReconcileHeader(k)
    PROVE  Queue'
<1>1. /\ HeaderComplete(k) /\ UNCHANGED <<msgs, header, canvas>>
      /\ body' = [body EXCEPT ![k] = "reconciled"]
      /\ \A c \in Company : row'[c] = IF c \in Exhausted(k) THEN FinishedRow("FAILED", k) ELSE row[c]
    BY DEF ReconcileHeader
<1>2. \A j \in Canvas : j # k => body'[j] = body[j]
    BY <1>1 DEF TypeOK
<1>3. TaskOnce' /\ BodiesLate'
    BY <1>1, <1>2 DEF Queue, TaskOnce, BodiesLate, HeaderComplete
<1>4. ASSUME NEW c \in Company, row'[c].status = "RETRY_PENDING"
      PROVE  /\ row'[c].owner \in Canvas
             /\ \/ \E q \in 0 .. MaxRetries : <<row'[c].owner, c, q>> \in msgs'
                \/ header'[row'[c].owner][c] = "emergency" /\ body'[row'[c].owner] = "waiting"
  <2>1. c \notin Exhausted(k) /\ row'[c] = row[c]
    BY <1>1, <1>4 DEF FinishedRow
  <2>2. row[c].owner \in Canvas
    BY <1>4, <2>1 DEF Queue, RetryOwned
  <2>3. CASE row[c].owner = k
    <3>1. header[k][c] # "emergency"
      BY <1>4, <2>1, <2>3 DEF Exhausted, Emergencies, Queue, TaskOnce
    <3> QED
      BY <1>1, <1>4, <2>1, <2>2, <2>3, <3>1 DEF Queue, RetryNotOrphaned
  <2>4. CASE row[c].owner # k
    BY <1>1, <1>2, <1>4, <2>1, <2>2, <2>4 DEF Queue, RetryNotOrphaned
  <2> QED
    BY <2>3, <2>4
<1>5. RetryOwned' /\ RetryNotOrphaned'
    BY <1>4 DEF RetryOwned, RetryNotOrphaned
<1> QED
    BY <1>3, <1>5 DEF Queue

\* A new plan: rows that wait for it are pending, no retry is scheduled by it.
LEMMA PlanQueue ==
    ASSUME TypeOK, Queue, NEW k \in Canvas, canvas[k].phase = "free",
           NEW cs, Plan(k, cs), UNCHANGED <<msgs, header, body>>,
           \A c \in Company : row'[c].status = "RETRY_PENDING" => row'[c] = row[c]
    PROVE  Queue'
<1>1. \A j \in Canvas : j # k => canvas'[j] = canvas[j]
    BY DEF Plan, TypeOK
<1> QED
    BY <1>1, QueueStays

\* The summary task and its redelivery.
LEMMA BodyQueue ==
    ASSUME TypeOK, Queue, NEW k \in Canvas, Summarize(k) \/ RedeliverBody(k)
    PROVE  Queue'
<1>1. /\ UNCHANGED <<row, msgs, header, canvas>> /\ body[k] # "waiting"
      /\ \A j \in Canvas : j # k => body'[j] = body[j]
    BY DEF Summarize, RedeliverBody, TypeOK
<1>2. TaskOnce'
    BY <1>1 DEF Queue, TaskOnce
<1>3. BodiesLate'
    BY <1>1 DEF Queue, BodiesLate, HeaderComplete
<1>4. RetryOwned' /\ RetryNotOrphaned'
    BY <1>1 DEF Queue, RetryOwned, RetryNotOrphaned
<1> QED
    BY <1>2, <1>3, <1>4 DEF Queue

LEMMA InitQueue == Init => Queue
<1> SUFFICES ASSUME Init PROVE Queue
    OBVIOUS
<1>1. \A c \in Company : row[c].status = "ABSENT"
    BY DEF Init, PendingRow
<1> QED
    BY <1>1 DEF Init, Queue, TaskOnce, BodiesLate, RetryOwned, RetryNotOrphaned

LEMMA NextQueue == Undoubled /\ TypeOK /\ Queue /\ [Next]_vars => Queue'
<1> SUFFICES ASSUME Undoubled, TypeOK, Queue, [Next]_vars PROVE Queue'
    OBVIOUS
<1>1. ASSUME NEW k \in Canvas, CreateBatch(k) PROVE Queue'
  <2>1. \A c \in Company : row'[c].status = "PENDING"
    BY <1>1 DEF CreateBatch, PendingRow
  <2> QED
    BY <1>1, <2>1, PlanQueue DEF CreateBatch
<1>2. ASSUME NEW k \in Canvas, ResumeBatch(k) PROVE Queue'
    BY <1>2, PlanQueue DEF ResumeBatch
<1>3. ASSUME NEW k \in Canvas, RetryFailed(k) PROVE Queue'
  <2>1. \A c \in Company : row'[c].status = "RETRY_PENDING" => row'[c] = row[c]
    BY <1>3 DEF RetryFailed, PendingRow
  <2> QED
    BY <1>3, <2>1, PlanQueue DEF RetryFailed
<1>4. ASSUME NEW c \in Company, LoseWorker(c) PROVE Queue'
    BY <1>4, QueueStays DEF LoseWorker
<1>5. CASE UNCHANGED vars
    BY <1>5, QueueStays DEF vars
<1> QED
    BY <1>1, <1>2, <1>3, <1>4, <1>5, DispatchQueue, ReconcileQueue, BodyQueue, DeliverQueue DEF Next

\* With a broker that hands no message out twice, whatever crashes and whatever
\* part of a dispatch is lost, a scheduled retry keeps its message, or its
\* emergency until the summary has settled it.
THEOREM RetriesAreNotOrphaned == ASSUME Undoubled PROVE Spec => []RetryNotOrphaned
<1>1. TypeOK /\ Queue /\ [Next]_vars => Queue'
    BY NextQueue
<1>2. Queue => RetryNotOrphaned
    BY DEF Queue
<1> QED
    BY <1>1, <1>2, InitQueue, TypeCorrect, PTL DEF Spec
=============================================================================
