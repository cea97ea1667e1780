--------------------------- MODULE MonthlyRunProofs ---------------------------
(***************************************************************************)
(* Proofs about MonthlyRun, for any set of companies, any number of        *)
(* canvases and retries, and any of the faults it knows; and about         *)
(* SemanticCase, the cases of the detections that such runs route, for any *)
(* documents, vouchers and number of transactions.                         *)
(***************************************************************************)
EXTENDS MonthlyRun, SemanticCase, FiniteSetTheorems, TLAPS

-----------------------------------------------------------------------------
(* Facts about the operators.                                              *)

\* The number of rows in a state is a number.
LEMMA NumberInNat ==
    ASSUME NEW s
    PROVE  NumberIn(s) \in Nat
<1>1. RowsIn({s}) \in SUBSET Company
    BY DEF RowsIn
<1>2. IsFiniteSet(RowsIn({s}))
    BY <1>1, FS_Subset, CompanyAssumption
<1> QED
    BY <1>2, FS_CardinalityType DEF NumberIn

\* The header of a canvas takes what a task reports.
LEMMA HeaderType ==
    ASSUME TypeOK, NEW k \in Canvas, NEW c \in Company,
           NEW result \in {"none", "outcome", "error"},
           header' = [header EXCEPT ![k][c] = IF @ = "none" THEN result ELSE @]
    PROVE  header' \in [Canvas -> [Company -> {"none", "outcome", "error"}]]
<1> DEFINE Results == {"none", "outcome", "error"}
           reported == [header[k] EXCEPT ![c] = IF @ = "none" THEN result ELSE @]
<1>1. header[k] \in [Company -> Results]
    BY DEF TypeOK
<1>2. reported \in [Company -> Results]
    BY <1>1
<1>3. header' = [header EXCEPT ![k] = reported]
    OBVIOUS
<1> QED
    BY <1>2, <1>3 DEF TypeOK

Message == Canvas \X Company \X (0 .. MaxRetries)

\* How a delivery ends changes the broker, the header and the fault budget only
\* within their types.
LEMMA CompleteType ==
    ASSUME TypeOK,
           NEW m \in Message, NEW next \in SUBSET Message,
           NEW result \in {"none", "outcome", "error"},
           Complete(m, next, result)
    PROVE  /\ msgs' \in SUBSET Message
           /\ header' \in [Canvas -> [Company -> {"none", "outcome", "error"}]]
           /\ faults' \subseteq FaultKinds
<1>1. msgs' \in SUBSET Message
    BY DEF Complete, TypeOK, Message
<1>2. m[1] \in Canvas /\ m[2] \in Company
    BY DEF Message
<1>3. header' \in [Canvas -> [Company -> {"none", "outcome", "error"}]]
  <2>1. CASE header' = header
    BY <2>1 DEF TypeOK
  <2>2. CASE header' = [header EXCEPT ![m[1]][m[2]] = IF @ = "none" THEN result ELSE @]
    BY <1>2, <2>2, HeaderType
  <2> QED
    BY <2>1, <2>2 DEF Complete
<1>4. faults' \subseteq FaultKinds
    BY FaultAssumption DEF Complete, Fault, TypeOK
<1> QED
    BY <1>1, <1>3, <1>4

-----------------------------------------------------------------------------
(* Type correctness.                                                       *)

LEMMA InitType == Init => TypeOK
<1> SUFFICES ASSUME Init PROVE TypeOK
    OBVIOUS
<1>1. run \in Run
    BY DEF Init, Run
<1>2. exec \in Exec \cup {NoExec} /\ faults \subseteq FaultKinds
    BY DEF Init
<1> QED
    BY <1>1, <1>2 DEF Init, TypeOK, RowStatus, Terminal

LEMMA NextType == TypeOK /\ [Next]_vars => TypeOK'
<1> SUFFICES ASSUME TypeOK, [Next]_vars PROVE TypeOK'
    OBVIOUS
<1> USE FaultAssumption
<1>1. ASSUME NEW k \in Canvas, CreateRun(k) PROVE TypeOK'
  <2>1. run' \in Run
    BY <1>1 DEF CreateRun, TypeOK, Run
  <2> QED
    BY <1>1, <2>1 DEF CreateRun, Plan, TypeOK, RowStatus
<1>2. ASSUME NEW k \in Canvas, Resubmit(k) PROVE TypeOK'
  <2>1. run' \in Run
    BY <1>2 DEF Resubmit, TypeOK, Run
  <2>2. RowsIn({"PENDING"}) \in SUBSET Company
    BY DEF RowsIn
  <2> QED
    BY <1>2, <2>1, <2>2 DEF Resubmit, Plan, TypeOK
<1>3. ASSUME NEW k \in Canvas, NEW sent \in SUBSET canvas[k].members,
             NEW phase \in {"sent", "refused", "lost"}, Send(k, sent, phase)
      PROVE  faults' \subseteq FaultKinds => TypeOK'
  <2>1. canvas[k].members \in SUBSET Company /\ 0 \in 0 .. MaxRetries
    BY RetryAssumption DEF TypeOK
  <2>2. msgs' \in SUBSET (Canvas \X Company \X (0 .. MaxRetries))
    BY <1>3, <2>1 DEF Send, TypeOK
  <2>3. canvas' \in [Canvas -> [phase : {"free", "planned", "sent", "refused", "lost"},
                                members : SUBSET Company, origin : {"none", "post", "retry"}]]
    BY <1>3 DEF Send, TypeOK
  <2> QED
    BY <1>3, <2>2, <2>3 DEF Send, TypeOK
<1>4. ASSUME NEW k \in Canvas, Dispatch(k) PROVE TypeOK'
  <2>1. faults' \subseteq FaultKinds
    BY <1>4 DEF Dispatch, TypeOK
  <2>2. Send(k, canvas[k].members, "sent") /\ canvas[k].members \in SUBSET canvas[k].members
    BY <1>4 DEF Dispatch
  <2> QED
    BY <1>3, <2>1, <2>2
<1>5. ASSUME NEW k \in Canvas, DispatchRefused(k) PROVE TypeOK'
  <2>1. faults' \subseteq FaultKinds
    BY <1>5 DEF DispatchRefused, Fault, TypeOK
  <2>2. PICK sent \in SUBSET canvas[k].members :
            Send(k, sent, IF canvas[k].origin = "post" THEN "refused" ELSE "lost")
    BY <1>5 DEF DispatchRefused
  <2>3. Send(k, sent, "refused") \/ Send(k, sent, "lost")
    BY <2>2
  <2> QED
    BY <1>3, <2>1, <2>3
<1>6. ASSUME NEW k \in Canvas, MarkDispatchFailed(k) PROVE TypeOK'
  <2>1. run' \in Run
    BY <1>6, CompanyAssumption, FS_CardinalityType DEF MarkDispatchFailed, TypeOK, Run, Terminal
  <2> QED
    BY <1>6, <2>1, ZenonT(30) DEF MarkDispatchFailed, TypeOK
<1>7. ASSUME NEW k \in Canvas, Summarize(k) PROVE TypeOK'
  <2>1. RunStatus \in Terminal \cup {"RUNNING"}
    BY DEF RunStatus, Terminal
  <2>2. run' \in Run
    BY <1>7, <2>1, NumberInNat DEF Summarize, Run
  <2> QED
    BY <1>7, <2>2 DEF Summarize, TypeOK
<1>8. ASSUME NEW k \in Canvas, RedeliverBody(k) PROVE TypeOK'
    BY <1>8 DEF RedeliverBody, Fault, TypeOK
<1>9. ASSUME NEW k \in Canvas, RetryFailed(k) PROVE TypeOK'
  <2>1. run' \in Run
    BY <1>9 DEF RetryFailed, TypeOK, Run
  <2>2. row' \in [Company -> RowStatus]
    BY <1>9 DEF RetryFailed, TypeOK, RowStatus, Terminal
  <2>3. RowsIn({"FAILED"}) \in SUBSET Company
    BY DEF RowsIn
  <2> QED
    BY <1>9, <2>1, <2>2, <2>3 DEF RetryFailed, Plan, TypeOK
<1>10. ASSUME LoseWorker PROVE TypeOK'
    BY <1>10 DEF LoseWorker, Fault, TypeOK
<1>11. ASSUME NEW k \in Canvas, NEW c \in Company, NEW r \in 0 .. MaxRetries, Deliver(k, c, r)
       PROVE  TypeOK'
  <2> DEFINE m == <<k, c, r>>
  <2>0. m \in Message /\ {} \in SUBSET Message
    BY DEF Message
  <2>1. CASE ReturnCurrent(k, c, r)
    <3>1. Complete(m, {}, "outcome")
        BY <2>1 DEF ReturnCurrent
    <3> HIDE DEF m
    <3> QED
        BY <2>0, <2>1, <3>1, CompleteType DEF ReturnCurrent, TypeOK, Message
  <2>2. CASE BeginAttempt(k, c, r)
    BY <2>2 DEF BeginAttempt, TypeOK, Exec
  <2>3. CASE Route(k, c, r)
    BY <2>3 DEF Route, TypeOK
  <2>4. ASSUME NEW s \in {"SUCCEEDED", "NOT_RUN", "FAILED"}, NEW next \in SUBSET Message,
               NEW result \in {"none", "outcome", "error"},
               Commit(c, s), Complete(m, next, result)
        PROVE  TypeOK'
    <3>1. row' \in [Company -> RowStatus]
        BY <2>4 DEF Commit, TypeOK, RowStatus, Terminal
    <3> HIDE DEF m
    <3> QED
        BY <2>0, <2>4, <3>1, CompleteType DEF Commit, TypeOK, Message
  <2>5. CASE FinishSucceeded(k, c, r)
    <3>1. Commit(c, "SUCCEEDED") /\ Complete(m, {}, "outcome")
        BY <2>5 DEF FinishSucceeded
    <3> QED
        BY <2>0, <2>4, <3>1
  <2>6. CASE FinishNotRun(k, c, r)
    <3>1. Commit(c, "NOT_RUN") /\ Complete(m, {}, "outcome")
        BY <2>6 DEF FinishNotRun
    <3> QED
        BY <2>0, <2>4, <3>1
  <2>7. CASE FinishFailed(k, c, r)
    <3>1. CASE r < MaxRetries
      <4>1. r + 1 \in 0 .. MaxRetries
        BY <3>1, RetryAssumption
      <4>2. {<<k, c, r + 1>>} \in SUBSET Message
        BY <4>1 DEF Message
      <4>3. Commit(c, "FAILED") /\ Complete(m, {<<k, c, r + 1>>}, "none")
        BY <2>7, <3>1 DEF FinishFailed
      <4> QED
        BY <2>4, <4>2, <4>3
    <3>2. CASE ~(r < MaxRetries)
      <4>1. Commit(c, "FAILED") /\ Complete(m, {}, "outcome")
        BY <2>7, <3>2 DEF FinishFailed
      <4> QED
        BY <2>0, <2>4, <4>1
    <3> QED
        BY <3>1, <3>2
  <2>8. CASE Raise(k, c, r)
    <3>1. header' = [header EXCEPT ![k][c] = IF @ = "none" THEN "error" ELSE @]
        BY <2>8 DEF Raise
    <3>2. header' \in [Canvas -> [Company -> {"none", "outcome", "error"}]]
        BY <3>1, HeaderType
    <3> QED
        BY <2>8, <3>2 DEF Raise, Fault, TypeOK
  <2> QED
    BY <1>11, <2>1, <2>2, <2>3, <2>5, <2>6, <2>7, <2>8 DEF Deliver
<1>12. CASE UNCHANGED vars
    BY <1>12 DEF vars, TypeOK
<1> QED
    BY <1>1, <1>2, <1>4, <1>5, <1>6, <1>7, <1>8, <1>9, <1>10, <1>11, <1>12 DEF Next

\* The state of a run stays well formed, whatever is lost or delivered twice.
THEOREM TypeCorrect == Spec => []TypeOK
<1>1. Init => TypeOK
    BY InitType
<1>2. TypeOK /\ [Next]_vars => TypeOK'
    BY NextType
<1> QED
    BY <1>1, <1>2, PTL DEF Spec
-----------------------------------------------------------------------------
(* Results are kept and success is complete.                               *)

\* There are rows, and plans for canvases, only after the run was created.
CreatedTogether ==
    /\ run.status = "ABSENT" =>
           (\A c \in Company : row[c] = "ABSENT") /\ (\A k \in Canvas : canvas[k].phase = "free")
    /\ run.status # "ABSENT" => \A c \in Company : row[c] # "ABSENT"

\* An attempt under way has a row that may be run: nobody else moves it.
AttemptRunnable == exec # NoExec => row[exec.company] \in {"PENDING", "FAILED"}

\* A row that succeeded has its detections.
SuccessBacked == \A c \in Company : row[c] = "SUCCEEDED" => c \in detections

RunInvariant == TypeOK /\ CreatedTogether /\ AttemptRunnable /\ SuccessBacked /\ SuccessIsComplete

LEMMA InitInvariant == Init => RunInvariant
<1> SUFFICES ASSUME Init PROVE RunInvariant
    OBVIOUS
<1>1. CreatedTogether /\ AttemptRunnable /\ SuccessBacked /\ SuccessIsComplete
    BY DEF Init, CreatedTogether, AttemptRunnable, SuccessBacked, SuccessIsComplete
<1> QED
    BY <1>1, InitType DEF RunInvariant

\* No attempt is named like the value of no attempt.
LEMMA ExecutingCompany ==
    ASSUME NEW k \in Canvas, NEW c, NEW r, Executing(k, c, r)
    PROVE  exec # NoExec /\ exec.company = c
<1>1. exec.canvas = k /\ exec.company = c
    BY DEF Executing
<1>2. NoExec.canvas = NoCanvas
    BY DEF NoExec
<1> QED
    BY <1>1, <1>2, CanvasAssumption

\* While the run was not created nothing else happens to it.
LEMMA CreatedFirst ==
    ASSUME RunInvariant, NEW k \in Canvas
    PROVE  /\ canvas[k].phase # "free" => run.status # "ABSENT"
           /\ exec # NoExec => run.status # "ABSENT"
<1>1. exec # NoExec => exec.company \in Company
    BY DEF RunInvariant, TypeOK, Exec
<1> QED
    BY <1>1 DEF RunInvariant, CreatedTogether, AttemptRunnable

\* The result of an attempt is written to the row it holds, a success after its
\* detections.
LEMMA CommitKeeps ==
    ASSUME RunInvariant, NEW k \in Canvas, NEW c \in Company, NEW r, Executing(k, c, r),
           NEW s \in {"SUCCEEDED", "NOT_RUN", "FAILED"}, Commit(c, s),
           s = "SUCCEEDED" => c \in detections
    PROVE  /\ CreatedTogether' /\ AttemptRunnable' /\ SuccessBacked' /\ SuccessIsComplete'
           /\ ResultsKept
<1>1. exec # NoExec /\ row[c] \in {"PENDING", "FAILED"}
    BY ExecutingCompany DEF RunInvariant, AttemptRunnable
<1>2. run.status # "ABSENT"
    BY <1>1, CreatedFirst
<1>3. row' = [row EXCEPT ![c] = s] /\ row \in [Company -> RowStatus]
    BY DEF Commit, RunInvariant, TypeOK
<1>4. exec' = NoExec /\ UNCHANGED <<run, detections, canvas>>
    BY DEF Commit
<1>5. CreatedTogether'
    BY <1>2, <1>3, <1>4 DEF RunInvariant, CreatedTogether
<1>6. AttemptRunnable'
    BY <1>4 DEF AttemptRunnable
<1>7. SuccessBacked'
    BY <1>3, <1>4 DEF RunInvariant, SuccessBacked
<1>8. SuccessIsComplete'
  <2>1. ~(run.status = "SUCCEEDED" \/ run.outputReady)
    BY <1>1 DEF RunInvariant, SuccessIsComplete
  <2> QED
    BY <1>4, <2>1 DEF SuccessIsComplete
<1>9. ResultsKept
    BY <1>1, <1>3 DEF ResultsKept
<1> QED
    BY <1>5, <1>6, <1>7, <1>8, <1>9

\* A summary announces a success only when every company has one.
LEMMA SummaryComplete ==
    ASSUME RunInvariant, run.status # "ABSENT"
    PROVE  /\ RunStatus # "ABSENT"
           /\ RunStatus = "SUCCEEDED" => \A c \in Company : row[c] = "SUCCEEDED"
<1>1. \A c \in Company : row[c] \in {"PENDING", "SUCCEEDED", "FAILED", "NOT_RUN"}
    BY DEF RunInvariant, TypeOK, CreatedTogether, RowStatus
<1>2. ASSUME RunStatus = "SUCCEEDED"
      PROVE  RowsIn({"PENDING"}) = {} /\ RowsIn({"FAILED", "NOT_RUN"}) = {}
    BY <1>2 DEF RunStatus
<1>3. RunStatus # "ABSENT"
    BY DEF RunStatus
<1> QED
    BY <1>1, <1>2, <1>3 DEF RowsIn

\* Every step keeps the invariant and every result.
LEMMA NextInvariant == RunInvariant /\ [Next]_vars => RunInvariant' /\ ResultsKept
<1> DEFINE Kept == /\ CreatedTogether' /\ AttemptRunnable' /\ SuccessBacked'
                   /\ SuccessIsComplete' /\ ResultsKept
<1> SUFFICES ASSUME RunInvariant, [Next]_vars PROVE Kept
    BY NextType DEF RunInvariant
<1>0. TypeOK
    BY DEF RunInvariant
<1>1. ASSUME NEW k \in Canvas, CreateRun(k) PROVE Kept
  <2>1. run.status = "ABSENT" /\ (\A c \in Company : row[c] = "ABSENT") /\ exec = NoExec
    BY <1>1, CreatedFirst DEF CreateRun, RunInvariant, CreatedTogether
  <2>2. row' = [c \in Company |-> "PENDING"] /\ exec' = exec
    BY <1>1 DEF CreateRun
  <2>3. run'.status = "RUNNING" /\ run'.outputReady = run.outputReady
    BY <1>1, <1>0 DEF CreateRun, TypeOK, Run
  <2>4. ~run.outputReady
    BY <2>1, CompanyAssumption DEF RunInvariant, SuccessIsComplete
  <2>5. ResultsKept
    BY <2>1 DEF ResultsKept
  <2> QED
    BY <2>1, <2>2, <2>3, <2>4, <2>5
       DEF CreatedTogether, AttemptRunnable, SuccessBacked, SuccessIsComplete
<1>2. ASSUME NEW k \in Canvas, Resubmit(k) PROVE Kept
  <2>1. run' = run \/ (run'.status = "RUNNING" /\ run'.outputReady = FALSE)
    BY <1>2, <1>0 DEF Resubmit, TypeOK, Run
  <2>2. run.status # "ABSENT" /\ UNCHANGED <<row, detections, exec>>
    BY <1>2 DEF Resubmit
  <2> QED
    BY <2>1, <2>2
       DEF RunInvariant, CreatedTogether, AttemptRunnable, SuccessBacked, SuccessIsComplete, ResultsKept
<1>3. ASSUME NEW k \in Canvas, NEW sent, NEW phase, Send(k, sent, phase) PROVE Kept
  <2>1. run.status # "ABSENT"
    BY <1>3, CreatedFirst DEF Send
  <2>2. UNCHANGED <<run, row, detections, exec>>
    BY <1>3 DEF Send
  <2> QED
    BY <2>1, <2>2
       DEF RunInvariant, CreatedTogether, AttemptRunnable, SuccessBacked, SuccessIsComplete, ResultsKept
<1>4. ASSUME NEW k \in Canvas, Dispatch(k) \/ DispatchRefused(k) PROVE Kept
    BY <1>3, <1>4 DEF Dispatch, DispatchRefused
<1>5. ASSUME NEW k \in Canvas, MarkDispatchFailed(k) PROVE Kept
  <2>1. run.status # "ABSENT"
    BY <1>5, CreatedFirst DEF MarkDispatchFailed
  <2>2. run'.status = "FAILED" /\ run'.outputReady = FALSE
    BY <1>5, <1>0 DEF MarkDispatchFailed, TypeOK, Run
  <2>3. UNCHANGED <<row, detections, exec>>
    BY <1>5 DEF MarkDispatchFailed
  <2> QED
    BY <2>1, <2>2, <2>3
       DEF RunInvariant, CreatedTogether, AttemptRunnable, SuccessBacked, SuccessIsComplete, ResultsKept
<1>6. ASSUME NEW k \in Canvas, Summarize(k) PROVE Kept
  <2>1. run.status # "ABSENT"
    BY <1>6, CreatedFirst DEF Summarize, Due, HeaderComplete
  <2>2. run'.status = RunStatus /\ run'.outputReady = (RowsIn({"SUCCEEDED"}) = Company)
    BY <1>6 DEF Summarize
  <2>3. UNCHANGED <<row, detections, exec, canvas>>
    BY <1>6 DEF Summarize
  <2>4. RowsIn({"SUCCEEDED"}) = Company => \A c \in Company : row[c] = "SUCCEEDED"
    BY DEF RowsIn
  <2>5. SuccessIsComplete'
    BY <2>1, <2>2, <2>3, <2>4, SummaryComplete DEF RunInvariant, SuccessBacked, SuccessIsComplete
  <2>6. CreatedTogether'
    BY <2>1, <2>2, <2>3, SummaryComplete DEF RunInvariant, CreatedTogether
  <2> QED
    BY <2>3, <2>5, <2>6 DEF RunInvariant, AttemptRunnable, SuccessBacked, ResultsKept
<1>7. ASSUME NEW k \in Canvas, RedeliverBody(k) PROVE Kept
    BY <1>7 DEF RedeliverBody, RunInvariant, CreatedTogether, AttemptRunnable, SuccessBacked,
                SuccessIsComplete, ResultsKept
<1>8. ASSUME NEW k \in Canvas, RetryFailed(k) PROVE Kept
  <2>1. run.status # "ABSENT" /\ exec = NoExec /\ UNCHANGED <<detections, exec>>
    BY <1>8 DEF RetryFailed
  <2>2. run'.status = "RUNNING" /\ run'.outputReady = FALSE
    BY <1>8, <1>0 DEF RetryFailed, TypeOK, Run
  <2>3. row' = [c \in Company |-> IF row[c] = "FAILED" THEN "PENDING" ELSE row[c]]
    BY <1>8 DEF RetryFailed
  <2> QED
    BY <2>1, <2>2, <2>3
       DEF RunInvariant, CreatedTogether, AttemptRunnable, SuccessBacked, SuccessIsComplete, ResultsKept
<1>9. ASSUME NEW k \in Canvas, NEW c \in Company, NEW r \in 0 .. MaxRetries, Deliver(k, c, r)
      PROVE  Kept
  <2>1. CASE ReturnCurrent(k, c, r) \/ Raise(k, c, r)
    <3>1. UNCHANGED <<run, row, detections, canvas>> /\ exec' \in {exec, NoExec}
        BY <2>1 DEF ReturnCurrent, Raise
    <3> QED
        BY <3>1 DEF RunInvariant, CreatedTogether, AttemptRunnable, SuccessBacked,
                    SuccessIsComplete, ResultsKept
  <2>2. CASE BeginAttempt(k, c, r)
    <3>1. UNCHANGED <<run, row, detections, canvas>>
        BY <2>2 DEF BeginAttempt
    <3>2. exec'.company = c /\ row[c] \in {"PENDING", "FAILED"}
        BY <2>2 DEF BeginAttempt, Runnable
    <3> QED
        BY <3>1, <3>2 DEF RunInvariant, CreatedTogether, AttemptRunnable, SuccessBacked,
                          SuccessIsComplete, ResultsKept
  <2>3. CASE Route(k, c, r)
    <3>1. UNCHANGED <<run, row, canvas, exec>> /\ detections' = detections \cup {c}
        BY <2>3 DEF Route
    <3> QED
        BY <3>1 DEF RunInvariant, CreatedTogether, AttemptRunnable, SuccessBacked,
                    SuccessIsComplete, ResultsKept
  <2>4. CASE FinishSucceeded(k, c, r)
    BY <2>4, CommitKeeps DEF FinishSucceeded
  <2>5. CASE FinishNotRun(k, c, r)
    BY <2>5, CommitKeeps DEF FinishNotRun
  <2>6. CASE FinishFailed(k, c, r)
    BY <2>6, CommitKeeps DEF FinishFailed
  <2> QED
    BY <1>9, <2>1, <2>2, <2>3, <2>4, <2>5, <2>6 DEF Deliver
<1>10. ASSUME LoseWorker PROVE Kept
  <2>1. UNCHANGED <<run, row, detections, canvas>> /\ exec' = NoExec
    BY <1>10 DEF LoseWorker
  <2> QED
    BY <2>1 DEF RunInvariant, CreatedTogether, AttemptRunnable, SuccessBacked,
                SuccessIsComplete, ResultsKept
<1>11. CASE UNCHANGED vars
    BY <1>11 DEF vars, RunInvariant, CreatedTogether, AttemptRunnable, SuccessBacked,
                 SuccessIsComplete, ResultsKept
<1> QED
    BY <1>1, <1>2, <1>4, <1>5, <1>6, <1>7, <1>8, <1>9, <1>10, <1>11 DEF Next

\* A run announced as succeeded or as ready covers every company with its
\* detections, and the state is well formed.
THEOREM RunsAreSound == Spec => []RunSound
<1>1. Init => RunInvariant
    BY InitInvariant
<1>2. RunInvariant /\ [Next]_vars => RunInvariant'
    BY NextInvariant
<1>3. RunInvariant => RunSound
    BY DEF RunInvariant, RunSound
<1> QED
    BY <1>1, <1>2, <1>3, PTL DEF Spec

\* Whatever is retried, resubmitted, lost or delivered twice, no step takes a
\* company's committed result back.
THEOREM ResultsAreFinal == Spec => ResultsFinal
<1>1. Init => RunInvariant
    BY InitInvariant
<1>2. RunInvariant /\ [Next]_vars => RunInvariant' /\ [ResultsKept]_vars
    BY NextInvariant
<1> QED
    BY <1>1, <1>2, PTL DEF Spec, ResultsFinal

-----------------------------------------------------------------------------
(* Semantic cases.  The case of a voucher is never merged, so a merged case *)
(* leads somewhere visible; what a transaction has read of a case that      *)
(* exists stays as it read it, for it holds the row.                        *)

Holding == {"locked", "ready"}

\* Exact evidence for the document of a case and a voucher.
ExactlyLinked(case, root) == \E link \in ExactLink : link.document = case /\ link.voucher = root

\* A fingerprint without a case, and what merging does to one with a case.
CasesLead ==
    \A case \in SemanticCases :
        /\ rootCase[case].version = 0 => rootCase[case] = NoCaseRow
        /\ rootCase[case].mergedInto # NoVoucher =>
               /\ ExactlyLinked(case, rootCase[case].mergedInto)
               /\ rootCase[rootCase[case].mergedInto].version # 0

\* The case of a document keeps its document.
CasesOfDocuments ==
    \A case \in Document : rootCase[case].version # 0 => rootCase[case].document = case

\* A suspicion is committed with its case.
SuspicionHasCase ==
    \A key \in Detected :
        detected[key] \in Suspicious => rootCase[Fingerprint(key)].version # 0

\* What a transaction is about.
ErrandOf(c) ==
    /\ client[c].phase = "idle" => client[c] = IdleClient
    /\ client[c].phase \in Holding => client[c].op \in {"route", "merge"}
    /\ client[c].phase = "viewed" => client[c].op = "merge"
    /\ client[c].op = "route" => client[c].key \in Detected /\ client[c].label \in Label
    /\ client[c].op = "route" /\ client[c].phase = "ready" => DetectionRoute(client[c].label) = "RISK_CASE"
    /\ client[c].op = "merge" => client[c].case \in SemanticCases /\ client[c].seen \in 1 .. MaxCaseVersion

\* A merge holds a document's case as its user saw it.
SourceHeld(c) ==
    client[c].op = "merge" /\ client[c].phase \in Holding =>
        /\ client[c].case \in Document
        /\ client[c].key \in ExactLink /\ client[c].key.document = client[c].case
        /\ rootCase[client[c].case].version = client[c].seen
        /\ rootCase[client[c].case].mergedInto = NoVoucher

\* The case that was read is still what was read.
CaseHeld(c) ==
    client[c].phase = "ready" =>
        /\ client[c].read.version <= MaxCaseVersion
        /\ client[c].read.version # 0 => rootCase[Fingerprint(client[c].key)] = client[c].read

CasesApart == \A c, d \in Client : c # d => CaseLocks(c) \cap CaseLocks(d) = {}

SemanticInv ==
    /\ SemanticTypeOK /\ CasesLead /\ CasesOfDocuments /\ SuspicionHasCase /\ CasesApart
    /\ \A c \in Client : ErrandOf(c) /\ SourceHeld(c) /\ CaseHeld(c)

-----------------------------------------------------------------------------

LEMMA SemanticInitially == SemanticInit => SemanticInv
<1> SUFFICES ASSUME SemanticInit PROVE SemanticInv
    OBVIOUS
<1> USE SemanticCaseAssumption DEF SemanticInit, SemanticInv, IdleClient, NoCaseRow, NoLink, Unrouted
<1>1. SemanticTypeOK
    BY DEF SemanticTypeOK, CaseRow, ClientState, SemanticCases
<1>2. CasesLead /\ SuspicionHasCase
    BY DEF CasesLead, SuspicionHasCase, SemanticCases
<1>3. CasesOfDocuments
    BY DEF CasesOfDocuments, SemanticCases
<1>4. CasesApart
    BY DEF CasesApart, CaseLocks
<1>5. \A c \in Client : ErrandOf(c) /\ SourceHeld(c) /\ CaseHeld(c)
    BY DEF ErrandOf, SourceHeld, CaseHeld, Holding
<1> QED BY <1>1, <1>2, <1>3, <1>4, <1>5

\* What the invariant says of the cases is what their readers rely on.
LEMMA SemanticShown == SemanticInv => SuspicionIsVisible /\ MergesAreFlat
<1> SUFFICES ASSUME SemanticInv PROVE SuspicionIsVisible /\ MergesAreFlat
    OBVIOUS
<1> USE SemanticCaseAssumption DEF SemanticInv, SemanticTypeOK
<1>1. ASSUME NEW case \in SemanticCases, rootCase[case].mergedInto # NoVoucher
      PROVE  /\ rootCase[case].mergedInto \in Voucher
             /\ ExactlyLinked(case, rootCase[case].mergedInto)
             /\ rootCase[rootCase[case].mergedInto].version # 0
             /\ rootCase[rootCase[case].mergedInto].mergedInto = NoVoucher
  <2>1. /\ rootCase[case].mergedInto \in Voucher
        /\ ExactlyLinked(case, rootCase[case].mergedInto)
        /\ rootCase[rootCase[case].mergedInto].version # 0
    BY <1>1 DEF CasesLead, CaseRow
  <2>2. rootCase[case].mergedInto \in SemanticCases \ Document
    BY <2>1 DEF SemanticCases
  <2>3. \A d, v : ExactlyLinked(d, v) => d \in Document
    BY DEF ExactlyLinked
  <2> QED BY <2>1, <2>2, <2>3 DEF CasesLead
<1>2. MergesAreFlat
    BY <1>1 DEF MergesAreFlat, ExactlyLinked
<1>3. \A key \in Detected : Fingerprint(key) \in SemanticCases
    BY DEF Fingerprint, SemanticCases
<1>4. SuspicionIsVisible
    BY <1>1, <1>3 DEF SuspicionIsVisible, SuspicionHasCase, Leads
<1> QED BY <1>2, <1>4

-----------------------------------------------------------------------------
(* Steps that leave the cases alone.                                       *)

\* A transaction that begins, looks, or ends without a case.
LEMMA CasesUntouched ==
    ASSUME SemanticInv, NEW c \in Client, NEW new, new \in ClientState,
           client' = [client EXCEPT ![c] = new], rootCase' = rootCase,
           (ErrandOf(c) /\ SourceHeld(c) /\ CaseHeld(c))', CaseLocks(c)' \subseteq CaseLocks(c),
           detected' \in [Detected -> Label \cup {Unrouted}], evidenceTask' \subseteq Detected,
           companyLock' \subseteq Client, SuspicionHasCase'
    PROVE  SemanticInv'
<1> USE DEF SemanticInv
<1>1. client' \in [Client -> ClientState] /\ \A d \in Client : client'[d] = IF d = c THEN new ELSE client[d]
    BY DEF SemanticTypeOK
<1>2. SemanticTypeOK'
    BY <1>1 DEF SemanticTypeOK
<1>3. CasesLead' /\ CasesOfDocuments'
    BY DEF CasesLead, CasesOfDocuments
<1>4. \A d \in Client : d # c => CaseLocks(d)' = CaseLocks(d)
    BY <1>1 DEF CaseLocks
<1>5. CasesApart'
    BY <1>4 DEF CasesApart
<1>6. \A d \in Client : d # c => (ErrandOf(d) /\ SourceHeld(d) /\ CaseHeld(d))'
    BY <1>1 DEF ErrandOf, SourceHeld, CaseHeld
<1> QED BY <1>2, <1>3, <1>5, <1>6

LEMMA KeepsBeginRoute ==
    ASSUME SemanticInv, NEW c \in Client, NEW key \in Detected, NEW label \in Label, BeginRoute(c, key, label)
    PROVE  SemanticInv'
<1> USE SemanticCaseAssumption DEF BeginRoute, SemanticInv, SemanticTypeOK
<1> PICK new : new = [IdleClient EXCEPT !.op = "route", !.phase = "locked", !.key = key, !.label = label]
    OBVIOUS
<1>1. new \in ClientState
    BY DEF ClientState, IdleClient, DetectionKey, CaseRow, NoCaseRow, NoLink
<1>2. client'[c] = new
    OBVIOUS
<1>3. (ErrandOf(c) /\ SourceHeld(c) /\ CaseHeld(c))'
    BY <1>2 DEF ErrandOf, SourceHeld, CaseHeld, IdleClient, Holding
<1>4. CaseLocks(c)' \subseteq CaseLocks(c)
    BY <1>2 DEF CaseLocks, IdleClient
<1>5. SuspicionHasCase'
    BY DEF SuspicionHasCase
<1> QED BY <1>1, <1>3, <1>4, <1>5, CasesUntouched

LEMMA KeepsViewCase ==
    ASSUME SemanticInv, NEW c \in Client, NEW case \in SemanticCases, ViewCase(c, case)
    PROVE  SemanticInv'
<1> USE SemanticCaseAssumption DEF ViewCase, SemanticInv, SemanticTypeOK
<1> PICK new : new = [IdleClient EXCEPT !.op = "merge", !.phase = "viewed", !.case = case,
                                        !.seen = rootCase[case].version]
    OBVIOUS
<1>1. new \in ClientState
    BY DEF ClientState, IdleClient, CaseRow, NoCaseRow, NoLink, SemanticCases
<1>2. client'[c] = new
    OBVIOUS
<1>3. (ErrandOf(c) /\ SourceHeld(c) /\ CaseHeld(c))'
    BY <1>2 DEF ErrandOf, SourceHeld, CaseHeld, IdleClient, Holding
<1>4. CaseLocks(c)' \subseteq CaseLocks(c)
    BY <1>2 DEF CaseLocks, IdleClient
<1>5. SuspicionHasCase'
    BY DEF SuspicionHasCase
<1> QED BY <1>1, <1>3, <1>4, <1>5, CasesUntouched

\* Whoever ends holds nothing.
LEMMA ClosedClient ==
    ASSUME SemanticInv, NEW c \in Client, Close(c)
    PROVE  /\ IdleClient \in ClientState
           /\ client' = [client EXCEPT ![c] = IdleClient]
           /\ (ErrandOf(c) /\ SourceHeld(c) /\ CaseHeld(c))'
           /\ CaseLocks(c)' = {} /\ companyLock' \subseteq Client
<1> USE SemanticCaseAssumption DEF Close, SemanticInv, SemanticTypeOK
<1>1. IdleClient \in ClientState
    BY DEF ClientState, IdleClient, CaseRow, NoCaseRow, NoLink
<1>2. client'[c] = IdleClient
    OBVIOUS
<1>3. (ErrandOf(c) /\ SourceHeld(c) /\ CaseHeld(c))'
    BY <1>2 DEF ErrandOf, SourceHeld, CaseHeld, IdleClient, Holding
<1>4. CaseLocks(c)' = {}
    BY <1>2 DEF CaseLocks, IdleClient
<1> QED BY <1>1, <1>3, <1>4

LEMMA KeepsAbandon ==
    ASSUME SemanticInv, NEW c \in Client, Abandon(c)
    PROVE  SemanticInv'
<1> USE DEF Abandon
<1>1. detected' \in [Detected -> Label \cup {Unrouted}] /\ evidenceTask' \subseteq Detected
    BY DEF SemanticInv, SemanticTypeOK
<1>2. SuspicionHasCase'
    BY DEF SuspicionHasCase, SemanticInv
<1> QED BY <1>1, <1>2, ClosedClient, CasesUntouched

LEMMA KeepsCommitDetection ==
    ASSUME SemanticInv, NEW c \in Client, CommitDetection(c)
    PROVE  SemanticInv'
<1> USE DEF CommitDetection, SemanticInv
<1>1. client[c].key \in Detected /\ client[c].label \in Label \ Suspicious
    BY DEF ErrandOf, DetectionRoute
<1>2. detected' \in [Detected -> Label \cup {Unrouted}] /\ evidenceTask' \subseteq Detected
    BY <1>1 DEF SemanticTypeOK
<1>3. SuspicionHasCase'
    BY <1>1 DEF SuspicionHasCase, SemanticTypeOK
<1> QED BY <1>2, <1>3, ClosedClient, CasesUntouched

\* A merge that finds its case changed, merged, or of another document ends.
LEMMA KeepsBeginMerge ==
    ASSUME SemanticInv, NEW c \in Client, NEW link \in ExactLink, BeginMerge(c, link)
    PROVE  SemanticInv'
<1> USE SemanticCaseAssumption DEF BeginMerge, SemanticInv, SemanticTypeOK
<1>1. CASE ~(UnchangedSince(c) /\ Mergeable(client[c].case, link))
  <2>1. client' = [client EXCEPT ![c] = IdleClient]
    BY <1>1
  <2>2. IdleClient \in ClientState
    BY DEF ClientState, IdleClient, CaseRow, NoCaseRow, NoLink
  <2>3. (ErrandOf(c) /\ SourceHeld(c) /\ CaseHeld(c))'
    BY <2>1 DEF ErrandOf, SourceHeld, CaseHeld, IdleClient, Holding
  <2>4. CaseLocks(c)' \subseteq CaseLocks(c) /\ SuspicionHasCase'
    BY <2>1 DEF CaseLocks, IdleClient, SuspicionHasCase
  <2> QED BY <2>1, <2>2, <2>3, <2>4, CasesUntouched
<1>2. CASE UnchangedSince(c) /\ Mergeable(client[c].case, link)
  <2>1. client' = [client EXCEPT ![c].phase = "locked", ![c].key = link]
    BY <1>2
  <2>2. link \in DetectionKey
    BY DEF DetectionKey
  <2>3. client'[c] = [client[c] EXCEPT !.phase = "locked", !.key = link]
    BY <2>1
  <2>4. \A d \in Client : d # c => client'[d] = client[d]
    BY <2>1
  <2>5. client' \in [Client -> ClientState]
    <3>1. client[c] \in ClientState
      OBVIOUS
    <3>2. [client[c] EXCEPT !.phase = "locked", !.key = link] \in ClientState
      BY <2>2, <3>1 DEF ClientState
    <3> QED BY <2>1, <3>2
  <2>6. SemanticTypeOK'
    BY <2>5
  <2>7. CasesLead' /\ CasesOfDocuments' /\ SuspicionHasCase'
    BY DEF CasesLead, CasesOfDocuments, SuspicionHasCase
  <2>8. ErrandOf(c)'
    BY <2>3, <1>2 DEF ErrandOf, ClientState, Holding
  <2>9. SourceHeld(c)'
    <3>1. client[c].case \in Document /\ rootCase[client[c].case].version # 0
      BY <1>2 DEF ErrandOf, UnchangedSince, Mergeable
    <3>2. link.document = client[c].case
      BY <1>2, <3>1 DEF CasesOfDocuments, Mergeable
    <3> QED BY <2>3, <1>2, <3>2 DEF SourceHeld, ClientState, UnchangedSince, Mergeable
  <2>10. CaseHeld(c)'
    BY <2>3 DEF CaseHeld, ClientState
  <2>11. \A d \in Client : d # c => (ErrandOf(d) /\ SourceHeld(d) /\ CaseHeld(d))'
    BY <2>4 DEF ErrandOf, SourceHeld, CaseHeld
  <2>12. CaseLocks(c)' = {client[c].case}
    BY <2>3 DEF CaseLocks, ClientState
  <2>13. \A d \in Client : d # c => CaseLocks(d)' = CaseLocks(d) /\ client[c].case \notin CaseLocks(d)
    BY <2>4 DEF CaseLocks, Locked
  <2>14. CasesApart'
    BY <2>12, <2>13 DEF CasesApart
  <2> QED BY <2>6, <2>7, <2>8, <2>9, <2>10, <2>11, <2>14
<1> QED BY <1>1, <1>2

\* The row is read and, if it is there, held.
LEMMA KeepsReadCase ==
    ASSUME SemanticInv, NEW c \in Client, ReadCase(c)
    PROVE  SemanticInv'
<1> USE SemanticCaseAssumption DEF ReadCase, SemanticInv, SemanticTypeOK
<1> DEFINE case == Fingerprint(client[c].key)
<1>1. client[c].key \in DetectionKey /\ case \in SemanticCases
    BY DEF ErrandOf, SourceHeld, Holding, DetectionKey, Fingerprint, SemanticCases
<1>2. rootCase[case] \in CaseRow
    BY <1>1
<1>3. client'[c] = [client[c] EXCEPT !.phase = "ready", !.read = rootCase[case]]
    OBVIOUS
<1>4. \A d \in Client : d # c => client'[d] = client[d]
    OBVIOUS
<1>5. SemanticTypeOK'
  <2>1. client[c] \in ClientState
    OBVIOUS
  <2>2. [client[c] EXCEPT !.phase = "ready", !.read = rootCase[case]] \in ClientState
    BY <1>2, <2>1 DEF ClientState
  <2>3. client' \in [Client -> ClientState]
    BY <2>2
  <2> QED BY <2>3
<1>6. CasesLead' /\ CasesOfDocuments' /\ SuspicionHasCase'
    BY DEF CasesLead, CasesOfDocuments, SuspicionHasCase
<1>7. ErrandOf(c)'
    BY <1>3 DEF ErrandOf, ClientState, Holding
<1>8. SourceHeld(c)'
    BY <1>3 DEF SourceHeld, ClientState, Holding
<1>9. CaseHeld(c)'
    BY <1>3, <1>2 DEF CaseHeld, ClientState, CaseRow
<1>10. \A d \in Client : d # c => (ErrandOf(d) /\ SourceHeld(d) /\ CaseHeld(d))'
    BY <1>4 DEF ErrandOf, SourceHeld, CaseHeld
<1>11. CaseLocks(c)' \subseteq CaseLocks(c) \cup {case}
    BY <1>3 DEF CaseLocks, ClientState
<1>12. \A d \in Client : d # c => CaseLocks(d)' = CaseLocks(d) /\ case \notin CaseLocks(d)
    BY <1>4 DEF CaseLocks, Locked
<1>13. CasesApart'
    BY <1>11, <1>12 DEF CasesApart
<1> QED BY <1>5, <1>6, <1>7, <1>8, <1>9, <1>10, <1>13

-----------------------------------------------------------------------------
(* Steps that write cases.                                                 *)

\* A transaction whose row is another's lock does not write it: it read that the
\* case was not there, and now finds it.
LEMMA OthersLocks ==
    ASSUME SemanticInv, NEW c \in Client, client[c].phase = "ready", NotRaced(c),
           NEW d \in Client, d # c
    PROVE  /\ Fingerprint(client[c].key) \notin CaseLocks(d)
           /\ \A case \in CaseLocks(d) : rootCase[case].version # 0
<1> USE SemanticCaseAssumption DEF SemanticInv
<1>1. \A e \in Client : \A case \in CaseLocks(e) : rootCase[case].version # 0
    BY DEF CaseLocks, SourceHeld, CaseHeld, Holding, ErrandOf
<1>2. CASE client[c].read.version = 0
    BY <1>1, <1>2 DEF NotRaced
<1>3. CASE client[c].read.version # 0
  <2>1. Fingerprint(client[c].key) \in CaseLocks(c)
    BY <1>3 DEF CaseLocks
  <2> QED BY <1>1, <2>1 DEF CasesApart
<1> QED BY <1>2, <1>3

\* What becomes of the row: one version more, and its merge as it was.
LEMMA RefreshedRow ==
    ASSUME SemanticInv, NEW c \in Client, client[c].phase = "ready", NotRaced(c)
    PROVE  LET root == Fingerprint(client[c].key)
               new == Refreshed(client[c].read, client[c].key)
           IN  /\ client[c].key \in DetectionKey /\ root \in SemanticCases
               /\ new \in CaseRow /\ new.version = rootCase[root].version + 1
               /\ new.mergedInto = rootCase[root].mergedInto
<1> USE SemanticCaseAssumption DEF SemanticInv, SemanticTypeOK
<1> DEFINE root == Fingerprint(client[c].key)
           new == Refreshed(client[c].read, client[c].key)
<1>1. client[c].key \in DetectionKey /\ root \in SemanticCases
    BY DEF ErrandOf, SourceHeld, Holding, DetectionKey, Fingerprint, SemanticCases
<1>2. CASE client[c].read.version = 0
  <2>1. rootCase[root] = NoCaseRow
    BY <1>1, <1>2 DEF NotRaced, CasesLead
  <2> QED BY <1>1, <1>2, <2>1 DEF Refreshed, NoCaseRow, CaseRow, DetectionKey
<1>3. CASE client[c].read.version # 0
  <2>1. rootCase[root] = client[c].read /\ client[c].read.version <= MaxCaseVersion
    BY <1>3 DEF CaseHeld
  <2>2. rootCase[root] \in CaseRow
    BY <1>1
  <2> QED BY <1>1, <1>3, <2>1, <2>2 DEF Refreshed, CaseRow
<1> QED BY <1>1, <1>2, <1>3

\* The row of a document stays with its document.
LEMMA RefreshedDocument ==
    ASSUME SemanticInv, NEW c \in Client, client[c].phase = "ready", NotRaced(c)
    PROVE  LET root == Fingerprint(client[c].key)
           IN  root \in Document => Refreshed(client[c].read, client[c].key).document = root
<1> USE SemanticCaseAssumption DEF SemanticInv, SemanticTypeOK
<1> DEFINE key == client[c].key
           root == Fingerprint(key)
<1>1. SUFFICES ASSUME root \in Document PROVE Refreshed(client[c].read, key).document = root
    OBVIOUS
<1>2. key \in DetectionKey
    BY DEF ErrandOf, SourceHeld, Holding, DetectionKey
<1>3. root = key.document
    BY <1>1, <1>2 DEF Fingerprint, DetectionKey
<1>4. CASE client[c].read.version = 0
    BY <1>3, <1>4 DEF Refreshed
<1>5. CASE client[c].read.version # 0
  <2>1. rootCase[root] = client[c].read /\ root \in SemanticCases
    BY <1>1, <1>5 DEF CaseHeld, SemanticCases
  <2>2. client[c].read.document = root
    BY <1>1, <1>5, <2>1 DEF CasesOfDocuments
  <2>3. client[c].read \in CaseRow
    BY <2>1
  <2> QED BY <1>5, <2>2, <2>3 DEF Refreshed, CaseRow
<1> QED BY <1>4, <1>5

LEMMA KeepsCommitRoute ==
    ASSUME SemanticInv, NEW c \in Client, CommitRoute(c)
    PROVE  SemanticInv'
<1> USE SemanticCaseAssumption DEF CommitRoute, SemanticInv
<1> DEFINE key == client[c].key
           root == Fingerprint(key)
           new == Refreshed(client[c].read, key)
<1>1. /\ key \in DetectionKey /\ root \in SemanticCases
      /\ new \in CaseRow /\ new.version = rootCase[root].version + 1
      /\ new.mergedInto = rootCase[root].mergedInto
    BY RefreshedRow
<1>2. key \in Detected /\ client[c].label \in Label
    BY DEF ErrandOf
<1>3. rootCase \in [SemanticCases -> CaseRow] /\ detected \in [Detected -> Label \cup {Unrouted}]
      /\ client \in [Client -> ClientState] /\ evidenceTask \subseteq Detected
    BY DEF SemanticTypeOK
<1> HIDE DEF key, root, new
<1>4. rootCase' = [rootCase EXCEPT ![root] = new] /\ detected' = [detected EXCEPT ![key] = client[c].label]
    BY DEF key, root, new
<1>5. rootCase' \in [SemanticCases -> CaseRow]
    BY <1>1, <1>3, <1>4
<1>6. \A case \in SemanticCases : rootCase'[case] = IF case = root THEN new ELSE rootCase[case]
    BY <1>3, <1>4
<1>7. \A case \in SemanticCases : rootCase[case].version \in Nat
    BY <1>3 DEF CaseRow
<1>8. /\ client' = [client EXCEPT ![c] = IdleClient] /\ IdleClient \in ClientState
      /\ (ErrandOf(c) /\ SourceHeld(c) /\ CaseHeld(c))'
      /\ CaseLocks(c)' = {} /\ companyLock' \subseteq Client
    BY ClosedClient
<1>9. SemanticTypeOK'
    BY <1>2, <1>3, <1>4, <1>5, <1>8 DEF SemanticTypeOK
<1>10. \A case \in SemanticCases : rootCase[case].version # 0 => rootCase'[case].version # 0
    BY <1>1, <1>6, <1>7
<1>11. CasesLead'
  <2> SUFFICES ASSUME NEW case \in SemanticCases
               PROVE  /\ rootCase'[case].version = 0 => rootCase'[case] = NoCaseRow
                      /\ rootCase'[case].mergedInto # NoVoucher =>
                             /\ ExactlyLinked(case, rootCase'[case].mergedInto)
                             /\ rootCase'[rootCase'[case].mergedInto].version # 0
    BY DEF CasesLead
  <2>1. rootCase'[case].mergedInto = rootCase[case].mergedInto
    BY <1>1, <1>6
  <2>2. rootCase[case].mergedInto # NoVoucher => rootCase[case].mergedInto \in SemanticCases
    BY <1>3 DEF CaseRow, SemanticCases
  <2>3. rootCase'[case].version = 0 => rootCase'[case] = NoCaseRow
    BY <1>1, <1>6, <1>7 DEF CasesLead
  <2> QED BY <1>10, <2>1, <2>2, <2>3 DEF CasesLead
<1>16. CasesOfDocuments'
  <2> SUFFICES ASSUME NEW case \in Document, rootCase'[case].version # 0 PROVE rootCase'[case].document = case
    BY DEF CasesOfDocuments
  <2>1. case \in SemanticCases
    BY DEF SemanticCases
  <2>2. CASE case # root
    BY <1>6, <2>1, <2>2 DEF CasesOfDocuments
  <2>3. CASE case = root
    <3>1. new.document = root
      BY <2>3, RefreshedDocument DEF root, new, key
    <3> QED BY <1>6, <2>1, <2>3, <3>1
  <2> QED BY <2>2, <2>3
<1>12. SuspicionHasCase'
  <2>1. \A k \in Detected : Fingerprint(k) \in SemanticCases
    BY DEF Fingerprint, SemanticCases
  <2>2. rootCase'[root].version # 0
    BY <1>1, <1>6, <1>7
  <2> QED BY <1>3, <1>4, <1>10, <2>1, <2>2 DEF SuspicionHasCase, root
<1>13. \A d \in Client : d # c => client'[d] = client[d] /\ CaseLocks(d)' = CaseLocks(d) /\ root \notin CaseLocks(d)
    BY <1>3, <1>8, OthersLocks DEF CaseLocks, root, key
<1>14. CasesApart'
    BY <1>8, <1>13 DEF CasesApart
<1>15. ASSUME NEW d \in Client, d # c PROVE (ErrandOf(d) /\ SourceHeld(d) /\ CaseHeld(d))'
  <2>1. ErrandOf(d)'
    BY <1>13, <1>15 DEF ErrandOf
  <2>2. SourceHeld(d)'
    BY <1>6, <1>13, <1>15 DEF SourceHeld, CaseLocks, Holding, SemanticCases
  <2>3. client[d].phase = "ready" => Fingerprint(client[d].key) \in SemanticCases
    BY DEF ErrandOf, SourceHeld, Holding, DetectionKey, Fingerprint, SemanticCases
  <2>4. CaseHeld(d)'
    BY <1>6, <1>13, <1>15, <2>3 DEF CaseHeld, CaseLocks
  <2> QED BY <2>1, <2>2, <2>4
<1> QED BY <1>8, <1>9, <1>11, <1>12, <1>14, <1>15, <1>16

LEMMA MergedRow ==
    ASSUME NEW entry \in CaseRow, entry.version \in 1 .. MaxCaseVersion, NEW root \in Voucher
    PROVE  LET old == [entry EXCEPT !.mergedInto = root, !.version = @ + 1]
           IN  /\ old \in CaseRow /\ old.version = entry.version + 1 /\ old.mergedInto = root
               /\ old.document = entry.document
<1> DEFINE old == [entry EXCEPT !.mergedInto = root, !.version = @ + 1]
<1> USE SemanticCaseAssumption DEF CaseRow
<1>1. entry.version + 1 \in 0 .. MaxCaseVersion + 1
    OBVIOUS
<1>2. old.version = entry.version + 1 /\ old.mergedInto = root /\ old.document = entry.document
    OBVIOUS
<1>3. old \in CaseRow
    BY <1>1
<1> QED BY <1>2, <1>3

\* A merge writes the row it holds, of a document, and that of a voucher.
LEMMA KeepsCommitMerge ==
    ASSUME SemanticInv, NEW c \in Client, CommitMerge(c)
    PROVE  SemanticInv'
<1> USE SemanticCaseAssumption DEF CommitMerge, SemanticInv
<1> DEFINE key == client[c].key
           root == Fingerprint(key)
           source == client[c].case
           new == Refreshed(client[c].read, key)
           old == [rootCase[source] EXCEPT !.mergedInto = root, !.version = @ + 1]
<1>1. /\ key \in DetectionKey /\ root \in SemanticCases
      /\ new \in CaseRow /\ new.version = rootCase[root].version + 1
      /\ new.mergedInto = rootCase[root].mergedInto
    BY RefreshedRow
<1>2. /\ source \in Document /\ source \in SemanticCases /\ source # root
      /\ rootCase[source].version \in 1 .. MaxCaseVersion /\ rootCase[source].mergedInto = NoVoucher
    BY DEF SourceHeld, ErrandOf, Holding
<1>3. root \in Voucher /\ ExactlyLinked(source, root)
  <2>1. key \in ExactLink /\ key.document = source
    BY DEF SourceHeld, Holding
  <2>2. root = key.voucher
    BY <2>1 DEF Fingerprint
  <2> QED BY <2>1, <2>2 DEF ExactlyLinked
<1>4. rootCase \in [SemanticCases -> CaseRow] /\ detected \in [Detected -> Label \cup {Unrouted}]
      /\ client \in [Client -> ClientState] /\ evidenceTask \subseteq Detected
    BY DEF SemanticTypeOK
<1>5. rootCase' = [rootCase EXCEPT ![root] = new, ![source].mergedInto = root, ![source].version = @ + 1]
    OBVIOUS
<1>6. source \in CaseLocks(c)
    BY DEF CaseLocks
<1> HIDE DEF key, root, new, source
<1>7. rootCase[source] \in CaseRow
    BY <1>2, <1>4
<1>8. /\ old \in CaseRow /\ old.version = rootCase[source].version + 1 /\ old.mergedInto = root
      /\ old.document = rootCase[source].document
    BY <1>2, <1>3, <1>7, MergedRow
<1>9. \A case \in SemanticCases :
          rootCase'[case] = IF case = source THEN old ELSE IF case = root THEN new ELSE rootCase[case]
    BY <1>1, <1>2, <1>4, <1>5
<1>10. rootCase' = [case \in SemanticCases |->
                       IF case = source THEN old ELSE IF case = root THEN new ELSE rootCase[case]]
    BY <1>1, <1>2, <1>4, <1>5
<1> HIDE DEF old
<1>11. rootCase' \in [SemanticCases -> CaseRow]
  <2>1. \A case \in SemanticCases :
            (IF case = source THEN old ELSE IF case = root THEN new ELSE rootCase[case]) \in CaseRow
    BY <1>1, <1>4, <1>8
  <2> QED BY ONLY <1>10, <2>1
<1>12. \A case \in SemanticCases : rootCase[case].version \in Nat
    BY <1>4 DEF CaseRow
<1>13. /\ client' = [client EXCEPT ![c] = IdleClient] /\ IdleClient \in ClientState
       /\ (ErrandOf(c) /\ SourceHeld(c) /\ CaseHeld(c))'
       /\ CaseLocks(c)' = {} /\ companyLock' \subseteq Client
    BY ClosedClient
<1>14. SemanticTypeOK'
    BY <1>4, <1>11, <1>13 DEF SemanticTypeOK
<1>16. rootCase'[root].version # 0 /\ rootCase'[source].version # 0
  <2>1. new.version # 0 /\ old.version # 0
    <3>1. rootCase[root].version \in Nat /\ rootCase[source].version \in Nat
      BY <1>1, <1>2, <1>12
    <3> QED BY <1>1, <1>8, <3>1
  <2> QED BY <1>1, <1>2, <1>9, <2>1
<1>15. \A case \in SemanticCases : rootCase[case].version # 0 => rootCase'[case].version # 0
    BY <1>1, <1>2, <1>9, <1>16
<1>17. CasesLead'
  <2> SUFFICES ASSUME NEW case \in SemanticCases
               PROVE  /\ rootCase'[case].version = 0 => rootCase'[case] = NoCaseRow
                      /\ rootCase'[case].mergedInto # NoVoucher =>
                             /\ ExactlyLinked(case, rootCase'[case].mergedInto)
                             /\ rootCase'[rootCase'[case].mergedInto].version # 0
    BY DEF CasesLead
  <2>1. CASE case = source
    <3>1. rootCase'[case].mergedInto = root /\ rootCase'[case].version # 0
      BY <1>2, <1>8, <1>9, <1>16, <2>1
    <3> QED BY <1>3, <1>16, <2>1, <3>1
  <2>2. CASE case # source
    <3>1. rootCase'[case].mergedInto = rootCase[case].mergedInto
      BY <1>1, <1>9, <2>2
    <3>2. rootCase[case].mergedInto # NoVoucher => rootCase[case].mergedInto \in SemanticCases
      BY <1>4 DEF CaseRow, SemanticCases
    <3>3. rootCase'[case].version = 0 => rootCase'[case] = NoCaseRow
      <4>1. case # root => rootCase'[case] = rootCase[case]
        BY <1>9, <2>2
      <4>2. rootCase[case].version = 0 => rootCase[case] = NoCaseRow
        BY DEF CasesLead
      <4> QED BY <1>16, <4>1, <4>2
    <3> QED BY <1>15, <3>1, <3>2, <3>3 DEF CasesLead
  <2> QED BY <2>1, <2>2
<1>22. CasesOfDocuments'
  <2> SUFFICES ASSUME NEW case \in Document, rootCase'[case].version # 0 PROVE rootCase'[case].document = case
    BY DEF CasesOfDocuments
  <2>1. case \in SemanticCases /\ case # root
    BY <1>3 DEF SemanticCases
  <2>2. CASE case = source
    <3>1. rootCase[source].document = source
      BY <1>2 DEF CasesOfDocuments
    <3> QED BY <1>8, <1>9, <2>1, <2>2, <3>1
  <2>3. CASE case # source
    BY <1>9, <2>1, <2>3 DEF CasesOfDocuments
  <2> QED BY <2>2, <2>3
<1>18. SuspicionHasCase'
  <2>1. \A k \in Detected : Fingerprint(k) \in SemanticCases
    BY DEF Fingerprint, SemanticCases
  <2> QED BY <1>15, <2>1 DEF SuspicionHasCase
<1>19. \A d \in Client : d # c =>
           /\ client'[d] = client[d] /\ CaseLocks(d)' = CaseLocks(d)
           /\ root \notin CaseLocks(d) /\ source \notin CaseLocks(d)
    BY <1>4, <1>6, <1>13, OthersLocks DEF CaseLocks, CasesApart, root, key
<1>20. CasesApart'
    BY <1>13, <1>19 DEF CasesApart
<1>21. ASSUME NEW d \in Client, d # c PROVE (ErrandOf(d) /\ SourceHeld(d) /\ CaseHeld(d))'
  <2>0. \A case \in SemanticCases : case \in CaseLocks(d) => rootCase'[case] = rootCase[case]
    <3>1. root \notin CaseLocks(d) /\ source \notin CaseLocks(d)
      BY <1>19, <1>21
    <3> QED BY <1>9, <3>1
  <2>1. ErrandOf(d)'
    BY <1>19, <1>21 DEF ErrandOf
  <2>2. SourceHeld(d)'
    <3>1. SUFFICES ASSUME client[d].op = "merge", client[d].phase \in Holding PROVE SourceHeld(d)'
      BY <1>19, <1>21 DEF SourceHeld
    <3>2. client[d].case \in CaseLocks(d) /\ client[d].case \in SemanticCases
      BY <3>1 DEF CaseLocks, Holding, ErrandOf
    <3>3. rootCase'[client[d].case] = rootCase[client[d].case]
      BY <2>0, <3>2
    <3>4. client'[d] = client[d] /\ SourceHeld(d)
      BY <1>19, <1>21
    <3> QED BY <3>1, <3>3, <3>4 DEF SourceHeld
  <2>3. client[d].phase = "ready" => Fingerprint(client[d].key) \in SemanticCases
    BY DEF ErrandOf, SourceHeld, Holding, DetectionKey, Fingerprint, SemanticCases
  <2>4. CaseHeld(d)'
    <3>1. SUFFICES ASSUME client[d].phase = "ready", client[d].read.version # 0
                   PROVE  rootCase'[Fingerprint(client[d].key)] = client[d].read
      BY <1>19, <1>21 DEF CaseHeld
    <3>2. Fingerprint(client[d].key) \in CaseLocks(d)
      BY <3>1 DEF CaseLocks
    <3>3. rootCase[Fingerprint(client[d].key)] = client[d].read
      BY <3>1 DEF CaseHeld
    <3> QED BY <2>0, <2>3, <3>1, <3>2, <3>3
  <2> QED BY <2>1, <2>2, <2>4
<1> QED BY <1>13, <1>14, <1>17, <1>18, <1>20, <1>21, <1>22

-----------------------------------------------------------------------------

LEMMA SemanticStep == SemanticInv /\ [SemanticNext]_semanticVars => SemanticInv'
<1> SUFFICES ASSUME SemanticInv, [SemanticNext]_semanticVars PROVE SemanticInv'
    OBVIOUS
<1>1. CASE UNCHANGED semanticVars
  <2> USE <1>1 DEF semanticVars, SemanticInv
  <2>1. SemanticTypeOK' /\ CasesLead' /\ CasesOfDocuments' /\ SuspicionHasCase'
    BY DEF SemanticTypeOK, CasesLead, CasesOfDocuments, SuspicionHasCase
  <2>2. CasesApart'
    BY DEF CasesApart, CaseLocks
  <2>3. \A c \in Client : (ErrandOf(c) /\ SourceHeld(c) /\ CaseHeld(c))'
    BY DEF ErrandOf, SourceHeld, CaseHeld
  <2> QED BY <2>1, <2>2, <2>3
<1>2. ASSUME NEW c \in Client, ClientStep(c) PROVE SemanticInv'
    BY <1>2, KeepsReadCase, KeepsCommitDetection, KeepsCommitRoute, KeepsCommitMerge, KeepsAbandon,
       KeepsBeginMerge DEF ClientStep
<1>3. ASSUME NEW c \in Client, NEW key \in Detected, NEW label \in Label, BeginRoute(c, key, label)
      PROVE  SemanticInv'
    BY <1>3, KeepsBeginRoute
<1>4. ASSUME NEW c \in Client, NEW case \in SemanticCases, ViewCase(c, case) PROVE SemanticInv'
    BY <1>4, KeepsViewCase
<1> QED BY <1>1, <1>2, <1>3, <1>4 DEF SemanticNext

\* Cases change in two actions only.
LEMMA CasesStay ==
    ASSUME [SemanticNext]_semanticVars, \A c \in Client : ~CommitRoute(c) /\ ~CommitMerge(c)
    PROVE  rootCase' = rootCase
BY DEF SemanticNext, ClientStep, BeginRoute, ViewCase, ReadCase, CommitDetection, BeginMerge, Abandon,
   semanticVars

\* A step that writes a case adds one to its version, and merges it only for a
\* user who saw it as it is.
LEMMA CaseStep ==
    ASSUME SemanticInv, [SemanticNext]_semanticVars, NEW case \in SemanticCases
    PROVE  /\ rootCase'[case] # rootCase[case] => rootCase'[case].version = rootCase[case].version + 1
           /\ rootCase'[case].mergedInto # rootCase[case].mergedInto =>
                  /\ rootCase[case].mergedInto = NoVoucher
                  /\ \E c \in Client : client[c].case = case /\ client[c].seen = rootCase[case].version
<1> USE DEF SemanticInv
<1>1. CASE \A c \in Client : ~CommitRoute(c) /\ ~CommitMerge(c)
    BY <1>1, CasesStay
<1>2. ASSUME NEW c \in Client, CommitRoute(c)
      PROVE  /\ rootCase'[case] # rootCase[case] => rootCase'[case].version = rootCase[case].version + 1
             /\ rootCase'[case].mergedInto = rootCase[case].mergedInto
  <2> DEFINE root == Fingerprint(client[c].key)
             new == Refreshed(client[c].read, client[c].key)
  <2>1. /\ root \in SemanticCases /\ new.version = rootCase[root].version + 1
        /\ new.mergedInto = rootCase[root].mergedInto
    BY <1>2, RefreshedRow DEF CommitRoute
  <2>2. rootCase' = [rootCase EXCEPT ![root] = new]
    BY <1>2 DEF CommitRoute
  <2> HIDE DEF root, new
  <2> QED BY <2>1, <2>2 DEF SemanticTypeOK
<1>3. ASSUME NEW c \in Client, CommitMerge(c)
      PROVE  /\ rootCase'[case] # rootCase[case] => rootCase'[case].version = rootCase[case].version + 1
             /\ rootCase'[case].mergedInto # rootCase[case].mergedInto =>
                    case = client[c].case
             /\ rootCase[client[c].case].mergedInto = NoVoucher
             /\ rootCase[client[c].case].version = client[c].seen
  <2> DEFINE root == Fingerprint(client[c].key)
             source == client[c].case
             new == Refreshed(client[c].read, client[c].key)
  <2>1. /\ root \in SemanticCases /\ new.version = rootCase[root].version + 1
        /\ new.mergedInto = rootCase[root].mergedInto
    BY <1>3, RefreshedRow DEF CommitMerge
  <2>2. /\ rootCase' = [rootCase EXCEPT ![root] = new, ![source].mergedInto = root, ![source].version = @ + 1]
        /\ root # source
    BY <1>3 DEF CommitMerge
  <2>3. /\ rootCase[source].mergedInto = NoVoucher /\ rootCase[source].version = client[c].seen
        /\ source \in SemanticCases
    BY <1>3 DEF CommitMerge, SourceHeld, Holding, SemanticCases
  <2>4. rootCase \in [SemanticCases -> CaseRow] /\ rootCase[source] \in CaseRow
    BY <2>3 DEF SemanticTypeOK
  <2> HIDE DEF root, new
  <2> QED BY <2>1, <2>2, <2>3, <2>4 DEF CaseRow
<1> QED BY <1>1, <1>2, <1>3

\* Whatever routes and merges run at once: every suspicion is behind a case that
\* the lists show, merges are flat, every change of a case is counted by its
\* row_version, and a merge takes a case as its user saw it.
THEOREM CasesOfDetectionsAreSound == SemanticSpec => SemanticSound
<1>1. SemanticSpec => []SemanticInv
    BY SemanticInitially, SemanticStep, PTL DEF SemanticSpec
<1>2. SemanticInv => SemanticTypeOK /\ SuspicionIsVisible /\ MergesAreFlat
    BY SemanticShown DEF SemanticInv
<1>3. SemanticInv /\ [SemanticNext]_semanticVars =>
          [\A case \in SemanticCases :
              rootCase'[case] # rootCase[case] => rootCase'[case].version = rootCase[case].version + 1]_semanticVars
    BY CaseStep
<1>4. SemanticInv /\ [SemanticNext]_semanticVars =>
          [\A case \in SemanticCases :
              rootCase'[case].mergedInto # rootCase[case].mergedInto =>
                  /\ rootCase[case].mergedInto = NoVoucher
                  /\ \E c \in Client : client[c].case = case /\ client[c].seen = rootCase[case].version]_semanticVars
    BY CaseStep
<1> QED BY <1>1, <1>2, <1>3, <1>4, PTL DEF SemanticSpec, SemanticSound, CaseVersionCounts, MergeIsInformed

=============================================================================
