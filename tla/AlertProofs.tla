----------------------------- MODULE AlertProofs -----------------------------
(***************************************************************************)
(* Proofs about what becomes of an alert: its case, for any runs that give *)
(* it in any order and any reviews of it, and the tables in Feishu that    *)
(* show it, for any scripts that carry it there.                           *)
(***************************************************************************)
EXTENDS CaseLifecycle, AlertTables, FiniteSetTheorems, TLAPS

-----------------------------------------------------------------------------
(* Cases.  What a transaction read is still true when it writes, because   *)
(* nobody else holds its locks; everything that is said of cases then      *)
(* follows write by write.                                                 *)

Locked(t) == Executing(t) /\ tx[t].locked

Reviewing(w) == w \in Reviewer /\ tx[w] # None

\* The state is a function of its domain, and transactions are of their kind.
Shape ==
  /\ detected \in [Run -> (SUBSET Monitor) \cup {None}]
  /\ case \in [Monitor -> CaseRow \cup {None}]
  /\ trail \in [Monitor -> Seq(Transition)]
  /\ tx = [p \in Executor \cup Reviewer |-> tx[p]]
  /\ \A t \in Executor : Executing(t) => tx[t].run \in Run /\ tx[t].alerts \in SUBSET Monitor
  /\ \A w \in Reviewer : Reviewing(w) => tx[w].monitor \in Monitor /\ tx[w].step \in Transition

\* A run is executed once at a time, and only while it has no detections.
RunsExclusive ==
  /\ \A t, u \in Executor : Executing(t) /\ Executing(u) /\ tx[t].run = tx[u].run => t = u
  /\ \A t \in Executor : Executing(t) => detected[tx[t].run] = None

\* The row of a case has one holder.
RowsExclusive ==
  /\ \A t, u \in Executor : Locked(t) /\ Locked(u) /\ t # u => tx[t].alerts \cap tx[u].alerts = {}
  /\ \A t \in Executor, w \in Reviewer :
       Locked(t) /\ Reviewing(w) => tx[w].monitor \notin tx[t].alerts
  /\ \A v, w \in Reviewer :
       Reviewing(v) /\ Reviewing(w) /\ tx[v].monitor = tx[w].monitor => v = w

\* What a holder read of a case is still what the case is.
ReadsCurrent ==
  /\ \A t \in Executor : Locked(t) => \A m \in tx[t].alerts : tx[t].read[m] = case[m]
  /\ \A w \in Reviewer : Reviewing(w) =>
       LET m == tx[w].monitor
       IN  case[m] # None /\ case[m].status = tx[w].step.from /\ case[m].version = tx[w].version

\* Only a case is reviewed.
TrailOfCase == \A m \in Monitor : case[m] = None => trail[m] = <<>>

Locks == RunsExclusive /\ RowsExclusive /\ ReadsCurrent

Cases == CaseBacksAlert /\ SummaryIsNewest /\ TrailConnected /\ TrailOfCase

IInv == Shape /\ Locks /\ Cases

-----------------------------------------------------------------------------
(* Facts about the operators.                                              *)

\* The workflow starts at NEW, and both ends of a transition are statuses.
LEMMA Workflow ==
    /\ "NEW" \in CaseStatus
    /\ \A s \in Transition : s.from \in CaseStatus /\ s.to \in CaseStatus
<1>1. Step("NEW", "ASSIGNED") \in Transition /\ Step("NEW", "ASSIGNED").from = "NEW"
    BY DEF Transition, Step
<1>2. \A s \in Transition : s.from \in CaseStatus
    BY DEF CaseStatus
<1>3. ASSUME NEW s \in Transition PROVE s.to \in CaseStatus
  <2>1. s.to = "CLOSED" \/ (\E z \in Transition : z.from = s.to)
    BY DEF Transition, Step
  <2> QED
    BY <2>1 DEF CaseStatus
<1> QED
    BY <1>1, <1>2, <1>3

\* What the actions write is a case.
LEMMA CaseRows ==
    ASSUME Shape, NEW m \in Monitor, NEW r \in Run
    PROVE  /\ NewCase(r) \in CaseRow /\ NewCase(r) # None
           /\ case[m] # None =>
                /\ case[m] \in CaseRow
                /\ Refreshed(m, r, case[m]) \in CaseRow /\ Refreshed(m, r, case[m]) # None
                /\ \A s \in Transition :
                     LET c == [status |-> s.to, latest |-> case[m].latest,
                               version |-> case[m].version + 1]
                     IN  c \in CaseRow /\ c # None
<1>1. NewCase(r) \in CaseRow
    BY Workflow DEF NewCase, CaseRow
<1>2. ASSUME case[m] # None PROVE case[m] \in CaseRow
    BY <1>2 DEF Shape
<1>3. ASSUME case[m] # None
      PROVE  /\ case[m].status \in CaseStatus /\ case[m].latest \in Run
             /\ case[m].version \in Nat \ {0} /\ case[m].version + 1 \in Nat \ {0}
    BY <1>2, <1>3 DEF CaseRow
<1>4. ASSUME case[m] # None PROVE Refreshed(m, r, case[m]) \in CaseRow
    BY <1>3, <1>4 DEF Refreshed, CaseRow
<1>5. ASSUME case[m] # None, NEW s \in Transition
      PROVE  [status |-> s.to, latest |-> case[m].latest,
              version |-> case[m].version + 1] \in CaseRow
    BY <1>3, <1>5, Workflow DEF CaseRow
<1> QED
    BY <1>1, <1>2, <1>4, <1>5, NoneAssumption

-----------------------------------------------------------------------------
(* Preservation, action by action.                                         *)

\* Where neither cases nor detections nor trails move, what is said of them stays.
LEMMA CasesStay ==
    ASSUME Cases, UNCHANGED <<detected, case, trail>>
    PROVE  Cases'
BY DEF Cases, CaseBacksAlert, SummaryIsNewest, TrailConnected, TrailOfCase, Alerting

LEMMA InitStep == Init => IInv
<1> SUFFICES ASSUME Init PROVE IInv
    OBVIOUS
<1>1. Shape
    BY DEF Init, Shape, Executing, Reviewing
<1>2. \A p \in Executor \cup Reviewer : tx[p] = None
    BY DEF Init
<1>3. Locks
    BY <1>2 DEF Locks, RunsExclusive, RowsExclusive, ReadsCurrent, Locked, Executing, Reviewing
<1>4. \A m \in Monitor : case[m] = None /\ trail[m] = <<>> /\ Alerting(m) = {}
    BY DEF Init, Alerting
<1>5. Cases
    BY <1>4 DEF Cases, CaseBacksAlert, SummaryIsNewest, TrailConnected, TrailOfCase
<1> QED
    BY <1>1, <1>3, <1>5 DEF IInv

LEMMA BeginExecuteStep ==
    ASSUME IInv, NEW t \in Executor, NEW r \in Run, NEW alerts \in SUBSET Monitor,
           BeginExecute(t, r, alerts)
    PROVE  IInv'
<1>1. Cases'
    BY CasesStay DEF IInv, BeginExecute
<1>2. t \notin Reviewer
    BY CaseAssumption
<1>3. /\ detected' = detected /\ case' = case /\ trail' = trail
      /\ tx' = [p \in Executor \cup Reviewer |-> tx'[p]]
      /\ \A p \in Executor \cup Reviewer : p # t => tx'[p] = tx[p]
      /\ tx'[t].run = r /\ tx'[t].alerts = alerts /\ ~tx'[t].locked
    BY DEF IInv, Shape, BeginExecute
<1>4. Shape'
    BY <1>2, <1>3 DEF IInv, Shape, Executing, Reviewing
<1>5. RunsExclusive'
    BY <1>3 DEF IInv, Locks, RunsExclusive, Executing, BeginExecute
<1>6. RowsExclusive'
    BY <1>2, <1>3 DEF IInv, Locks, RowsExclusive, Locked, Executing, Reviewing
<1>7. ReadsCurrent'
    BY <1>2, <1>3 DEF IInv, Locks, ReadsCurrent, Locked, Executing, Reviewing
<1> QED
    BY <1>1, <1>4, <1>5, <1>6, <1>7 DEF IInv, Locks

LEMMA LockCasesStep ==
    ASSUME IInv, NEW t \in Executor, LockCases(t)
    PROVE  IInv'
<1>1. Cases'
    BY CasesStay DEF IInv, LockCases
<1>2. t \notin Reviewer
    BY CaseAssumption
<1>3. /\ detected' = detected /\ case' = case /\ trail' = trail
      /\ tx' = [p \in Executor \cup Reviewer |-> tx'[p]]
      /\ \A p \in Executor \cup Reviewer : p # t => tx'[p] = tx[p]
      /\ tx'[t].run = tx[t].run /\ tx'[t].alerts = tx[t].alerts /\ tx'[t].read = case
      /\ Executing(t)
    BY DEF IInv, Shape, LockCases
<1>4. Shape'
    BY <1>2, <1>3 DEF IInv, Shape, Executing, Reviewing
<1>5. RunsExclusive'
    BY <1>3 DEF IInv, Locks, RunsExclusive, Executing
<1>6. /\ \A u \in Executor : Locked(u) => tx[t].alerts \cap tx[u].alerts = {}
      /\ \A w \in Reviewer : Reviewing(w) => tx[w].monitor \notin tx[t].alerts
    BY DEF LockCases, RowFree, Touched, Locked, Reviewing
<1>7. RowsExclusive'
    BY <1>2, <1>3, <1>6 DEF IInv, Locks, RowsExclusive, Locked, Executing, Reviewing
<1>8. ReadsCurrent'
    BY <1>2, <1>3 DEF IInv, Locks, ReadsCurrent, Locked, Executing, Reviewing
<1> QED
    BY <1>1, <1>4, <1>5, <1>7, <1>8 DEF IInv, Locks

LEMMA AbortStep ==
    ASSUME IInv, NEW p \in Executor \cup Reviewer, Abort(p)
    PROVE  IInv'
<1>1. Cases'
    BY CasesStay DEF IInv, Abort
<1>2. /\ detected' = detected /\ case' = case /\ trail' = trail
      /\ tx' = [q \in Executor \cup Reviewer |-> tx'[q]]
      /\ \A q \in Executor \cup Reviewer : q # p => tx'[q] = tx[q]
      /\ tx'[p] = None
    BY DEF IInv, Shape, Abort
<1>3. Shape'
    BY <1>2 DEF IInv, Shape, Executing, Reviewing
<1>4. RunsExclusive'
    BY <1>2 DEF IInv, Locks, RunsExclusive, Executing
<1>5. RowsExclusive'
    BY <1>2 DEF IInv, Locks, RowsExclusive, Locked, Executing, Reviewing
<1>6. ReadsCurrent'
    BY <1>2 DEF IInv, Locks, ReadsCurrent, Locked, Executing, Reviewing
<1> QED
    BY <1>1, <1>3, <1>4, <1>5, <1>6 DEF IInv, Locks

LEMMA BeginReviewStep ==
    ASSUME IInv, NEW w \in Reviewer, NEW m \in Monitor, NEW s \in Transition, BeginReview(w, m, s)
    PROVE  IInv'
<1>1. Cases'
    BY CasesStay DEF IInv, BeginReview
<1>2. w \notin Executor
    BY CaseAssumption
<1>3. /\ detected' = detected /\ case' = case /\ trail' = trail
      /\ tx' = [p \in Executor \cup Reviewer |-> tx'[p]]
      /\ \A p \in Executor \cup Reviewer : p # w => tx'[p] = tx[p]
      /\ tx'[w].monitor = m /\ tx'[w].step = s /\ tx'[w].version = case[m].version
    BY DEF IInv, Shape, BeginReview
<1>4. Shape'
    BY <1>2, <1>3 DEF IInv, Shape, Executing, Reviewing
<1>5. RunsExclusive'
    BY <1>2, <1>3 DEF IInv, Locks, RunsExclusive, Executing
<1>6. /\ \A u \in Executor : Locked(u) => m \notin tx[u].alerts
      /\ \A v \in Reviewer : Reviewing(v) => tx[v].monitor # m
    BY DEF BeginReview, RowFree, Touched, Locked, Reviewing
<1>7. RowsExclusive'
    BY <1>2, <1>3, <1>6 DEF IInv, Locks, RowsExclusive, Locked, Executing, Reviewing
<1>8. ReadsCurrent'
    BY <1>2, <1>3 DEF IInv, Locks, ReadsCurrent, Locked, Executing, Reviewing, BeginReview
<1> QED
    BY <1>1, <1>4, <1>5, <1>7, <1>8 DEF IInv, Locks

\* A refresh writes over what the execution read, and that is the case as it is.
LEMMA CommitWrites ==
    ASSUME IInv, NEW t \in Executor, CommitExecute(t), NEW m \in Monitor
    PROVE  /\ m \notin tx[t].alerts => case'[m] = case[m]
           /\ m \in tx[t].alerts =>
                case'[m] = IF case[m] = None THEN NewCase(tx[t].run)
                           ELSE IF tx[t].run > case[m].latest
                                THEN Refreshed(m, tx[t].run, case[m])
                                ELSE case[m]
<1>1. m \in tx[t].alerts => tx[t].read[m] = case[m]
    BY DEF CommitExecute, IInv, Locks, ReadsCurrent, Locked
<1> QED
    BY <1>1 DEF CommitExecute, Touched, Newer

LEMMA CommitExecuteStep ==
    ASSUME IInv, NEW t \in Executor, CommitExecute(t)
    PROVE  IInv'
<1> DEFINE r == tx[t].run
           alerts == tx[t].alerts
<1>1. /\ t \notin Reviewer /\ Locked(t)
      /\ r \in Run /\ alerts \in SUBSET Monitor /\ detected[r] = None
    BY CaseAssumption DEF CommitExecute, Locked, IInv, Shape, Locks, RunsExclusive
<1>2. /\ trail' = trail /\ detected' = [detected EXCEPT ![r] = alerts]
      /\ tx' = [p \in Executor \cup Reviewer |-> tx'[p]]
      /\ \A p \in Executor \cup Reviewer : p # t => tx'[p] = tx[p]
      /\ tx'[t] = None
    BY DEF IInv, Shape, CommitExecute
<1>3. ASSUME NEW m \in Monitor PROVE case'[m] \in CaseRow \cup {None}
    BY <1>1, CommitWrites, CaseRows DEF IInv, Shape
<1>4. case' \in [Monitor -> CaseRow \cup {None}]
  <2>1. case' = [m \in Monitor |-> case'[m]]
    BY DEF CommitExecute
  <2> QED
    BY <1>3, <2>1
<1>5. Shape'
  <2>1. detected' \in [Run -> (SUBSET Monitor) \cup {None}]
    BY <1>1, <1>2 DEF IInv, Shape
  <2> QED
    BY <1>1, <1>2, <1>4, <2>1 DEF IInv, Shape, Executing, Reviewing
<1>6. RunsExclusive'
  <2>1. ASSUME NEW u \in Executor, Executing(u), u # t PROVE detected'[tx[u].run] = None
    BY <1>1, <1>2, <2>1 DEF IInv, Shape, Locks, RunsExclusive, Locked
  <2> QED
    BY <1>2, <2>1 DEF IInv, Locks, RunsExclusive, Executing
<1>7. RowsExclusive'
    BY <1>1, <1>2 DEF IInv, Locks, RowsExclusive, Locked, Executing, Reviewing
<1>8. ReadsCurrent'
  <2>1. ASSUME NEW u \in Executor, Locked(u), u # t, NEW m \in tx[u].alerts
        PROVE  case'[m] = case[m]
    BY <1>1, <2>1, CommitWrites DEF IInv, Shape, Locks, RowsExclusive, Locked
  <2>2. ASSUME NEW w \in Reviewer, Reviewing(w) PROVE case'[tx[w].monitor] = case[tx[w].monitor]
    BY <1>1, <2>2, CommitWrites DEF IInv, Shape, Locks, RowsExclusive
  <2>3. \A u \in Executor : Locked(u)' => u # t /\ Locked(u) /\ tx'[u] = tx[u]
    BY <1>2 DEF Locked, Executing
  <2>4. \A w \in Reviewer : Reviewing(w)' => Reviewing(w) /\ tx'[w] = tx[w]
    BY <1>1, <1>2 DEF Reviewing
  <2> QED
    BY <2>1, <2>2, <2>3, <2>4 DEF IInv, Locks, ReadsCurrent
<1>9. ASSUME NEW m \in Monitor
      PROVE  Alerting(m)' = IF m \in alerts THEN Alerting(m) \cup {r} ELSE Alerting(m)
    BY <1>1, <1>2, NoneAssumption DEF Alerting, IInv, Shape
<1>10. ASSUME NEW m \in Monitor
       PROVE  /\ IF case'[m] = None THEN Alerting(m)' = {} ELSE case'[m].latest \in Alerting(m)'
              /\ case'[m] # None => \A z \in Alerting(m)' : z <= case'[m].latest
              /\ trail[m] # <<>> => case'[m].status = case[m].status
              /\ trail[m] = <<>> => case'[m] = None \/ case'[m].status = "NEW"
              /\ case'[m] = None => case[m] = None
  <2>1. /\ IF case[m] = None THEN Alerting(m) = {} ELSE case[m].latest \in Alerting(m)
        /\ case[m] # None => \A z \in Alerting(m) : z <= case[m].latest
        /\ trail[m] = <<>> => case[m] = None \/ case[m].status = "NEW"
        /\ case[m] = None => trail[m] = <<>>
    BY DEF IInv, Cases, CaseBacksAlert, SummaryIsNewest, TrailConnected, TrailOfCase
  <2>2. CASE m \notin alerts
    BY <1>9, <2>1, <2>2, CommitWrites
  <2>3. r \in Nat /\ Run \subseteq Nat
    BY <1>1, CaseAssumption
  <2>4. CASE m \in alerts /\ case[m] = None
    <3>1. case'[m] = NewCase(r) /\ case'[m] # None /\ Alerting(m)' = {r}
        BY <1>1, <1>9, <2>1, <2>4, CommitWrites, CaseRows DEF IInv
    <3>2. case'[m].latest = r /\ case'[m].status = "NEW" /\ r <= r
        BY <2>3, <3>1 DEF NewCase
    <3> QED
        BY <2>1, <2>4, <3>1, <3>2
  <2>5. CASE m \in alerts /\ case[m] # None
    <3>1. /\ Alerting(m)' = Alerting(m) \cup {r} /\ Alerting(m) \subseteq Run
          /\ case[m] \in CaseRow /\ case[m].latest \in Run
        BY <1>1, <1>9, <2>5, CaseRows DEF IInv, Alerting, CaseRow
    <3>2. case[m].latest \in Nat /\ Alerting(m) \subseteq Nat
        BY <2>3, <3>1
    <3>3. CASE r > case[m].latest
      <4>1. case'[m] = Refreshed(m, r, case[m]) /\ case'[m] # None
        BY <1>1, <2>5, <3>3, CommitWrites, CaseRows DEF IInv
      <4>2. case'[m].latest = r /\ case'[m].status = case[m].status
        BY <4>1 DEF Refreshed
      <4>3. \A z \in Alerting(m) \cup {r} : z <= r
        <5>1. \A z \in Alerting(m) : z <= case[m].latest
            BY <2>1, <2>5
        <5> QED
            BY <2>3, <3>3, <3>2, <5>1
      <4> QED
        BY <2>1, <2>5, <3>1, <4>1, <4>2, <4>3
    <3>4. CASE ~(r > case[m].latest)
      <4>1. case'[m] = case[m]
        BY <2>5, <3>4, CommitWrites
      <4>2. r <= case[m].latest
        BY <2>3, <3>4, <3>2
      <4> QED
        BY <2>1, <2>5, <3>1, <4>1, <4>2
    <3> QED
        BY <3>3, <3>4
  <2> QED
    BY <2>2, <2>4, <2>5
<1>11. Cases'
    BY <1>2, <1>10 DEF IInv, Cases, CaseBacksAlert, SummaryIsNewest, TrailConnected, TrailOfCase
<1> QED
    BY <1>5, <1>6, <1>7, <1>8, <1>11 DEF IInv, Locks

LEMMA CommitReviewStep ==
    ASSUME IInv, NEW w \in Reviewer, CommitReview(w)
    PROVE  IInv'
<1> DEFINE m == tx[w].monitor
           s == tx[w].step
           c == [status |-> s.to, latest |-> case[m].latest, version |-> case[m].version + 1]
<1>1. /\ w \notin Executor /\ Reviewing(w) /\ m \in Monitor /\ s \in Transition
      /\ case[m] # None /\ case[m].status = s.from /\ case[m].version = tx[w].version
    BY CaseAssumption DEF CommitReview, Reviewing, IInv, Shape, Locks, ReadsCurrent
<1>2. c \in CaseRow /\ c # None
  <2>1. case[m] \in CaseRow /\ case[m].latest \in Run
    BY <1>1 DEF IInv, Shape, CaseRow
  <2> QED
    BY <1>1, <2>1, CaseRows DEF IInv
<1>3. /\ detected' = detected
      /\ case' = [case EXCEPT ![m] = c] /\ trail' = [trail EXCEPT ![m] = Append(trail[m], s)]
      /\ tx' = [p \in Executor \cup Reviewer |-> tx'[p]]
      /\ \A p \in Executor \cup Reviewer : p # w => tx'[p] = tx[p]
      /\ tx'[w] = None
    BY <1>1 DEF IInv, Shape, CommitReview
<1>4. Shape'
  <2>1. case' \in [Monitor -> CaseRow \cup {None}]
    BY <1>1, <1>2, <1>3 DEF IInv, Shape
  <2>2. trail' \in [Monitor -> Seq(Transition)]
    <3>1. Append(trail[m], s) \in Seq(Transition)
        BY <1>1 DEF IInv, Shape
    <3> QED
        BY <1>3, <3>1 DEF IInv, Shape
  <2> QED
    BY <1>1, <1>3, <2>1, <2>2 DEF IInv, Shape, Executing, Reviewing
<1>5. RunsExclusive'
    BY <1>1, <1>3 DEF IInv, Locks, RunsExclusive, Executing
<1>6. RowsExclusive'
    BY <1>1, <1>3 DEF IInv, Locks, RowsExclusive, Locked, Executing, Reviewing
<1>7. ReadsCurrent'
  <2>1. ASSUME NEW u \in Executor, Locked(u), NEW n \in tx[u].alerts PROVE case'[n] = case[n]
    BY <1>1, <1>3, <2>1 DEF IInv, Shape, Locks, RowsExclusive, Locked
  <2>2. ASSUME NEW v \in Reviewer, Reviewing(v), v # w
        PROVE  case'[tx[v].monitor] = case[tx[v].monitor]
    BY <1>1, <1>3, <2>2 DEF IInv, Shape, Locks, RowsExclusive
  <2>3. \A u \in Executor : Locked(u)' => Locked(u) /\ tx'[u] = tx[u]
    BY <1>1, <1>3 DEF Locked, Executing
  <2>4. \A v \in Reviewer : Reviewing(v)' => v # w /\ Reviewing(v) /\ tx'[v] = tx[v]
    BY <1>3 DEF Reviewing
  <2> QED
    BY <2>1, <2>2, <2>3, <2>4 DEF IInv, Locks, ReadsCurrent
<1>8. ASSUME NEW n \in Monitor, n # m
      PROVE  case'[n] = case[n] /\ trail'[n] = trail[n]
    BY <1>3, <1>8 DEF IInv, Shape
<1>9. case'[m] = c /\ trail'[m] = Append(trail[m], s)
    BY <1>1, <1>3 DEF IInv, Shape
<1>10. \A n \in Monitor : Alerting(n)' = Alerting(n)
    BY <1>3 DEF Alerting
<1>11. /\ CaseBacksAlert' /\ SummaryIsNewest' /\ TrailOfCase'
    BY <1>1, <1>2, <1>8, <1>9, <1>10
    DEF IInv, Cases, CaseBacksAlert, SummaryIsNewest, TrailOfCase
<1>12. TrailConnected'
  <2>1. /\ trail[m] \in Seq(Transition)
        /\ \A i \in 1 .. Len(trail[m]) - 1 : trail[m][i].to = trail[m][i + 1].from
        /\ trail[m] # <<>> => trail[m][1].from = "NEW" /\ trail[m][Len(trail[m])].to = s.from
        /\ trail[m] = <<>> => s.from = "NEW"
    BY <1>1 DEF IInv, Shape, Cases, TrailConnected
  <2> DEFINE q == Append(trail[m], s)
             k == Len(trail[m])
  <2>2. /\ k \in Nat /\ Len(q) = k + 1 /\ q # <<>> /\ q[k + 1] = s
        /\ \A i \in 1 .. k : q[i] = trail[m][i]
        /\ trail[m] = <<>> <=> k = 0
    BY <2>1
  <2>3. \A i \in 1 .. Len(q) - 1 : q[i].to = q[i + 1].from
    <3> SUFFICES ASSUME NEW i \in 1 .. k PROVE q[i].to = q[i + 1].from
        BY <2>2
    <3>1. CASE i = k
        BY <2>1, <2>2, <3>1
    <3>2. CASE i # k
        BY <2>1, <2>2, <3>2
    <3> QED
        BY <3>1, <3>2
  <2>4. q[1].from = "NEW" /\ q[Len(q)].to = s.to
    BY <2>1, <2>2
  <2>5. case'[m].status = s.to
    BY <1>9
  <2> DEFINE Path(acts, c0) ==
               /\ \A i \in 1 .. Len(acts) - 1 : acts[i].to = acts[i + 1].from
               /\ acts # <<>> => acts[1].from = "NEW" /\ c0.status = acts[Len(acts)].to
               /\ acts = <<>> => c0 = None \/ c0.status = "NEW"
  <2>6. Path(q, case'[m])
    BY <2>2, <2>3, <2>4, <2>5
  <2>7. ASSUME NEW n \in Monitor PROVE Path(trail'[n], case'[n])
    <3>1. CASE n = m
        BY <1>9, <2>6, <3>1
    <3>2. CASE n # m
        BY <1>8, <3>2, SMTT(20) DEF IInv, Cases, TrailConnected
    <3> QED
        BY <3>1, <3>2
  <2> QED
    BY <2>7 DEF TrailConnected
<1> QED
    BY <1>4, <1>5, <1>6, <1>7, <1>11, <1>12 DEF IInv, Locks, Cases

\* What the executions and reviews of CaseLifecycle can reach satisfies IInv.
LEMMA Invariance == Spec => []IInv
<1>1. IInv /\ [Next]_vars => IInv'
  <2> SUFFICES ASSUME IInv, [Next]_vars PROVE IInv'
    OBVIOUS
  <2>1. CASE UNCHANGED vars
    <3>1. detected' = detected /\ case' = case /\ trail' = trail /\ tx' = tx
        BY <2>1 DEF vars
    <3>2. Cases'
        BY <3>1, CasesStay DEF IInv
    <3> QED
        BY <3>1, <3>2 DEF IInv, Shape, Locks, RunsExclusive, RowsExclusive, ReadsCurrent,
                          Locked, Executing, Reviewing
  <2>2. ASSUME NEW t \in Executor, NEW r \in Run, NEW alerts \in SUBSET Monitor,
               BeginExecute(t, r, alerts)
        PROVE  IInv'
    BY <2>2, BeginExecuteStep
  <2>3. ASSUME NEW t \in Executor, LockCases(t) PROVE IInv'
    BY <2>3, LockCasesStep
  <2>4. ASSUME NEW t \in Executor, CommitExecute(t) PROVE IInv'
    BY <2>4, CommitExecuteStep
  <2>5. ASSUME NEW w \in Reviewer, NEW m \in Monitor, NEW s \in Transition, BeginReview(w, m, s)
        PROVE  IInv'
    BY <2>5, BeginReviewStep
  <2>6. ASSUME NEW w \in Reviewer, CommitReview(w) PROVE IInv'
    BY <2>6, CommitReviewStep
  <2>7. ASSUME NEW p \in Executor \cup Reviewer, Abort(p) PROVE IInv'
    BY <2>7, AbortStep
  <2> QED
    BY <2>1, <2>2, <2>3, <2>4, <2>5, <2>6, <2>7 DEF Next
<1> QED
    BY <1>1, InitStep, PTL DEF Spec

-----------------------------------------------------------------------------
(* Theorems.                                                               *)

\* Cases, detections, trails and transactions keep their types
\* (quarterly_runs.py, api/routes/cases.py).
THEOREM TypeCorrect == Spec => []TypeOK
<1>1. IInv => TypeOK
  <2> SUFFICES ASSUME IInv PROVE TypeOK
    OBVIOUS
  <2>1. \A p \in Reviewer : p \notin Executor
    BY CaseAssumption
  <2>2. DOMAIN tx = Executor \cup Reviewer
    BY DEF IInv, Shape
  <2> QED
    BY <2>1, <2>2 DEF IInv, Shape, TypeOK, Executing, Reviewing
<1> QED
    BY <1>1, Invariance, PTL

\* A monitor has a case exactly if a committed run alerted on it.
THEOREM CasesBackAlerts == Spec => []CaseBacksAlert
<1>1. IInv => CaseBacksAlert
    BY DEF IInv, Cases
<1> QED
    BY <1>1, Invariance, PTL

\* Whatever the order in which runs finish, a case shows the newest that alerted.
THEOREM SummariesAreNewest == Spec => []SummaryIsNewest
<1>1. IInv => SummaryIsNewest
    BY DEF IInv, Cases
<1> QED
    BY <1>1, Invariance, PTL

\* The review actions of a case are one path of the workflow to its status.
THEOREM TrailsConnect == Spec => []TrailConnected
<1>1. IInv => TrailConnected
    BY DEF IInv, Cases
<1> QED
    BY <1>1, Invariance, PTL

\* No write of a case is lost under another: each one counts.
THEOREM VersionsCount == Spec => VersionCounts
<1> DEFINE Counted == \A m \in Monitor : case[m] # None /\ case'[m] # case[m] =>
                        case'[m] # None /\ case'[m].version = case[m].version + 1
<1>1. ASSUME IInv, [Next]_vars PROVE Counted
  <2> SUFFICES ASSUME NEW m \in Monitor, case[m] # None, case'[m] # case[m]
               PROVE  case'[m] # None /\ case'[m].version = case[m].version + 1
    OBVIOUS
  <2>1. ASSUME NEW t \in Executor, CommitExecute(t)
        PROVE  case'[m] # None /\ case'[m].version = case[m].version + 1
    <3>1. tx[t].run \in Run
        BY <1>1, <2>1 DEF CommitExecute, IInv, Shape
    <3>2. case'[m] = Refreshed(m, tx[t].run, case[m])
        BY <1>1, <2>1, CommitWrites
    <3> QED
        BY <1>1, <3>1, <3>2, CaseRows DEF IInv, Refreshed
  <2>2. ASSUME NEW w \in Reviewer, CommitReview(w)
        PROVE  case'[m] # None /\ case'[m].version = case[m].version + 1
    <3>1. /\ tx[w].monitor \in Monitor /\ tx[w].step \in Transition
          /\ case[tx[w].monitor].version = tx[w].version
        BY <1>1, <2>2 DEF CommitReview, IInv, Shape, Locks, ReadsCurrent, Reviewing
    <3>2. m = tx[w].monitor
        BY <1>1, <2>2, <3>1 DEF CommitReview, IInv, Shape
    <3>3. case'[m] = [status |-> tx[w].step.to, latest |-> case[m].latest,
                      version |-> case[m].version + 1]
        BY <1>1, <2>2, <3>1, <3>2 DEF CommitReview, IInv, Shape
    <3>4. case[m].latest \in Run
        BY <1>1 DEF IInv, Shape, CaseRow
    <3> QED
        BY <1>1, <3>1, <3>3, <3>4, CaseRows DEF IInv
  <2>3. ASSUME NEW t \in Executor, NEW r \in Run, NEW alerts \in SUBSET Monitor,
               BeginExecute(t, r, alerts)
        PROVE  case' = case
    BY <2>3 DEF BeginExecute
  <2>4. ASSUME NEW t \in Executor, LockCases(t) PROVE case' = case
    BY <2>4 DEF LockCases
  <2>5. ASSUME NEW w \in Reviewer, NEW n \in Monitor, NEW s \in Transition, BeginReview(w, n, s)
        PROVE  case' = case
    BY <2>5 DEF BeginReview
  <2>6. ASSUME NEW p \in Executor \cup Reviewer, Abort(p) PROVE case' = case
    BY <2>6 DEF Abort
  <2>7. UNCHANGED vars => case' = case
    BY DEF vars
  <2> QED
    BY <1>1, <2>1, <2>2, <2>3, <2>4, <2>5, <2>6, <2>7 DEF Next
<1> QED
    BY <1>1, Invariance, PTL DEF Spec, VersionCounts

-----------------------------------------------------------------------------
(* Alerts in Feishu.  What a script may still create, counted with what is  *)
(* there, never exceeds the scripts that can be under way, which is one if  *)
(* they never overlapped.                                                   *)

AlertBound == IF overlapped \/ Script = {} THEN Cardinality(Script) ELSE 1

\* There are n of a thing, and P may still create one each.
Fits(n, P, bound) == n \in Nat /\ IsFiniteSet(P) /\ n + Cardinality(P) <= bound

Of(rows, a) == {row \in rows : row.alert = a}
RowsOf(a) == Of(archive, a)
Message == {MessageKey(a) : a \in Alert}
KeysOf(k) == {row \in queue : row.key = k}

Creating(a) == {s \in Script : script[s].phase = "create" /\ a \in script[s].create}
Queueing(k) ==
    {s \in Script : script[s].phase = "enqueue" /\ \E a \in script[s].create : MessageKey(a) = k}
Making(t) == {s \in Script : script[s].phase = "makeTable" /\ ScriptTable(s) = t}
RunningScripts == {s \in Script : script[s].phase \in Running}

\* Copies are numbered in the order of their creation.
Numbered(rows) ==
    /\ IsFiniteSet(rows)
    /\ \A x, y \in rows : x.copy = y.copy => x = y
    /\ \A x \in rows : x.copy \in 1 .. Cardinality(rows)

RowCounts ==
    \A a \in Alert : Numbered(RowsOf(a)) /\ Fits(Cardinality(RowsOf(a)), Creating(a), AlertBound)
KeyCounts ==
    \A k \in Message : Numbered(KeysOf(k)) /\ Fits(Cardinality(KeysOf(k)), Queueing(k), AlertBound)
TableCounts == \A t \in Table : Fits(tables[t], Making(t), AlertBound)

ScriptState ==
    [phase : Running \cup {"idle", "done"}, report : Report \cup {0}, scope : SUBSET AlertMonitor,
     cadence : {"quarter", "month"}, create : SUBSET Alert, restore : SUBSET ArchiveRow,
     retire : SUBSET ArchiveRow]

AlertTyped ==
    /\ AlertTypeOK /\ script \in [Script -> ScriptState] /\ IsFiniteSet(archive)
    /\ \A row \in archive : row.table = TableOf(row.alert.report, Cadence[row.alert.monitor])

Alone ==
    ~overlapped => \A s, t \in Script : s # t /\ script[s].phase \in Running => script[t].phase = "idle"

PlanOf(s) == Planned(script[s].report, script[s].cadence, script[s].scope)

\* What a script is about.
Asking(s) ==
    /\ script[s].phase # "idle" => script[s].report \in Report
    /\ script[s].phase = "create" => script[s].create \subseteq PlanOf(s)
    /\ script[s].phase = "enqueue" => script[s].create \subseteq AlertsOf(script[s].report, script[s].scope)
    /\ script[s].phase \in {"loadQueue", "enqueue"} => script[s].cadence = "quarter"
    /\ \A row \in script[s].restore \cup script[s].retire : row.alert.monitor \in script[s].scope
    /\ IsFiniteSet(script[s].restore) /\ IsFiniteSet(script[s].retire)

\* What a script that is alone has left to do.
Left(s) ==
    /\ script[s].restore \cup script[s].retire \subseteq archive
    /\ \A row \in script[s].restore : row.alert \in PlanOf(s)
    /\ \A row \in script[s].retire : row.alert \notin PlanOf(s)
    /\ \A a \in PlanOf(s) :
           \/ script[s].phase = "create" /\ a \in script[s].create
           \/ \E row \in archive : row.alert = a /\ (row.current \/ row \in script[s].restore)
    /\ \A row \in TableRows(s) :
           row.current /\ row.alert.monitor \in script[s].scope /\ row.alert \notin PlanOf(s) =>
               row \in script[s].retire
    /\ script[s].phase \in {"retire", "done"} => script[s].restore = {}
    /\ script[s].phase = "done" => script[s].retire = {}

Writing == {"create", "restore", "retire"}

Converging ==
    ~overlapped => \A s \in Script :
        script[s].phase \in Writing \/ (script[s].phase = "done" /\ script[s].cadence = "month") => Left(s)

AlertInv ==
    /\ AlertTyped /\ RowCounts /\ KeyCounts /\ TableCounts /\ Alone /\ Converging
    /\ \A s \in Script : Asking(s)

LEMMA ScriptsAreCounted == Cardinality(Script) \in Nat /\ AlertBound \in Nat /\ AlertBound <= Cardinality(Script)
<1>1. Cardinality(Script) \in Nat
    BY AlertAssumption, FS_CardinalityType
<1>2. Script # {} => Cardinality(Script) # 0
    BY AlertAssumption, FS_EmptySet
<1> QED BY <1>1, <1>2 DEF AlertBound

LEMMA FewerCreate ==
    ASSUME NEW n, NEW P, NEW bound \in Nat, Fits(n, P, bound), NEW Q, Q \subseteq P
    PROVE  Fits(n, Q, bound)
<1>1. Q \in SUBSET P /\ IsFiniteSet(P) /\ n \in Nat /\ n + Cardinality(P) <= bound
    BY DEF Fits
<1>2. IsFiniteSet(Q) /\ Cardinality(Q) <= Cardinality(P)
    BY <1>1, FS_Subset
<1>3. Cardinality(P) \in Nat /\ Cardinality(Q) \in Nat
    BY <1>1, <1>2, FS_CardinalityType
<1> QED BY <1>1, <1>2, <1>3 DEF Fits

LEMMA OneCreates ==
    ASSUME NEW n, NEW P, NEW bound \in Nat, Fits(n, P, bound), NEW s \in P, NEW Q, Q \subseteq P \ {s}
    PROVE  Fits(n + 1, Q, bound)
<1>1. IsFiniteSet(P) /\ n \in Nat /\ n + Cardinality(P) <= bound
    BY DEF Fits
<1>2. IsFiniteSet(P \ {s}) /\ Cardinality(P \ {s}) = Cardinality(P) - 1
    BY <1>1, FS_RemoveElement
<1>3. Cardinality(P) \in Nat /\ Cardinality(P \ {s}) \in Nat
    BY <1>1, <1>2, FS_CardinalityType
<1>4. Fits(n + 1, P \ {s}, bound)
    BY <1>1, <1>2, <1>3 DEF Fits
<1> QED BY <1>4, FewerCreate

LEMMA MoreFit ==
    ASSUME NEW n, NEW P, NEW bound \in Nat, Fits(n, P, bound), NEW more \in Nat, bound <= more
    PROVE  Fits(n, P, more)
<1>1. IsFiniteSet(P) /\ n \in Nat /\ n + Cardinality(P) <= bound
    BY DEF Fits
<1>2. Cardinality(P) \in Nat
    BY <1>1, FS_CardinalityType
<1> QED BY <1>1, <1>2 DEF Fits

\* The first rows of a batch are some of it.
LEMMA SomeOfSize ==
    ASSUME NEW S, IsFiniteSet(S), NEW n \in Nat, n <= Cardinality(S)
    PROVE  \E B \in SUBSET S : Cardinality(B) = n
<1>1. PICK f : f \in Bijection(1 .. Cardinality(S), S)
    BY FS_CardinalityType DEF ExistsBijection
<1>2. Cardinality(S) \in Nat
    BY FS_CardinalityType
<1> DEFINE B == {f[i] : i \in 1 .. n}
           g == [i \in 1 .. n |-> f[i]]
<1>3. 1 .. n \subseteq 1 .. Cardinality(S)
    BY <1>2
<1>4. B \in SUBSET S
    BY <1>1, <1>3 DEF Bijection, Injection
<1>5. g \in Bijection(1 .. n, B)
  <2>1. g \in [1 .. n -> B]
    OBVIOUS
  <2>2. \A i, j \in 1 .. n : g[i] = g[j] => i = j
    BY <1>1, <1>3 DEF Bijection, Injection, IsInjective
  <2>3. \A b \in B : \E i \in 1 .. n : g[i] = b
    OBVIOUS
  <2> HIDE DEF B, g
  <2> QED BY <2>1, <2>2, <2>3 DEF Bijection, Injection, IsInjective, Surjection
<1>6. IsFiniteSet(1 .. n) /\ Cardinality(1 .. n) = n
    BY FS_Interval
<1>7. Cardinality(B) = n
  <2>1. ExistsBijection(1 .. n, B)
    BY <1>5 DEF ExistsBijection
  <2> HIDE DEF B, g
  <2> QED BY <1>6, <2>1, FS_Bijection
<1> QED BY <1>4, <1>7

LEMMA BatchIsPart == ASSUME NEW S, IsFiniteSet(S) PROVE BatchOf(S) \subseteq S
<1>1. Cardinality(S) \in Nat /\ BatchLimit \in Nat
    BY FS_CardinalityType, AlertAssumption
<1>2. CASE Cardinality(S) <= BatchLimit
    BY <1>2 DEF BatchOf
<1>3. CASE ~(Cardinality(S) <= BatchLimit)
  <2>1. \E B \in SUBSET S : Cardinality(B) = BatchLimit
    BY <1>1, <1>3, SomeOfSize
  <2> QED BY <1>3, <2>1 DEF BatchOf
<1> QED BY <1>2, <1>3

LEMMA RowAdded ==
    ASSUME NEW rows, Numbered(rows), NEW row, row.copy = Cardinality(rows) + 1
    PROVE  /\ Numbered(rows \cup {row}) /\ Cardinality(rows \cup {row}) = Cardinality(rows) + 1
           /\ row \notin rows
<1>1. IsFiniteSet(rows) /\ \A x \in rows : x.copy \in 1 .. Cardinality(rows)
    BY DEF Numbered
<1>2. Cardinality(rows) \in Nat
    BY <1>1, FS_CardinalityType
<1>3. \A x \in rows : x.copy # row.copy
    BY <1>1, <1>2
<1>4. row \notin rows
    BY <1>3
<1>5. IsFiniteSet(rows \cup {row}) /\ Cardinality(rows \cup {row}) = Cardinality(rows) + 1
    BY <1>1, <1>4, FS_AddElement
<1>6. \A x, y \in rows \cup {row} : x.copy = y.copy => x = y
    BY <1>3 DEF Numbered
<1>7. \A x \in rows \cup {row} : x.copy \in 1 .. Cardinality(rows) + 1
  <2>1. Cardinality(rows) + 1 \in 1 .. Cardinality(rows) + 1
    BY <1>2
  <2>2. \A i \in 1 .. Cardinality(rows) : i \in 1 .. Cardinality(rows) + 1
    BY <1>2
  <2> QED BY <1>1, <2>1, <2>2
<1> QED BY <1>4, <1>5, <1>6, <1>7 DEF Numbered

-----------------------------------------------------------------------------
(* What marking and creating make of rows.                                 *)

Hit(rows, row) == \E x \in rows : x.alert = row.alert /\ x.copy = row.copy
Marked(rows, value, row) == IF Hit(rows, row) THEN [row EXCEPT !.current = value] ELSE row

LEMMA MarkedRow ==
    ASSUME NEW row \in ArchiveRow, NEW rows, NEW value \in BOOLEAN
    PROVE  /\ Marked(rows, value, row) \in ArchiveRow
           /\ Marked(rows, value, row).alert = row.alert /\ Marked(rows, value, row).copy = row.copy
           /\ Marked(rows, value, row).table = row.table
           /\ Marked(rows, value, row).current = IF Hit(rows, row) THEN value ELSE row.current
           /\ ~Hit(rows, row) => Marked(rows, value, row) = row
BY DEF ArchiveRow, Marked

LEMMA MarkingKeepsCounts ==
    ASSUME NEW old \in SUBSET ArchiveRow, NEW rows, NEW value \in BOOLEAN, NEW new,
           new = {Marked(rows, value, row) : row \in old}, NEW a, Numbered(Of(old, a))
    PROVE  Numbered(Of(new, a)) /\ Cardinality(Of(new, a)) = Cardinality(Of(old, a))
<1> DEFINE f == [row \in Of(old, a) |-> Marked(rows, value, row)]
<1>1. \A row \in Of(old, a) :
          /\ row \in ArchiveRow /\ row \in old /\ row.alert = a
          /\ f[row].alert = a /\ f[row].copy = row.copy /\ f[row] \in new
    BY MarkedRow DEF Of
<1>2. \A row \in Of(new, a) : \E x \in Of(old, a) : f[x] = row
    BY MarkedRow DEF Of
<1>3. f \in Bijection(Of(old, a), Of(new, a))
  <2>1. f \in [Of(old, a) -> Of(new, a)]
    BY <1>1 DEF Of
  <2>2. DOMAIN f = Of(old, a)
    OBVIOUS
  <2>3. \A x, y \in Of(old, a) : f[x] = f[y] => x = y
    BY <1>1 DEF Numbered
  <2> HIDE DEF f
  <2> QED BY <1>2, <2>1, <2>2, <2>3 DEF Bijection, Injection, IsInjective, Surjection
<1> HIDE DEF f
<1>4. IsFiniteSet(Of(old, a))
    BY DEF Numbered
<1>5. IsFiniteSet(Of(new, a)) /\ Cardinality(Of(new, a)) = Cardinality(Of(old, a))
  <2>1. ExistsBijection(Of(old, a), Of(new, a))
    BY <1>3 DEF ExistsBijection
  <2> QED BY <1>4, <2>1, FS_Bijection
<1>6. \A x, y \in Of(new, a) : x.copy = y.copy => x = y
    BY <1>1, <1>2 DEF Numbered
<1>7. \A x \in Of(new, a) : x.copy \in 1 .. Cardinality(Of(new, a))
    BY <1>1, <1>2, <1>5 DEF Numbered
<1> QED BY <1>5, <1>6, <1>7 DEF Numbered

\* Rows of finitely many alerts.
LEMMA MarkingIsFinite ==
    ASSUME NEW old, IsFiniteSet(old), NEW rows, NEW value
    PROVE  IsFiniteSet({Marked(rows, value, row) : row \in old})
<1> DEFINE f == [row \in old |-> Marked(rows, value, row)]
           new == {Marked(rows, value, row) : row \in old}
<1>1. f \in Surjection(old, new)
    BY DEF Surjection
<1> HIDE DEF f, new
<1>2. IsFiniteSet(new)
    BY <1>1, FS_Surjection
<1> QED BY <1>2 DEF new

LEMMA CreatingIsFinite ==
    ASSUME IsFiniteSet(archive), NEW batch, IsFiniteSet(batch), NEW table
    PROVE  IsFiniteSet(archive \cup {NewRow(a, table) : a \in batch})
<1> DEFINE f == [a \in batch |-> NewRow(a, table)]
           new == {NewRow(a, table) : a \in batch}
<1>1. f \in Surjection(batch, new)
    BY DEF Surjection
<1> HIDE DEF f, new
<1>2. IsFiniteSet(new)
    BY <1>1, FS_Surjection
<1>3. IsFiniteSet(archive \cup new)
    BY <1>2, FS_Union
<1> QED BY <1>3 DEF new

LEMMA CreatedOf ==
    ASSUME NEW batch, NEW table, NEW a
    PROVE  LET rows == archive \cup {NewRow(x, table) : x \in batch}
           IN  Of(rows, a) = IF a \in batch THEN RowsOf(a) \cup {NewRow(a, table)} ELSE RowsOf(a)
<1>1. \A x : NewRow(x, table).alert = x
    BY DEF NewRow
<1> QED BY <1>1 DEF Of, RowsOf

-----------------------------------------------------------------------------
(* What most steps leave as it is.                                         *)

LEMMA AlertTypedNext ==
    ASSUME script' \in [Script -> ScriptState], tables' \in [Table -> 0 .. Cardinality(Script)],
           archive' \subseteq ArchiveRow, IsFiniteSet(archive'), queue' \subseteq QueueRow,
           scriptRuns' \in 0 .. MaxScriptRuns, overlapped' \in BOOLEAN,
           \A row \in archive' : row.table = TableOf(row.alert.report, Cadence[row.alert.monitor])
    PROVE  AlertTyped'
<1>1. \A s \in Script : /\ script'[s].phase \in Running \cup {"idle", "done"}
                        /\ script'[s].scope \subseteq AlertMonitor
                        /\ script'[s].create \subseteq Alert
                        /\ script'[s].restore \cup script'[s].retire \subseteq ArchiveRow
    BY DEF ScriptState
<1> QED BY <1>1 DEF AlertTyped, AlertTypeOK

LEMMA RowCountsKept ==
    ASSUME AlertInv, AlertBound' \in Nat, AlertBound <= AlertBound', archive' = archive,
           \A a \in Alert : Creating(a)' \subseteq Creating(a)
    PROVE  RowCounts'
<1> SUFFICES ASSUME NEW a \in Alert
             PROVE  Numbered(RowsOf(a))' /\ Fits(Cardinality(RowsOf(a))', Creating(a)', AlertBound')
    BY DEF RowCounts, Fits, Numbered
<1>1. RowsOf(a)' = RowsOf(a) /\ Numbered(RowsOf(a))
    BY DEF RowsOf, Of, AlertInv, RowCounts
<1>2. PICK creating, bound : creating = Creating(a)' /\ bound = AlertBound'
    OBVIOUS
<1>3. Fits(Cardinality(RowsOf(a)), Creating(a), AlertBound)
    BY DEF AlertInv, RowCounts
<1>4. creating \subseteq Creating(a) /\ bound \in Nat /\ AlertBound <= bound
    BY <1>2
<1>5. Fits(Cardinality(RowsOf(a)), creating, bound)
  <2>1. Fits(Cardinality(RowsOf(a)), Creating(a), bound)
    BY <1>3, <1>4, ScriptsAreCounted, MoreFit
  <2> QED BY <1>4, <2>1, FewerCreate
<1> QED BY <1>1, <1>2, <1>5 DEF Numbered

LEMMA KeyCountsKept ==
    ASSUME AlertInv, AlertBound' \in Nat, AlertBound <= AlertBound', queue' = queue,
           \A k \in Message : Queueing(k)' \subseteq Queueing(k)
    PROVE  KeyCounts'
<1> SUFFICES ASSUME NEW k \in Message
             PROVE  Numbered(KeysOf(k))' /\ Fits(Cardinality(KeysOf(k))', Queueing(k)', AlertBound')
    BY DEF KeyCounts, Fits, Numbered, Message, MessageKey
<1>1. KeysOf(k)' = KeysOf(k) /\ Numbered(KeysOf(k))
    BY DEF KeysOf, AlertInv, KeyCounts
<1>2. PICK queueing, bound : queueing = Queueing(k)' /\ bound = AlertBound'
    OBVIOUS
<1>3. Fits(Cardinality(KeysOf(k)), Queueing(k), AlertBound)
    BY DEF AlertInv, KeyCounts
<1>4. queueing \subseteq Queueing(k) /\ bound \in Nat /\ AlertBound <= bound
    BY <1>2
<1>5. Fits(Cardinality(KeysOf(k)), queueing, bound)
  <2>1. Fits(Cardinality(KeysOf(k)), Queueing(k), bound)
    BY <1>3, <1>4, ScriptsAreCounted, MoreFit
  <2> QED BY <1>4, <2>1, FewerCreate
<1> QED BY <1>1, <1>2, <1>5 DEF Numbered

LEMMA TableCountsKept ==
    ASSUME AlertInv, AlertBound' \in Nat, AlertBound <= AlertBound', tables' = tables,
           \A t \in Table : Making(t)' \subseteq Making(t)
    PROVE  TableCounts'
<1> SUFFICES ASSUME NEW t \in Table PROVE Fits(tables[t], Making(t)', AlertBound')
    BY DEF TableCounts, Fits, Table
<1>2. PICK making, bound : making = Making(t)' /\ bound = AlertBound'
    OBVIOUS
<1>3. Fits(tables[t], Making(t), AlertBound)
    BY DEF AlertInv, TableCounts
<1>4. making \subseteq Making(t) /\ bound \in Nat /\ AlertBound <= bound
    BY <1>2
<1>5. Fits(tables[t], making, bound)
  <2>1. Fits(tables[t], Making(t), bound)
    BY <1>3, <1>4, ScriptsAreCounted, MoreFit
  <2> QED BY <1>4, <2>1, FewerCreate
<1> QED BY <1>2, <1>5

\* While one script is running the others are idle, or they have overlapped.
LEMMA SoleStep ==
    ASSUME AlertInv, NEW s \in Script, script[s].phase \in Running,
           \A t \in Script : t # s => script'[t] = script[t],
           overlapped' = overlapped,
           AlertTyped', RowCounts', KeyCounts', TableCounts', Asking(s)',
           ~overlapped /\ (script'[s].phase \in Writing
                              \/ (script'[s].phase = "done" /\ script'[s].cadence = "month")) => Left(s)'
    PROVE  AlertInv'
<1>1. \A t \in Script : ~overlapped /\ t # s => script[t].phase = "idle"
    BY DEF AlertInv, Alone
<1>2. Alone'
    BY <1>1 DEF Alone, Running
<1>3. \A t \in Script : Asking(t)'
    BY DEF AlertInv, Asking, PlanOf
<1>4. Converging'
    BY <1>1 DEF Converging, Writing
<1> QED BY <1>2, <1>3, <1>4 DEF AlertInv

LEMMA RunningFit ==
    ASSUME AlertInv, NEW P, P \subseteq RunningScripts PROVE Fits(0, P, AlertBound)
<1>1. P \in SUBSET Script /\ IsFiniteSet(Script)
    BY AlertAssumption DEF RunningScripts
<1>2. IsFiniteSet(P) /\ Cardinality(P) <= Cardinality(Script) /\ Cardinality(P) \in Nat
    BY <1>1, FS_Subset, FS_CardinalityType
<1>3. CASE overlapped \/ Script = {}
    BY <1>2, <1>3 DEF AlertBound, Fits
<1>4. CASE ~overlapped /\ Script # {}
  <2>1. \A s, t \in P : s = t
    BY <1>1, <1>4 DEF AlertInv, Alone, RunningScripts, Running
  <2>2. Cardinality(P) <= 1
    <3>1. CASE P = {}
      BY <3>1, FS_EmptySet
    <3>2. CASE P # {}
      <4>1. PICK s : P = {s}
        BY <2>1, <3>2
      <4> QED BY <4>1, FS_Singleton
    <3> QED BY <3>1, <3>2
  <2> QED BY <1>2, <1>4, <2>2 DEF AlertBound, Fits
<1> QED BY <1>3, <1>4

\* A script that does not come to write anything more.
LEMMA NoMoreRows ==
    ASSUME \A t \in Script : script'[t].phase = "create" =>
               script[t].phase = "create" /\ script'[t].create \subseteq script[t].create
    PROVE  \A a \in Alert : Creating(a)' \subseteq Creating(a)
BY DEF Creating

LEMMA NoMoreMessages ==
    ASSUME \A t \in Script : script'[t].phase = "enqueue" =>
               script[t].phase = "enqueue" /\ script'[t].create \subseteq script[t].create
    PROVE  \A k \in Message : Queueing(k)' \subseteq Queueing(k)
BY DEF Queueing, MessageKey

LEMMA NoMoreTables ==
    ASSUME \A t \in Script : script'[t].phase = "makeTable" =>
               /\ script[t].phase = "makeTable"
               /\ script'[t].report = script[t].report /\ script'[t].cadence = script[t].cadence
    PROVE  \A t \in Table : Making(t)' \subseteq Making(t)
BY DEF Making, ScriptTable, TableOf

-----------------------------------------------------------------------------
(* Action by action.                                                       *)

LEMMA AlertInitially == AlertInit => AlertInv
<1> SUFFICES ASSUME AlertInit PROVE AlertInv
    OBVIOUS
<1> USE AlertAssumption DEF AlertInit, IdleScript
<1>1. IdleScript \in ScriptState
    BY DEF ScriptState
<1>2. script \in [Script -> ScriptState] /\ \A s \in Script : script[s] = IdleScript
    BY <1>1
<1>3. IsFiniteSet({}) /\ Cardinality({}) = 0
    BY FS_EmptySet
<1>4. AlertTyped
  <2>1. 0 \in 0 .. Cardinality(Script) /\ 0 \in 0 .. MaxScriptRuns
    <3>1. Cardinality(Script) \in Nat /\ MaxScriptRuns \in Nat
      BY ScriptsAreCounted
    <3> QED BY ONLY <3>1
  <2>2. AlertTypeOK
    BY <1>2, <2>1 DEF AlertTypeOK
  <2> QED BY <1>2, <1>3, <2>2 DEF AlertTyped
<1>5. \A P : P = {} => Fits(0, P, AlertBound)
    BY <1>3, ScriptsAreCounted DEF Fits
<1>6. RowCounts
  <2>1. \A a \in Alert : Creating(a) = {} /\ RowsOf(a) = {}
    BY <1>2 DEF Creating, RowsOf, Of
  <2> QED BY <1>3, <1>5, <2>1 DEF RowCounts, Numbered
<1>7. KeyCounts
  <2>1. \A k \in Message : Queueing(k) = {} /\ KeysOf(k) = {}
    BY <1>2 DEF Queueing, KeysOf
  <2> QED BY <1>3, <1>5, <2>1 DEF KeyCounts, Numbered
<1>8. TableCounts
  <2>1. \A t \in Table : Making(t) = {} /\ tables[t] = 0
    BY <1>2 DEF Making
  <2> QED BY <1>5, <2>1 DEF TableCounts
<1>9. Alone /\ Converging
    BY <1>2 DEF Alone, Converging, Writing, Running
<1>10. \A s \in Script : Asking(s)
    BY <1>2, <1>3 DEF Asking
<1> QED BY <1>4, <1>6, <1>7, <1>8, <1>9, <1>10 DEF AlertInv

LEMMA KeepsScriptStops ==
    ASSUME AlertInv, NEW s \in Script, script[s].phase \in Running, Stop(s),
           UNCHANGED <<tables, archive, queue, scriptRuns, overlapped>>
    PROVE  AlertInv'
<1> USE DEF Stop, AlertInv
<1>1. IdleScript \in ScriptState /\ IdleScript.phase = "idle"
    BY DEF ScriptState, IdleScript
<1>2. /\ script' \in [Script -> ScriptState] /\ script'[s] = IdleScript
      /\ \A t \in Script : t # s => script'[t] = script[t]
    BY <1>1 DEF AlertTyped
<1>3. AlertTyped'
    BY <1>2, AlertTypedNext DEF AlertTyped, AlertTypeOK
<1>4. AlertBound' \in Nat /\ AlertBound <= AlertBound'
    BY ScriptsAreCounted DEF AlertBound
<1>5. RowCounts'
    BY <1>1, <1>2, <1>4, NoMoreRows, RowCountsKept
<1>6. KeyCounts'
    BY <1>1, <1>2, <1>4, NoMoreMessages, KeyCountsKept
<1>7. TableCounts'
    BY <1>1, <1>2, <1>4, NoMoreTables, TableCountsKept
<1>8. Asking(s)'
    BY <1>1, <1>2, FS_EmptySet DEF Asking, IdleScript
<1> QED BY <1>1, <1>2, <1>3, <1>5, <1>6, <1>7, <1>8, SoleStep DEF Writing

LEMMA KeepsScriptStart ==
    ASSUME AlertInv, NEW s \in Script, NEW phase \in {"ensure", "loadQueue"}, NEW report \in Report,
           NEW scope \in MonitorScope, NEW cadence \in {"quarter", "month"},
           phase = "loadQueue" => cadence = "quarter", Start(s, phase, report, scope, cadence)
    PROVE  AlertInv'
<1>0. /\ phase \in {"ensure", "loadQueue"} /\ report \in Report
      /\ phase = "loadQueue" => cadence = "quarter"
    OBVIOUS
<1> USE DEF Start, AlertInv
<1> DEFINE begun == [IdleScript EXCEPT !.phase = phase, !.report = report, !.scope = scope,
                                       !.cadence = cadence]
<1>1. scope \in SUBSET AlertMonitor
    BY AlertAssumption
<1>2. /\ IdleScript \in ScriptState /\ IdleScript.phase = "idle"
      /\ begun \in ScriptState /\ begun.phase = phase /\ begun.report = report /\ begun.scope = scope
      /\ begun.cadence = cadence
      /\ begun.create = {} /\ begun.restore = {} /\ begun.retire = {}
    BY <1>1 DEF ScriptState, IdleScript, Running
<1>3. /\ script' \in [Script -> ScriptState] /\ script'[s] = begun
      /\ \A t \in Script : t # s =>
             /\ script[t].phase = "done" => script'[t] = IdleScript
             /\ script[t].phase # "done" => script'[t] = script[t]
    BY <1>2 DEF AlertTyped
<1> HIDE DEF begun
<1>4. scriptRuns' \in 0 .. MaxScriptRuns /\ overlapped' \in BOOLEAN
  <2>1. scriptRuns \in 0 .. MaxScriptRuns /\ MaxScriptRuns \in Nat /\ overlapped \in BOOLEAN
    BY AlertAssumption DEF AlertTyped, AlertTypeOK
  <2>2. scriptRuns' \in 0 .. MaxScriptRuns
    BY <2>1
  <2>3. overlapped' \in BOOLEAN
    BY <2>1
  <2> QED BY <2>2, <2>3
<1>5. AlertTyped'
    BY <1>3, <1>4, AlertTypedNext DEF AlertTyped, AlertTypeOK
<1>6. AlertBound' \in Nat /\ AlertBound <= AlertBound'
  <2>1. overlapped => overlapped'
    OBVIOUS
  <2>2. AlertBound' \in {AlertBound, Cardinality(Script)}
    BY <2>1 DEF AlertBound
  <2> QED BY <2>2, ScriptsAreCounted
<1>7. RowCounts'
    BY <1>2, <1>3, <1>6, NoMoreRows, RowCountsKept
<1>8. KeyCounts'
    BY <1>2, <1>3, <1>6, NoMoreMessages, KeyCountsKept
<1>9. TableCounts'
    BY <1>2, <1>3, <1>6, NoMoreTables, TableCountsKept
<1>10. \A t \in Script : Asking(t)'
  <2>1. Asking(s)'
    BY ONLY <1>0, <1>2, <1>3, FS_EmptySet DEF Asking
  <2>2. ASSUME NEW t \in Script, t # s PROVE Asking(t)'
    <3>1. CASE script[t].phase = "done"
      BY <1>2, <1>3, <2>2, <3>1, FS_EmptySet DEF Asking, IdleScript
    <3>2. CASE script[t].phase # "done"
      BY <1>3, <2>2, <3>2 DEF Asking, PlanOf
    <3> QED BY <3>1, <3>2
  <2> QED BY <2>1, <2>2
<1>11. \A t \in Script : ~overlapped' /\ t # s => script'[t].phase = "idle"
  <2>1. \A t \in Script : script[t].phase \in Running \cup {"idle", "done"}
    BY DEF AlertTyped, AlertTypeOK
  <2> QED BY <1>2, <1>3, <2>1
<1>12. Alone'
    BY <1>11 DEF Alone, Running
<1>13. Converging'
    BY <1>2, <1>3, <1>11 DEF Converging, Writing
<1> QED BY <1>5, <1>7, <1>8, <1>9, <1>10, <1>12, <1>13

\* A step of a running script that only changes what it is about.
LEMMA ScriptTurns ==
    ASSUME AlertInv, NEW s \in Script, script[s].phase \in Running, NEW new \in ScriptState,
           script' = [script EXCEPT ![s] = new],
           UNCHANGED <<tables, archive, queue, scriptRuns, overlapped>>,
           new.phase = "create" => \A a \in new.create :
               RowsOf(a) = {} \/ (script[s].phase = "create" /\ a \in script[s].create),
           new.phase = "enqueue" => \A a \in new.create :
               \/ KeysOf(MessageKey(a)) = {}
               \/ script[s].phase = "enqueue" /\ a \in script[s].create,
           new.phase = "makeTable" => tables[TableOf(new.report, new.cadence)] = 0,
           Asking(s)',
           ~overlapped /\ (new.phase \in Writing \/ (new.phase = "done" /\ new.cadence = "month")) => Left(s)'
    PROVE  AlertInv'
<1>1. /\ script' \in [Script -> ScriptState] /\ script'[s] = new
      /\ \A t \in Script : t # s => script'[t] = script[t]
    BY DEF AlertInv, AlertTyped
<1>2. AlertTyped'
    BY <1>1, AlertTypedNext DEF AlertInv, AlertTyped, AlertTypeOK
<1>3. AlertBound' = AlertBound /\ AlertBound \in Nat
    BY ScriptsAreCounted DEF AlertBound
<1>4. Cardinality({}) = 0
    BY FS_EmptySet
<1>5. RowCounts'
  <2> SUFFICES ASSUME NEW a \in Alert
               PROVE  Numbered(RowsOf(a)) /\ Fits(Cardinality(RowsOf(a)), Creating(a)', AlertBound)
      BY <1>3 DEF RowCounts, RowsOf, Of, Fits, Numbered
  <2>1. PICK creating : creating = Creating(a)'
      OBVIOUS
  <2>2. Numbered(RowsOf(a)) /\ Fits(Cardinality(RowsOf(a)), Creating(a), AlertBound)
      BY DEF AlertInv, RowCounts
  <2>3. creating \subseteq RunningScripts
      BY <1>1, <2>1 DEF Creating, RunningScripts, Running
  <2>4. CASE creating \subseteq Creating(a)
      BY <1>3, <2>1, <2>2, <2>4, FewerCreate
  <2>5. CASE ~(creating \subseteq Creating(a))
    <3>1. RowsOf(a) = {}
        BY <1>1, <2>1, <2>5 DEF Creating
    <3> QED BY <1>4, <2>1, <2>2, <2>3, <3>1, RunningFit
  <2> QED BY <2>4, <2>5
<1>6. KeyCounts'
  <2> SUFFICES ASSUME NEW k \in Message
               PROVE  Numbered(KeysOf(k)) /\ Fits(Cardinality(KeysOf(k)), Queueing(k)', AlertBound)
      BY <1>3 DEF KeyCounts, KeysOf, Fits, Numbered, Message, MessageKey
  <2>1. PICK queueing : queueing = Queueing(k)'
      OBVIOUS
  <2>2. Numbered(KeysOf(k)) /\ Fits(Cardinality(KeysOf(k)), Queueing(k), AlertBound)
      BY DEF AlertInv, KeyCounts
  <2>3. queueing \subseteq RunningScripts
      BY <1>1, <2>1 DEF Queueing, RunningScripts, Running
  <2>4. CASE queueing \subseteq Queueing(k)
      BY <1>3, <2>1, <2>2, <2>4, FewerCreate
  <2>5. CASE ~(queueing \subseteq Queueing(k))
    <3>1. KeysOf(k) = {}
        BY <1>1, <2>1, <2>5 DEF Queueing, MessageKey
    <3> QED BY <1>4, <2>1, <2>2, <2>3, <3>1, RunningFit
  <2> QED BY <2>4, <2>5
<1>7. TableCounts'
  <2> SUFFICES ASSUME NEW t \in Table PROVE Fits(tables[t], Making(t)', AlertBound)
      BY <1>3 DEF TableCounts, Fits, Table
  <2>1. PICK making : making = Making(t)'
      OBVIOUS
  <2>2. Fits(tables[t], Making(t), AlertBound)
      BY DEF AlertInv, TableCounts
  <2>3. making \subseteq RunningScripts
      BY <1>1, <2>1 DEF Making, RunningScripts, Running
  <2>4. CASE making \subseteq Making(t)
      BY <1>3, <2>1, <2>2, <2>4, FewerCreate
  <2>5. CASE ~(making \subseteq Making(t))
    <3>1. tables[t] = 0
        BY <1>1, <2>1, <2>5 DEF Making, ScriptTable
    <3> QED BY <2>1, <2>3, <3>1, RunningFit
  <2> QED BY <2>4, <2>5
<1> QED BY <1>1, <1>2, <1>5, <1>6, <1>7, SoleStep

LEMMA KeepsEnsureTable == ASSUME AlertInv, NEW s \in Script, EnsureTable(s) PROVE AlertInv'
<1> DEFINE turned(phase) == [script[s] EXCEPT !.phase = phase]
<1>1. script[s].phase = "ensure" /\ script[s].phase \in Running /\ script[s] \in ScriptState
    BY DEF EnsureTable, AlertInv, AlertTyped, Running
<1>2. ASSUME NEW phase \in {"makeTable", "load"}, script' = [script EXCEPT ![s] = turned(phase)],
             phase = "makeTable" => tables[ScriptTable(s)] = 0
      PROVE  AlertInv'
  <2>1. PICK new : new = turned(phase)
      OBVIOUS
  <2>2. /\ new \in ScriptState /\ new.phase = phase /\ new.report = script[s].report
        /\ new.cadence = script[s].cadence /\ new.scope = script[s].scope
        /\ new.restore = script[s].restore /\ new.retire = script[s].retire
      BY <1>1, <2>1 DEF ScriptState, Running
  <2>3. script' = [script EXCEPT ![s] = new] /\ script'[s] = new
      BY <1>2, <2>1 DEF AlertInv, AlertTyped
  <2>4. Asking(s)'
    <3>1. Asking(s)
        BY DEF AlertInv
    <3> QED BY <1>1, <1>2, <2>2, <2>3, <3>1 DEF Asking
  <2>5. new.phase = "makeTable" => tables[TableOf(new.report, new.cadence)] = 0
      BY <1>2, <2>2 DEF ScriptTable
  <2>6. new.phase \notin {"create", "enqueue", "restore", "retire", "done"}
      BY <1>2, <2>2
  <2> HIDE DEF turned
  <2> QED BY <1>1, <2>2, <2>3, <2>4, <2>5, <2>6, ScriptTurns DEF EnsureTable, Writing
<1> QED BY <1>1, <1>2, KeepsScriptStops DEF EnsureTable

LEMMA KeepsNextPhase == ASSUME AlertInv, NEW s \in Script, NextPhase(s) PROVE AlertInv'
<1>1. /\ script[s].phase \in Writing /\ script[s].phase \in Running /\ script[s] \in ScriptState
      /\ script[s].phase # "idle"
    BY DEF NextPhase, AlertInv, AlertTyped, Running, Writing
<1>2. Asking(s)
    BY DEF AlertInv
<1>3. ~overlapped => Left(s)
    BY <1>1 DEF AlertInv, Converging
<1>4. PICK new :
          /\ script' = [script EXCEPT ![s] = new]
          /\ \/ new = [script[s] EXCEPT !.phase = "ensure", !.cadence = "month"]
             \/ new = [script[s] EXCEPT !.phase = After(script[s].phase)]
    BY DEF NextPhase
<1>5. script'[s] = new
    BY <1>4 DEF AlertInv, AlertTyped
<1>6. /\ new \in ScriptState /\ new.report = script[s].report /\ new.scope = script[s].scope
      /\ new.create = script[s].create /\ new.restore = script[s].restore /\ new.retire = script[s].retire
      /\ \/ new.phase = "ensure"
         \/ new.phase = After(script[s].phase) /\ new.cadence = script[s].cadence
    BY <1>1, <1>4 DEF ScriptState, After, Running, Writing
<1>7. new.phase \notin {"create", "loadQueue", "enqueue", "makeTable"}
    BY <1>6 DEF After
<1>8. Asking(s)'
    BY <1>1, <1>2, <1>5, <1>6, <1>7 DEF Asking
<1>9. ASSUME ~overlapped, new.phase # "ensure" PROVE Left(s)'
  <2>1. Left(s) /\ new.phase = After(script[s].phase) /\ new.cadence = script[s].cadence
      BY <1>3, <1>6, <1>9
  <2>2. PlanOf(s)' = PlanOf(s) /\ TableRows(s)' = TableRows(s) /\ archive' = archive
    <3>1. archive' = archive
        BY DEF NextPhase
    <3>2. PlanOf(s)' = PlanOf(s) /\ ScriptTable(s)' = ScriptTable(s)
        BY <1>5, <1>6, <2>1 DEF PlanOf, ScriptTable
    <3> QED BY <3>1, <3>2 DEF TableRows
  <2>3. script[s].phase = "create" => script[s].create = {}
      BY DEF NextPhase
  <2>4. new.phase \in {"retire", "done"} => new.restore = {}
      BY <1>1, <1>6, <2>1 DEF NextPhase, After, Left, Writing
  <2>5. new.phase = "done" => new.retire = {}
      BY <1>1, <1>6, <2>1 DEF NextPhase, After, Writing
  <2> QED BY <1>5, <1>6, <2>1, <2>2, <2>3, <2>4, <2>5 DEF Left
<1> QED BY <1>1, <1>4, <1>6, <1>7, <1>8, <1>9, ScriptTurns DEF NextPhase, Writing

LEMMA KeepsLoadRows == ASSUME AlertInv, NEW s \in Script, LoadRows(s) PROVE AlertInv'
<1>1. script[s].phase = "load" /\ script[s].phase \in Running /\ script[s] \in ScriptState
    BY DEF LoadRows, AlertInv, AlertTyped, Running
<1>2. Asking(s)
    BY DEF AlertInv
<1>3. ASSUME ~HasDuplicates(TableRows(s)) PROVE AlertInv'
  <2>1. PICK new :
            /\ script' = [script EXCEPT ![s] = new]
            /\ new = [script[s] EXCEPT !.phase = "create", !.create = Missing(s),
                                       !.restore = Hidden(s), !.retire = Stale(s)]
    <3>1. script' = [script EXCEPT ![s].phase = "create", ![s].create = Missing(s),
                                   ![s].restore = Hidden(s), ![s].retire = Stale(s)]
        BY <1>3 DEF LoadRows
    <3>2. PICK new : new = [script[s] EXCEPT !.phase = "create", !.create = Missing(s),
                                            !.restore = Hidden(s), !.retire = Stale(s)]
        OBVIOUS
    <3>3. script' = [script EXCEPT ![s] = new]
        BY ONLY <3>1, <3>2
    <3> QED BY <3>2, <3>3
  <2>2. /\ archive \subseteq ArchiveRow /\ IsFiniteSet(archive)
        /\ \A row \in archive : row.table = TableOf(row.alert.report, Cadence[row.alert.monitor])
      BY DEF AlertInv, AlertTyped, AlertTypeOK
  <2>3. /\ Missing(s) \in SUBSET Alert /\ Hidden(s) \in SUBSET ArchiveRow /\ Stale(s) \in SUBSET ArchiveRow
        /\ Hidden(s) \subseteq archive /\ Stale(s) \subseteq archive
      BY <2>2 DEF Missing, Hidden, Stale, Planned, AlertsOf, TableRows
  <2>4. /\ new \in ScriptState /\ new.phase = "create" /\ new.report = script[s].report
        /\ new.cadence = script[s].cadence /\ new.scope = script[s].scope
        /\ new.create = Missing(s) /\ new.restore = Hidden(s) /\ new.retire = Stale(s)
      BY <1>1, <2>1, <2>3 DEF ScriptState, Running
  <2>5. script'[s] = new
      BY <2>1 DEF AlertInv, AlertTyped
  <2>6. \A a \in Missing(s) : RowsOf(a) = {}
    <3> SUFFICES ASSUME NEW a \in Missing(s), NEW row \in RowsOf(a) PROVE FALSE
        OBVIOUS
    <3>1. row \in archive /\ row.alert = a
        BY DEF RowsOf, Of
    <3>2. a.report = script[s].report /\ Cadence[a.monitor] = script[s].cadence
        BY DEF Missing, Planned, AlertsOf
    <3>3. row \in TableRows(s)
        BY <2>2, <3>1, <3>2 DEF TableRows, ScriptTable
    <3> QED BY <3>1, <3>3 DEF Missing
  <2>7. PlanOf(s)' = PlanOf(s) /\ TableRows(s)' = TableRows(s) /\ archive' = archive
    <3>1. archive' = archive
        BY DEF LoadRows
    <3>2. PlanOf(s)' = PlanOf(s) /\ ScriptTable(s)' = ScriptTable(s)
        BY <2>4, <2>5 DEF PlanOf, ScriptTable
    <3> QED BY <3>1, <3>2 DEF TableRows
  <2>8. Asking(s)'
    <3>1. IsFiniteSet(Hidden(s)) /\ IsFiniteSet(Stale(s))
        BY <2>2, <2>3, FS_Subset
    <3>2. \A row \in Hidden(s) \cup Stale(s) : row.alert.monitor \in script[s].scope
        BY DEF Hidden, Stale, Planned, AlertsOf
    <3>3. Missing(s) \subseteq PlanOf(s)
        BY DEF Missing, PlanOf
    <3> QED BY <1>1, <1>2, <2>4, <2>5, <2>7, <3>1, <3>2, <3>3 DEF Asking
  <2>9. Left(s)'
    <3>1. /\ \A row \in Hidden(s) : row.alert \in PlanOf(s)
          /\ \A row \in Stale(s) : row.alert \notin PlanOf(s)
        BY DEF Hidden, Stale, PlanOf
    <3>2. \A a \in PlanOf(s) :
              a \in Missing(s) \/ \E row \in archive : row.alert = a /\ (row.current \/ row \in Hidden(s))
        BY DEF Missing, Hidden, PlanOf, TableRows
    <3>3. \A row \in TableRows(s) :
              row.current /\ row.alert.monitor \in script[s].scope /\ row.alert \notin PlanOf(s) =>
                  row \in Stale(s)
        BY DEF Stale, PlanOf
    <3>4. /\ script'[s].phase = "create" /\ script'[s].create = Missing(s) /\ script'[s].scope = script[s].scope
          /\ script'[s].restore = Hidden(s) /\ script'[s].retire = Stale(s)
        BY <2>4, <2>5
    <3>5. /\ script'[s].restore \cup script'[s].retire \subseteq archive'
          /\ \A row \in script'[s].restore : row.alert \in PlanOf(s)'
          /\ \A row \in script'[s].retire : row.alert \notin PlanOf(s)'
        BY ONLY <2>3, <2>7, <3>1, <3>4
    <3>6. \A a \in PlanOf(s)' :
              \/ script'[s].phase = "create" /\ a \in script'[s].create
              \/ \E row \in archive' : row.alert = a /\ (row.current \/ row \in script'[s].restore)
        BY ONLY <2>7, <3>2, <3>4
    <3>7. \A row \in TableRows(s)' :
              row.current /\ row.alert.monitor \in script'[s].scope /\ row.alert \notin PlanOf(s)' =>
                  row \in script'[s].retire
        BY ONLY <2>7, <3>3, <3>4
    <3> QED BY ONLY <3>4, <3>5, <3>6, <3>7 DEF Left
  <2>10. UNCHANGED <<tables, archive, queue, scriptRuns, overlapped>>
      BY DEF LoadRows
  <2>11. new.phase \notin {"enqueue", "makeTable"}
      BY <2>4
  <2> QED BY <1>1, <2>1, <2>4, <2>6, <2>8, <2>9, <2>10, <2>11, ScriptTurns
<1> QED BY <1>1, <1>3, KeepsScriptStops DEF LoadRows

LEMMA KeepsLoadQueue == ASSUME AlertInv, NEW s \in Script, LoadQueue(s) PROVE AlertInv'
<1>1. script[s].phase = "loadQueue" /\ script[s].phase \in Running /\ script[s] \in ScriptState
    BY DEF LoadQueue, AlertInv, AlertTyped, Running
<1>2. Asking(s)
    BY DEF AlertInv
<1>3. ASSUME ~ \E x, y \in queue : x # y /\ x.key = y.key PROVE AlertInv'
  <2>1. PICK new :
            /\ script' = [script EXCEPT ![s] = new]
            /\ new = [script[s] EXCEPT !.phase = "enqueue", !.create = Unqueued(s)]
      BY <1>3 DEF LoadQueue
  <2>2. Unqueued(s) \subseteq AlertsOf(script[s].report, script[s].scope)
      BY DEF Unqueued, QueuePlan, Selected, AlertsOf
  <2>3. Unqueued(s) \in SUBSET Alert
      BY <2>2 DEF AlertsOf
  <2>4. /\ new \in ScriptState /\ new.phase = "enqueue" /\ new.report = script[s].report
        /\ new.cadence = script[s].cadence
        /\ new.scope = script[s].scope /\ new.create = Unqueued(s)
        /\ new.restore = script[s].restore /\ new.retire = script[s].retire
      BY <1>1, <2>1, <2>3 DEF ScriptState, Running
  <2>5. script'[s] = new
      BY <2>1 DEF AlertInv, AlertTyped
  <2>6. \A a \in Unqueued(s) : KeysOf(MessageKey(a)) = {}
      BY DEF Unqueued, KeysOf
  <2>7. Asking(s)'
      BY <1>1, <1>2, <2>2, <2>4, <2>5 DEF Asking, AlertsOf
  <2>8. UNCHANGED <<tables, archive, queue, scriptRuns, overlapped>>
      BY DEF LoadQueue
  <2>9. new.phase \notin Writing \cup {"create", "makeTable", "done"}
      BY <2>4 DEF Writing
  <2> QED BY <1>1, <2>1, <2>4, <2>6, <2>7, <2>8, <2>9, ScriptTurns
<1> QED BY <1>1, <1>3, KeepsScriptStops DEF LoadQueue

LEMMA FitBound == ASSUME NEW n, NEW P, NEW bound \in Nat, Fits(n, P, bound) PROVE n \in Nat /\ n <= bound
<1>1. IsFiniteSet(P) /\ n \in Nat /\ n + Cardinality(P) <= bound
    BY DEF Fits
<1>2. Cardinality(P) \in Nat
    BY <1>1, FS_CardinalityType
<1> QED BY <1>1, <1>2

LEMMA ScriptHasTable ==
    ASSUME AlertInv, NEW s \in Script, script[s].phase # "idle" PROVE ScriptTable(s) \in Table
<1>1. script[s].report \in Report /\ script[s] \in ScriptState
    BY DEF AlertInv, Asking, AlertTyped
<1> QED BY <1>1, AlertAssumption DEF ScriptTable, TableOf, Table, ScriptState

LEMMA KeepsMakeTable == ASSUME AlertInv, NEW s \in Script, MakeTable(s) PROVE AlertInv'
<1> DEFINE place == ScriptTable(s)
<1>1. script[s].phase = "makeTable" /\ script[s].phase \in Running /\ script[s] \in ScriptState
    BY DEF MakeTable, AlertInv, AlertTyped, Running
<1>2. PICK new : script' = [script EXCEPT ![s] = new] /\ new = [script[s] EXCEPT !.phase = "ensure"]
    BY DEF MakeTable
<1>3. /\ new \in ScriptState /\ new.phase = "ensure" /\ new.report = script[s].report
      /\ new.scope = script[s].scope /\ new.restore = script[s].restore /\ new.retire = script[s].retire
    BY <1>1, <1>2 DEF ScriptState, Running
<1>4. /\ script' \in [Script -> ScriptState] /\ script'[s] = new
      /\ \A t \in Script : t # s => script'[t] = script[t]
    BY <1>2, <1>3 DEF AlertInv, AlertTyped
<1>5. AlertBound' = AlertBound /\ AlertBound \in Nat /\ AlertBound <= Cardinality(Script)
    BY ScriptsAreCounted DEF AlertBound, MakeTable
<1>6. place \in Table
    BY <1>1, ScriptHasTable
<1>7. /\ DOMAIN tables' = Table /\ tables' = [t \in Table |-> tables'[t]]
      /\ tables'[place] = tables[place] + 1
      /\ \A t \in Table \ {place} : tables'[t] = tables[t]
    BY <1>6 DEF MakeTable, AlertInv, AlertTyped, AlertTypeOK
<1>8. ASSUME NEW t \in Table PROVE Fits(tables'[t], Making(t)', AlertBound)
  <2>1. PICK making : making = Making(t)'
      OBVIOUS
  <2>2. Fits(tables[t], Making(t), AlertBound)
      BY DEF AlertInv, TableCounts
  <2>3. making \subseteq Making(t) \ {s}
      BY <1>3, <1>4, <2>1 DEF Making, ScriptTable
  <2>4. CASE t = place
    <3>1. s \in Making(t)
        BY <1>1, <2>4 DEF Making
    <3>2. Fits(tables[t] + 1, making, AlertBound)
        BY <1>5, <2>2, <2>3, <3>1, OneCreates
    <3> QED BY <1>7, <2>1, <2>4, <3>2
  <2>5. CASE t # place
    <3>1. Fits(tables[t], making, AlertBound)
        BY <1>5, <2>2, <2>3, FewerCreate
    <3> QED BY <1>7, <2>1, <2>5, <3>1
  <2> QED BY <2>4, <2>5
<1>9. TableCounts'
    BY <1>5, <1>8 DEF TableCounts, Table
<1>10. AlertTyped'
  <2>1. \A t \in Table : tables'[t] \in 0 .. Cardinality(Script)
    <3> SUFFICES ASSUME NEW t \in Table PROVE tables'[t] \in 0 .. Cardinality(Script)
        OBVIOUS
    <3>1. PICK making : making = Making(t)'
        OBVIOUS
    <3>2. Fits(tables'[t], making, AlertBound)
        BY <1>8, <3>1
    <3>3. tables'[t] \in Nat /\ tables'[t] <= AlertBound
        BY <1>5, <3>2, FitBound
    <3> QED BY <1>5, <3>3, ScriptsAreCounted
  <2>2. tables' \in [Table -> 0 .. Cardinality(Script)]
      BY <1>7, <2>1
  <2> QED BY <1>4, <2>2, AlertTypedNext DEF MakeTable, AlertInv, AlertTyped, AlertTypeOK
<1>11. RowCounts'
    BY <1>3, <1>4, <1>5, NoMoreRows, RowCountsKept DEF MakeTable
<1>12. KeyCounts'
    BY <1>3, <1>4, <1>5, NoMoreMessages, KeyCountsKept DEF MakeTable
<1>13. Asking(s)'
  <2>1. Asking(s)
      BY DEF AlertInv
  <2> QED BY <1>1, <1>3, <1>4, <2>1 DEF Asking
<1> QED BY <1>1, <1>3, <1>4, <1>9, <1>10, <1>11, <1>12, <1>13, SoleStep DEF MakeTable, Writing

LEMMA KeepsEnqueueOne == ASSUME AlertInv, NEW s \in Script, EnqueueOne(s) PROVE AlertInv'
<1>1. script[s].phase = "enqueue" /\ script[s].phase \in Running /\ script[s] \in ScriptState
    BY DEF EnqueueOne, AlertInv, AlertTyped, Running
<1>2. Asking(s)
    BY DEF AlertInv
<1>3. CASE script[s].create = {}
  <2>1. PICK new : script' = [script EXCEPT ![s] = new] /\ new = [script[s] EXCEPT !.phase = "done"]
      BY <1>3 DEF EnqueueOne
  <2>2. /\ new \in ScriptState /\ new.phase = "done" /\ new.report = script[s].report
        /\ new.scope = script[s].scope /\ new.cadence = "quarter"
        /\ new.restore = script[s].restore /\ new.retire = script[s].retire
      BY <1>1, <1>2, <2>1 DEF ScriptState, Running, Asking
  <2>3. script'[s] = new
      BY <2>1 DEF AlertInv, AlertTyped
  <2>4. Asking(s)'
      BY <1>1, <1>2, <2>2, <2>3 DEF Asking
  <2>5. UNCHANGED <<tables, archive, queue, scriptRuns, overlapped>>
      BY <1>3 DEF EnqueueOne
  <2> QED BY <1>1, <2>1, <2>2, <2>4, <2>5, ScriptTurns DEF Writing
<1>4. CASE script[s].create # {}
  <2>1. PICK a, new, row :
            /\ a \in script[s].create /\ script' = [script EXCEPT ![s] = new]
            /\ new = [script[s] EXCEPT !.create = @ \ {a}]
            /\ queue' = queue \cup {row}
            /\ row = [key |-> MessageKey(a), copy |-> 1 + Cardinality(KeysOf(MessageKey(a)))]
      BY <1>4 DEF EnqueueOne, KeysOf
  <2>2. UNCHANGED <<tables, archive, scriptRuns, overlapped>>
      BY DEF EnqueueOne
  <2>3. /\ new \in ScriptState /\ new.phase = "enqueue" /\ new.report = script[s].report
        /\ new.scope = script[s].scope /\ new.cadence = script[s].cadence
        /\ new.create = script[s].create \ {a}
        /\ new.restore = script[s].restore /\ new.retire = script[s].retire
      BY <1>1, <2>1 DEF ScriptState, Running
  <2>4. /\ script' \in [Script -> ScriptState] /\ script'[s] = new
        /\ \A t \in Script : t # s => script'[t] = script[t]
      BY <2>1, <2>3 DEF AlertInv, AlertTyped
  <2>5. AlertBound' = AlertBound /\ AlertBound \in Nat /\ AlertBound <= Cardinality(Script)
      BY <2>2, ScriptsAreCounted DEF AlertBound
  <2>6. a \in script[s].create /\ a \in Alert /\ MessageKey(a) \in Message
      BY <1>1, <2>1 DEF ScriptState, Message
  <2>7. ASSUME NEW k \in Message
        PROVE  /\ Numbered(KeysOf(k)') /\ Fits(Cardinality(KeysOf(k)'), Queueing(k)', AlertBound)
    <3>1. PICK queueing, rows : queueing = Queueing(k)' /\ rows = KeysOf(k)'
        OBVIOUS
    <3>2. Numbered(KeysOf(k)) /\ Fits(Cardinality(KeysOf(k)), Queueing(k), AlertBound)
        BY DEF AlertInv, KeyCounts
    <3>3. queueing \subseteq Queueing(k)
        BY <1>1, <2>3, <2>4, <3>1 DEF Queueing, MessageKey
    <3>4. CASE k = MessageKey(a)
      <4>1. rows = KeysOf(k) \cup {row}
          BY <2>1, <3>1, <3>4 DEF KeysOf
      <4>2. s \in Queueing(k)
          BY <1>1, <2>6, <3>4 DEF Queueing
      <4>3. \A b \in new.create : MessageKey(b) # k
          BY <1>1, <1>2, <2>3, <2>6, <3>4, AlertAssumption DEF Asking, AlertsOf, MessageKey
      <4>4. queueing \subseteq Queueing(k) \ {s}
          BY <2>4, <3>1, <3>3, <4>3 DEF Queueing, MessageKey
      <4>5. IsFiniteSet(KeysOf(k))
          BY <3>2 DEF Numbered
      <4>6. Cardinality(KeysOf(k)) \in Nat
          BY <4>5, FS_CardinalityType
      <4>7. row.copy = Cardinality(KeysOf(k)) + 1
          BY <2>1, <3>4, <4>6
      <4>8. Numbered(rows) /\ Cardinality(rows) = Cardinality(KeysOf(k)) + 1
          BY <3>2, <4>1, <4>7, RowAdded
      <4>9. Fits(Cardinality(KeysOf(k)) + 1, queueing, AlertBound)
          BY <2>5, <3>2, <4>2, <4>4, OneCreates
      <4> QED BY <3>1, <4>8, <4>9
    <3>5. CASE k # MessageKey(a)
      <4>1. rows = KeysOf(k)
          BY <2>1, <3>1, <3>5 DEF KeysOf
      <4>2. Fits(Cardinality(KeysOf(k)), queueing, AlertBound)
          BY <2>5, <3>2, <3>3, FewerCreate
      <4> QED BY <3>1, <3>2, <4>1, <4>2
    <3> QED BY <3>4, <3>5
  <2>8. KeyCounts'
      BY <2>5, <2>7 DEF KeyCounts, Fits, Numbered, Message, MessageKey
  <2>9. AlertTyped'
    <3>1. row.copy \in 1 .. Cardinality(Script)
      <4>1. PICK queueing, rows : queueing = Queueing(MessageKey(a))' /\ rows = KeysOf(MessageKey(a))'
          OBVIOUS
      <4>2. row \in rows
          BY <2>1, <4>1 DEF KeysOf
      <4>3. Numbered(rows) /\ Fits(Cardinality(rows), queueing, AlertBound)
          BY <2>6, <2>7, <4>1
      <4>4. row.copy \in 1 .. Cardinality(rows)
          BY <4>2, <4>3 DEF Numbered
      <4>5. Cardinality(rows) \in Nat /\ Cardinality(rows) <= AlertBound
          BY <2>5, <4>3, FitBound
      <4> QED BY <2>5, <4>4, <4>5, ScriptsAreCounted
    <3>2. queue' \subseteq QueueRow
        BY <2>1, <2>6, <3>1 DEF AlertInv, AlertTyped, AlertTypeOK, QueueRow
    <3> QED BY <2>2, <2>4, <3>2, AlertTypedNext DEF AlertInv, AlertTyped, AlertTypeOK
  <2>10. RowCounts'
      BY <2>2, <2>3, <2>4, <2>5, NoMoreRows, RowCountsKept
  <2>11. TableCounts'
      BY <2>2, <2>3, <2>4, <2>5, NoMoreTables, TableCountsKept
  <2>12. Asking(s)'
      BY <1>1, <1>2, <2>3, <2>4 DEF Asking, AlertsOf
  <2> QED BY <1>1, <2>2, <2>3, <2>4, <2>8, <2>9, <2>10, <2>11, <2>12, SoleStep DEF Writing
<1> QED BY <1>3, <1>4

LEMMA KeepsCreateRows == ASSUME AlertInv, NEW s \in Script, CreateRows(s) PROVE AlertInv'
<1>1. /\ script[s].phase = "create" /\ script[s].phase \in Running /\ script[s].phase \in Writing
      /\ script[s] \in ScriptState
    BY DEF CreateRows, AlertInv, AlertTyped, Running, Writing
<1>2. Asking(s)
    BY DEF AlertInv
<1>3. PICK batch, new, place :
          /\ batch = BatchOf(script[s].create) /\ place = ScriptTable(s)
          /\ archive' = archive \cup {NewRow(a, place) : a \in batch}
          /\ script' = [script EXCEPT ![s] = new]
          /\ new = [script[s] EXCEPT !.create = @ \ batch]
    BY DEF CreateRows
<1>4. UNCHANGED <<tables, queue, scriptRuns, overlapped>>
    BY DEF CreateRows
<1>5. script[s].create \in SUBSET Alert /\ script[s].create \subseteq PlanOf(s)
    BY <1>1, <1>2 DEF ScriptState, Asking
<1>6. batch \subseteq script[s].create /\ IsFiniteSet(batch)
  <2>1. IsFiniteSet(script[s].create)
      BY <1>5, AlertAssumption, FS_Subset
  <2>2. batch \in SUBSET script[s].create
      BY <1>3, <2>1, BatchIsPart
  <2> QED BY <2>1, <2>2, FS_Subset
<1>7. /\ new \in ScriptState /\ new.phase = "create" /\ new.report = script[s].report
      /\ new.scope = script[s].scope /\ new.cadence = script[s].cadence
      /\ new.create = script[s].create \ batch
      /\ new.restore = script[s].restore /\ new.retire = script[s].retire
    BY <1>1, <1>3 DEF ScriptState
<1>8. /\ script' \in [Script -> ScriptState] /\ script'[s] = new
      /\ \A t \in Script : t # s => script'[t] = script[t]
    BY <1>3, <1>7 DEF AlertInv, AlertTyped
<1>9. AlertBound' = AlertBound /\ AlertBound \in Nat /\ AlertBound <= Cardinality(Script)
    BY <1>4, ScriptsAreCounted DEF AlertBound
<1>10. ASSUME NEW a \in Alert
       PROVE  /\ Numbered(RowsOf(a)') /\ Fits(Cardinality(RowsOf(a)'), Creating(a)', AlertBound)
  <2>1. PICK creating, rows : creating = Creating(a)' /\ rows = RowsOf(a)'
      OBVIOUS
  <2>2. Numbered(RowsOf(a)) /\ Fits(Cardinality(RowsOf(a)), Creating(a), AlertBound)
      BY DEF AlertInv, RowCounts
  <2>3. creating \subseteq Creating(a)
      BY <1>1, <1>7, <1>8, <2>1 DEF Creating
  <2>4. rows = IF a \in batch THEN RowsOf(a) \cup {NewRow(a, place)} ELSE RowsOf(a)
      BY <1>3, <2>1, CreatedOf DEF RowsOf, Of
  <2>5. CASE a \in batch
    <3>1. s \in Creating(a)
        BY <1>1, <1>6, <2>5 DEF Creating
    <3>2. creating \subseteq Creating(a) \ {s}
        BY <1>7, <1>8, <2>1, <2>3, <2>5 DEF Creating
    <3>3. IsFiniteSet(RowsOf(a))
        BY <2>2 DEF Numbered
    <3>4. Cardinality(RowsOf(a)) \in Nat
        BY <3>3, FS_CardinalityType
    <3>5. NewRow(a, place).copy = Cardinality(RowsOf(a)) + 1
        BY <3>4 DEF NewRow, RowsOf, Of
    <3>6. Numbered(rows) /\ Cardinality(rows) = Cardinality(RowsOf(a)) + 1
        BY <2>2, <2>4, <2>5, <3>5, RowAdded
    <3>7. Fits(Cardinality(RowsOf(a)) + 1, creating, AlertBound)
        BY <1>9, <2>2, <3>1, <3>2, OneCreates
    <3> QED BY <2>1, <3>6, <3>7
  <2>6. CASE a \notin batch
    <3>1. Fits(Cardinality(RowsOf(a)), creating, AlertBound)
        BY <1>9, <2>2, <2>3, FewerCreate
    <3> QED BY <2>1, <2>2, <2>4, <2>6, <3>1
  <2> QED BY <2>5, <2>6
<1>11. RowCounts'
    BY <1>9, <1>10 DEF RowCounts, Fits, Numbered
<1>12. \A a \in batch : NewRow(a, place) \in archive' /\ NewRow(a, place).alert = a /\ NewRow(a, place).current
    BY <1>3 DEF NewRow
<1>13. \A row \in archive' : row \in archive \/ \E a \in batch : row = NewRow(a, place)
    BY <1>3
<1>14. AlertTyped'
  <2>1. place \in Table
      BY <1>1, <1>3, ScriptHasTable
  <2>2. ASSUME NEW a \in batch
        PROVE  /\ NewRow(a, place) \in ArchiveRow
               /\ place = TableOf(a.report, Cadence[a.monitor])
    <3>1. PICK creating, rows : creating = Creating(a)' /\ rows = RowsOf(a)'
        OBVIOUS
    <3>2. NewRow(a, place) \in rows /\ a \in Alert
        BY <1>5, <1>6, <1>12, <3>1 DEF RowsOf, Of
    <3>3. Numbered(rows) /\ Fits(Cardinality(rows), creating, AlertBound)
        BY <1>10, <3>1, <3>2
    <3>4. NewRow(a, place).copy \in 1 .. Cardinality(rows)
        BY <3>2, <3>3 DEF Numbered
    <3>5. Cardinality(rows) \in Nat /\ Cardinality(rows) <= AlertBound
        BY <1>9, <3>3, FitBound
    <3>6. NewRow(a, place).copy \in 1 .. Cardinality(Script)
        BY <1>9, <3>4, <3>5, ScriptsAreCounted
    <3>7. NewRow(a, place) \in ArchiveRow
        BY <2>1, <3>2, <3>6 DEF NewRow, ArchiveRow
    <3>8. a.report = script[s].report /\ Cadence[a.monitor] = script[s].cadence
        BY <1>5, <1>6 DEF PlanOf, Planned, AlertsOf
    <3> QED BY <1>3, <3>7, <3>8 DEF ScriptTable
  <2>3. archive' \subseteq ArchiveRow
      BY <1>13, <2>2 DEF AlertInv, AlertTyped, AlertTypeOK
  <2>4. \A row \in archive' : row.table = TableOf(row.alert.report, Cadence[row.alert.monitor])
    <3>1. \A a \in batch : NewRow(a, place).table = place /\ NewRow(a, place).alert = a
        BY DEF NewRow
    <3> QED BY <1>13, <2>2, <3>1 DEF AlertInv, AlertTyped
  <2>5. IsFiniteSet(archive')
      BY <1>3, <1>6, CreatingIsFinite DEF AlertInv, AlertTyped
  <2> QED BY <1>4, <1>8, <2>3, <2>4, <2>5, AlertTypedNext DEF AlertInv, AlertTyped, AlertTypeOK
<1>15. KeyCounts'
    BY <1>4, <1>7, <1>8, <1>9, NoMoreMessages, KeyCountsKept
<1>16. TableCounts'
    BY <1>4, <1>7, <1>8, <1>9, NoMoreTables, TableCountsKept
<1>17. PlanOf(s)' = PlanOf(s) /\ ScriptTable(s)' = ScriptTable(s)
    BY <1>7, <1>8 DEF PlanOf, ScriptTable
<1>18. Asking(s)'
    BY <1>1, <1>2, <1>7, <1>8, <1>17 DEF Asking
<1>19. ASSUME ~overlapped PROVE Left(s)'
  <2>1. Left(s)
      BY <1>1, <1>19 DEF AlertInv, Converging
  <2>2. \A a \in PlanOf(s) :
            \/ a \in new.create
            \/ \E row \in archive' : row.alert = a /\ (row.current \/ row \in new.restore)
    <3> SUFFICES ASSUME NEW a \in PlanOf(s), a \notin new.create
                 PROVE  \E row \in archive' : row.alert = a /\ (row.current \/ row \in new.restore)
        OBVIOUS
    <3>1. CASE a \in batch
        BY <1>12, <3>1
    <3>2. CASE a \notin batch
        BY <1>3, <1>7, <2>1, <3>2 DEF Left
    <3> QED BY <3>1, <3>2
  <2>3. \A row \in TableRows(s)' :
            row.current /\ row.alert.monitor \in new.scope /\ row.alert \notin PlanOf(s) =>
                row \in new.retire
    <3>1. \A a \in batch : NewRow(a, place).alert \in PlanOf(s)
        BY <1>5, <1>6, <1>12
    <3>2. \A row \in TableRows(s)' : row \in archive' /\ row.table = ScriptTable(s)
        BY <1>17 DEF TableRows
    <3> QED BY <1>7, <1>13, <2>1, <3>1, <3>2 DEF Left, TableRows
  <2>4. /\ new.restore \cup new.retire \subseteq archive'
        /\ \A row \in new.restore : row.alert \in PlanOf(s)
        /\ \A row \in new.retire : row.alert \notin PlanOf(s)
      BY <1>3, <1>7, <2>1 DEF Left
  <2> QED BY ONLY <1>7, <1>8, <1>17, <2>2, <2>3, <2>4 DEF Left
<1> QED BY <1>1, <1>4, <1>7, <1>8, <1>11, <1>14, <1>15, <1>16, <1>18, <1>19, SoleStep

\* A row is addressed by its alert and copy, which no other row has.
LEMMA HitsAreRows ==
    ASSUME AlertInv, NEW batch, batch \subseteq archive, NEW row \in archive
    PROVE  Hit(batch, row) <=> row \in batch
<1>1. row.alert \in Alert
    BY DEF AlertInv, AlertTyped, AlertTypeOK, ArchiveRow
<1>2. \A x \in batch : x.alert = row.alert => x \in RowsOf(row.alert) /\ row \in RowsOf(row.alert)
    BY DEF RowsOf, Of
<1>3. \A x \in batch : x.alert = row.alert /\ x.copy = row.copy => x = row
    BY <1>1, <1>2 DEF AlertInv, RowCounts, Numbered
<1> QED BY <1>3 DEF Hit

LEMMA MarkingIsMarked ==
    ASSUME NEW rows, NEW value, NEW new, new = Mark(rows, value)
    PROVE  new = {Marked(rows, value, row) : row \in archive}
BY DEF Mark, Marked, Hit

\* Marking the rows of a batch, of which less is then left to do.
LEMMA MarkingTurns ==
    ASSUME AlertInv, NEW s \in Script, script[s].phase \in {"restore", "retire"},
           NEW batch, NEW value \in BOOLEAN, NEW new \in ScriptState,
           archive' = Mark(batch, value), script' = [script EXCEPT ![s] = new],
           UNCHANGED <<tables, queue, scriptRuns, overlapped>>,
           new.phase = script[s].phase, new.report = script[s].report, new.scope = script[s].scope,
           new.restore \subseteq script[s].restore, new.retire \subseteq script[s].retire,
           ~overlapped => Left(s)'
    PROVE  AlertInv'
<1>1. script[s].phase \in Running /\ script[s].phase # "idle"
    BY DEF Running
<1>2. PICK rows : rows = archive' /\ rows = {Marked(batch, value, row) : row \in archive}
    BY MarkingIsMarked
<1>3. archive \in SUBSET ArchiveRow /\ IsFiniteSet(archive)
    BY DEF AlertInv, AlertTyped, AlertTypeOK
<1>4. /\ script' \in [Script -> ScriptState] /\ script'[s] = new
      /\ \A t \in Script : t # s => script'[t] = script[t]
    BY DEF AlertInv, AlertTyped
<1>5. AlertBound' = AlertBound /\ AlertBound \in Nat /\ AlertBound <= Cardinality(Script)
    BY ScriptsAreCounted DEF AlertBound
<1>6. ASSUME NEW a \in Alert
      PROVE  /\ Numbered(RowsOf(a)') /\ Fits(Cardinality(RowsOf(a)'), Creating(a)', AlertBound)
  <2>1. PICK creating, of : creating = Creating(a)' /\ of = RowsOf(a)'
      OBVIOUS
  <2>2. Numbered(RowsOf(a)) /\ Fits(Cardinality(RowsOf(a)), Creating(a), AlertBound)
      BY DEF AlertInv, RowCounts
  <2>3. creating \subseteq Creating(a)
      BY <1>4, <2>1 DEF Creating
  <2>4. of = Of(rows, a) /\ RowsOf(a) = Of(archive, a)
      BY <1>2, <2>1 DEF RowsOf, Of
  <2>5. Numbered(of) /\ Cardinality(of) = Cardinality(RowsOf(a))
      BY <1>2, <1>3, <2>2, <2>4, MarkingKeepsCounts
  <2>6. Fits(Cardinality(RowsOf(a)), creating, AlertBound)
      BY <1>5, <2>2, <2>3, FewerCreate
  <2> QED BY <2>1, <2>5, <2>6
<1>7. RowCounts'
    BY <1>5, <1>6 DEF RowCounts, Fits, Numbered
<1>8. AlertTyped'
  <2>1. rows \subseteq ArchiveRow
      BY <1>2, <1>3, MarkedRow
  <2>2. \A row \in rows : row.table = TableOf(row.alert.report, Cadence[row.alert.monitor])
    <3> SUFFICES ASSUME NEW old \in archive, NEW row, row = Marked(batch, value, old)
                 PROVE  row.table = TableOf(row.alert.report, Cadence[row.alert.monitor])
        BY <1>2
    <3>1. row.table = old.table /\ row.alert = old.alert
        BY <1>3, MarkedRow
    <3> QED BY <3>1 DEF AlertInv, AlertTyped
  <2>3. IsFiniteSet(rows)
      BY <1>2, <1>3, MarkingIsFinite
  <2> QED BY <1>2, <1>4, <2>1, <2>2, <2>3, AlertTypedNext DEF AlertInv, AlertTyped, AlertTypeOK
<1>9. KeyCounts'
    BY <1>4, <1>5, NoMoreMessages, KeyCountsKept
<1>10. TableCounts'
    BY <1>4, <1>5, NoMoreTables, TableCountsKept
<1>11. Asking(s)'
  <2>1. Asking(s) /\ script[s].phase \notin {"create", "enqueue", "loadQueue", "idle"}
      BY DEF AlertInv
  <2>2. new.restore \in SUBSET script[s].restore /\ new.retire \in SUBSET script[s].retire
      OBVIOUS
  <2>3. IsFiniteSet(new.restore) /\ IsFiniteSet(new.retire)
      BY <2>1, <2>2, FS_Subset DEF Asking
  <2> QED BY <1>4, <2>1, <2>3 DEF Asking
<1> QED BY <1>1, <1>4, <1>7, <1>8, <1>9, <1>10, <1>11, SoleStep

LEMMA KeepsRestoreRows == ASSUME AlertInv, NEW s \in Script, RestoreRows(s) PROVE AlertInv'
<1>1. script[s].phase = "restore" /\ script[s].phase \in Writing /\ script[s] \in ScriptState
    BY DEF RestoreRows, AlertInv, AlertTyped, Writing
<1>2. PICK batch, new :
          /\ batch = BatchOf(script[s].restore) /\ archive' = Mark(batch, TRUE)
          /\ script' = [script EXCEPT ![s] = new]
          /\ new = [script[s] EXCEPT !.restore = @ \ batch]
    BY DEF RestoreRows
<1>3. UNCHANGED <<tables, queue, scriptRuns, overlapped>>
    BY DEF RestoreRows
<1>4. batch \subseteq script[s].restore
    BY <1>2, BatchIsPart DEF AlertInv, Asking
<1>5. /\ new \in ScriptState /\ new.phase = "restore" /\ new.report = script[s].report
      /\ new.scope = script[s].scope /\ new.cadence = script[s].cadence
      /\ new.restore = script[s].restore \ batch /\ new.retire = script[s].retire
    BY <1>1, <1>2 DEF ScriptState
<1>6. script'[s] = new
    BY <1>2 DEF AlertInv, AlertTyped
<1>7. PlanOf(s)' = PlanOf(s) /\ ScriptTable(s)' = ScriptTable(s)
    BY <1>5, <1>6 DEF PlanOf, ScriptTable
<1>8. ASSUME ~overlapped PROVE Left(s)'
  <2>1. Left(s)
      BY <1>1, <1>8 DEF AlertInv, Converging
  <2>2. batch \subseteq archive /\ archive \subseteq ArchiveRow
      BY <1>4, <2>1 DEF Left, AlertInv, AlertTyped, AlertTypeOK
  <2>3. archive' = {Marked(batch, TRUE, row) : row \in archive}
    <3>1. PICK rows : rows = archive' /\ rows = Mark(batch, TRUE)
        BY <1>2
    <3> QED BY <3>1, MarkingIsMarked
  <2>4. \A row \in archive : row \notin batch => Marked(batch, TRUE, row) = row /\ row \in archive'
    <3> SUFFICES ASSUME NEW row \in archive, row \notin batch
                 PROVE  Marked(batch, TRUE, row) = row /\ row \in archive'
        OBVIOUS
    <3>1. ~Hit(batch, row)
        BY <2>2, HitsAreRows
    <3>2. Marked(batch, TRUE, row) = row
        BY <3>1 DEF Marked
    <3> QED BY <2>3, <3>2
  <2>5. \A row \in batch : /\ Marked(batch, TRUE, row) \in archive' /\ Marked(batch, TRUE, row).current
                          /\ Marked(batch, TRUE, row).alert = row.alert
      BY <2>2, <2>3, HitsAreRows, MarkedRow
  <2>6. /\ new.restore \cup new.retire \subseteq archive'
        /\ \A row \in new.restore : row.alert \in PlanOf(s)
        /\ \A row \in new.retire : row.alert \notin PlanOf(s)
      BY <1>4, <1>5, <2>1, <2>4 DEF Left
  <2>7. \A a \in PlanOf(s) :
            \E row \in archive' : row.alert = a /\ (row.current \/ row \in new.restore)
    <3> SUFFICES ASSUME NEW a \in PlanOf(s)
                 PROVE  \E row \in archive' : row.alert = a /\ (row.current \/ row \in new.restore)
        OBVIOUS
    <3>1. PICK row \in archive : row.alert = a /\ (row.current \/ row \in script[s].restore)
        BY <1>1, <2>1 DEF Left
    <3> QED BY <1>5, <2>4, <2>5, <3>1
  <2>8. \A row \in TableRows(s)' :
            row.current /\ row.alert.monitor \in new.scope /\ row.alert \notin PlanOf(s) =>
                row \in new.retire
    <3> SUFFICES ASSUME NEW row \in TableRows(s)', row.current, row.alert.monitor \in new.scope,
                        row.alert \notin PlanOf(s)
                 PROVE  row \in new.retire
        OBVIOUS
    <3>1. row \in archive' /\ row.table = ScriptTable(s)
        BY <1>7 DEF TableRows
    <3>2. PICK old \in archive : row = Marked(batch, TRUE, old)
        BY <2>3, <3>1
    <3>3. old \notin batch
      <4>1. row.alert = old.alert
          BY <2>2, <3>2, MarkedRow
      <4> QED BY <1>4, <2>1, <4>1 DEF Left
    <3>4. row = old
        BY <2>4, <3>2, <3>3
    <3> QED BY <1>5, <2>1, <3>1, <3>4 DEF Left, TableRows
  <2> QED BY ONLY <1>5, <1>6, <1>7, <2>6, <2>7, <2>8 DEF Left
<1> QED BY <1>1, <1>2, <1>3, <1>5, <1>8, MarkingTurns

LEMMA KeepsRetireRows == ASSUME AlertInv, NEW s \in Script, RetireRows(s) PROVE AlertInv'
<1>1. script[s].phase = "retire" /\ script[s].phase \in Writing /\ script[s] \in ScriptState
    BY DEF RetireRows, AlertInv, AlertTyped, Writing
<1>2. PICK batch, new :
          /\ batch = BatchOf(script[s].retire) /\ archive' = Mark(batch, FALSE)
          /\ script' = [script EXCEPT ![s] = new]
          /\ new = [script[s] EXCEPT !.retire = @ \ batch]
    BY DEF RetireRows
<1>3. UNCHANGED <<tables, queue, scriptRuns, overlapped>>
    BY DEF RetireRows
<1>4. batch \subseteq script[s].retire
    BY <1>2, BatchIsPart DEF AlertInv, Asking
<1>5. /\ new \in ScriptState /\ new.phase = "retire" /\ new.report = script[s].report
      /\ new.scope = script[s].scope /\ new.cadence = script[s].cadence
      /\ new.restore = script[s].restore /\ new.retire = script[s].retire \ batch
    BY <1>1, <1>2 DEF ScriptState
<1>6. script'[s] = new
    BY <1>2 DEF AlertInv, AlertTyped
<1>7. PlanOf(s)' = PlanOf(s) /\ ScriptTable(s)' = ScriptTable(s)
    BY <1>5, <1>6 DEF PlanOf, ScriptTable
<1>8. ASSUME ~overlapped PROVE Left(s)'
  <2>1. Left(s) /\ script[s].restore = {}
      BY <1>1, <1>8 DEF AlertInv, Converging, Left
  <2>2. batch \subseteq archive /\ archive \subseteq ArchiveRow
      BY <1>4, <2>1 DEF Left, AlertInv, AlertTyped, AlertTypeOK
  <2>3. archive' = {Marked(batch, FALSE, row) : row \in archive}
    <3>1. PICK rows : rows = archive' /\ rows = Mark(batch, FALSE)
        BY <1>2
    <3> QED BY <3>1, MarkingIsMarked
  <2>4. \A row \in archive : row \notin batch => Marked(batch, FALSE, row) = row /\ row \in archive'
    <3> SUFFICES ASSUME NEW row \in archive, row \notin batch
                 PROVE  Marked(batch, FALSE, row) = row /\ row \in archive'
        OBVIOUS
    <3>1. ~Hit(batch, row)
        BY <2>2, HitsAreRows
    <3>2. Marked(batch, FALSE, row) = row
        BY <3>1 DEF Marked
    <3> QED BY <2>3, <3>2
  <2>5. \A row \in batch : ~Marked(batch, FALSE, row).current
      BY <2>2, HitsAreRows, MarkedRow
  <2>6. /\ new.restore = {} /\ new.retire \subseteq archive'
        /\ \A row \in new.retire : row.alert \notin PlanOf(s)
      BY <1>4, <1>5, <2>1, <2>4 DEF Left
  <2>7. \A a \in PlanOf(s) : \E row \in archive' : row.alert = a /\ row.current
    <3> SUFFICES ASSUME NEW a \in PlanOf(s) PROVE \E row \in archive' : row.alert = a /\ row.current
        OBVIOUS
    <3>1. PICK row \in archive : row.alert = a /\ row.current
        BY <1>1, <2>1 DEF Left
    <3>2. row \notin batch
        BY <1>4, <2>1, <3>1 DEF Left
    <3> QED BY <2>4, <3>1, <3>2
  <2>8. \A row \in TableRows(s)' :
            row.current /\ row.alert.monitor \in new.scope /\ row.alert \notin PlanOf(s) =>
                row \in new.retire
    <3> SUFFICES ASSUME NEW row \in TableRows(s)', row.current, row.alert.monitor \in new.scope,
                        row.alert \notin PlanOf(s)
                 PROVE  row \in new.retire
        OBVIOUS
    <3>1. row \in archive' /\ row.table = ScriptTable(s)
        BY <1>7 DEF TableRows
    <3>2. PICK old \in archive : row = Marked(batch, FALSE, old)
        BY <2>3, <3>1
    <3>3. old \notin batch
        BY <2>5, <3>2
    <3>4. row = old
        BY <2>4, <3>2, <3>3
    <3> QED BY <1>5, <2>1, <3>1, <3>3, <3>4 DEF Left, TableRows
  <2> QED BY ONLY <1>5, <1>6, <1>7, <2>6, <2>7, <2>8 DEF Left
<1> QED BY <1>1, <1>2, <1>3, <1>5, <1>8, MarkingTurns

LEMMA AlertStep == AlertInv /\ [AlertNext]_alertVars => AlertInv'
<1> SUFFICES ASSUME AlertInv, [AlertNext]_alertVars PROVE AlertInv'
    OBVIOUS
<1>1. ASSUME UNCHANGED alertVars PROVE AlertInv'
  <2>1. UNCHANGED <<tables, archive, queue, script, scriptRuns, overlapped>>
      BY <1>1 DEF alertVars
  <2>2. AlertTyped'
      BY <2>1 DEF AlertInv, AlertTyped, AlertTypeOK, ScriptState
  <2>3. AlertBound' \in Nat /\ AlertBound <= AlertBound'
      BY <2>1, ScriptsAreCounted DEF AlertBound
  <2>4. RowCounts' /\ KeyCounts' /\ TableCounts'
      BY <2>1, <2>3, NoMoreRows, RowCountsKept, NoMoreMessages, KeyCountsKept, NoMoreTables, TableCountsKept
  <2>5. \A s \in Script : Asking(s)' /\ (Left(s) => Left(s)')
      BY <2>1 DEF AlertInv, Asking, Left, PlanOf, TableRows, ScriptTable
  <2>6. Alone' /\ Converging'
      BY <2>1, <2>5 DEF AlertInv, Alone, Converging
  <2> QED BY <2>2, <2>4, <2>5, <2>6 DEF AlertInv
<1>2. ASSUME NEW s \in Script, NEW r \in Report, NEW scope \in MonitorScope,
             StartArchive(s, r, scope) \/ StartQueue(s, r, scope)
      PROVE  AlertInv'
  <2>1. FirstCadence(scope) \in {"quarter", "month"}
      BY DEF FirstCadence
  <2> QED BY <1>2, <2>1, KeepsScriptStart DEF StartArchive, StartQueue
<1>3. ASSUME NEW s \in Script, EnsureTable(s) PROVE AlertInv'
    BY <1>3, KeepsEnsureTable
<1>4. ASSUME NEW s \in Script, MakeTable(s) PROVE AlertInv'
    BY <1>4, KeepsMakeTable
<1>5. ASSUME NEW s \in Script, LoadRows(s) PROVE AlertInv'
    BY <1>5, KeepsLoadRows
<1>6. ASSUME NEW s \in Script, CreateRows(s) PROVE AlertInv'
    BY <1>6, KeepsCreateRows
<1>7. ASSUME NEW s \in Script, RestoreRows(s) PROVE AlertInv'
    BY <1>7, KeepsRestoreRows
<1>8. ASSUME NEW s \in Script, RetireRows(s) PROVE AlertInv'
    BY <1>8, KeepsRetireRows
<1>9. ASSUME NEW s \in Script, NextPhase(s) PROVE AlertInv'
    BY <1>9, KeepsNextPhase
<1>10. ASSUME NEW s \in Script, LoadQueue(s) PROVE AlertInv'
    BY <1>10, KeepsLoadQueue
<1>11. ASSUME NEW s \in Script, EnqueueOne(s) PROVE AlertInv'
    BY <1>11, KeepsEnqueueOne
<1>12. ASSUME NEW s \in Script, ScriptStops(s) PROVE AlertInv'
    BY <1>12, KeepsScriptStops DEF ScriptStops
<1> QED BY <1>1, <1>2, <1>3, <1>4, <1>5, <1>6, <1>7, <1>8, <1>9, <1>10, <1>11, <1>12 DEF AlertNext

-----------------------------------------------------------------------------
(* What the invariant says of the tables.                                  *)

\* Of what there is at most one there are no two.
LEMMA OneIsNotTwo ==
    ASSUME NEW rows, Numbered(rows), NEW P, Fits(Cardinality(rows), P, 1), NEW x \in rows, NEW y \in rows
    PROVE  x = y
<1>1. Cardinality(rows) \in Nat /\ Cardinality(rows) <= 1
    BY FitBound
<1>2. x.copy \in 1 .. Cardinality(rows) /\ y.copy \in 1 .. Cardinality(rows)
    BY DEF Numbered
<1>3. x.copy = y.copy
    BY <1>1, <1>2
<1> QED BY <1>3 DEF Numbered

LEMMA AlertKeysUnique == AlertInv => KeysUnique
<1> SUFFICES ASSUME AlertInv, ~overlapped PROVE KeysUnique
    BY DEF KeysUnique
<1>1. ASSUME NEW n, NEW P, Fits(n, P, AlertBound) PROVE Fits(n, P, 1)
  <2>1. AlertBound <= 1
      BY FS_EmptySet DEF AlertBound
  <2> QED BY <1>1, <2>1, ScriptsAreCounted, MoreFit
<1>2. ASSUME NEW x \in archive, NEW y \in archive, x.alert = y.alert PROVE x = y
  <2>1. x.alert \in Alert /\ x \in RowsOf(x.alert) /\ y \in RowsOf(x.alert)
      BY <1>2 DEF AlertInv, AlertTyped, AlertTypeOK, ArchiveRow, RowsOf, Of
  <2>2. Numbered(RowsOf(x.alert)) /\ Fits(Cardinality(RowsOf(x.alert)), Creating(x.alert), 1)
      BY <1>1, <2>1 DEF AlertInv, RowCounts
  <2> QED BY <2>1, <2>2, OneIsNotTwo
<1>3. ASSUME NEW x \in queue, NEW y \in queue, x.key = y.key PROVE x = y
  <2>1. x.key \in Message /\ x \in KeysOf(x.key) /\ y \in KeysOf(x.key)
      BY <1>3 DEF AlertInv, AlertTyped, AlertTypeOK, QueueRow, KeysOf, Message
  <2>2. Numbered(KeysOf(x.key)) /\ Fits(Cardinality(KeysOf(x.key)), Queueing(x.key), 1)
      BY <1>1, <2>1 DEF AlertInv, KeyCounts
  <2> QED BY <2>1, <2>2, OneIsNotTwo
<1>4. \A t \in Table : tables[t] <= 1
    BY <1>1, FitBound DEF AlertInv, TableCounts
<1> QED BY <1>2, <1>3, <1>4 DEF KeysUnique, HasDuplicates

LEMMA AlertConverges == AlertInv => ArchiveConverges
<1> SUFFICES ASSUME AlertInv, NEW s \in Script, script[s].phase = "done", script[s].cadence = "month",
                    ~overlapped
             PROVE  {row.alert : row \in {x \in archive : /\ x.table = ScriptTable(s) /\ x.current
                                                          /\ x.alert.monitor \in script[s].scope}}
                        = Planned(script[s].report, "month", script[s].scope)
    BY DEF ArchiveConverges
<1>1. Left(s) /\ script[s].restore = {} /\ script[s].retire = {}
    BY DEF AlertInv, Converging, Left
<1>2. PlanOf(s) = Planned(script[s].report, "month", script[s].scope)
    BY DEF PlanOf
<1>3. ASSUME NEW row \in archive, row.table = ScriptTable(s), row.current,
             row.alert.monitor \in script[s].scope
      PROVE  row.alert \in PlanOf(s)
    BY <1>1, <1>3 DEF Left, TableRows
<1>4. ASSUME NEW a \in PlanOf(s)
      PROVE  \E row \in archive : /\ row.alert = a /\ row.table = ScriptTable(s) /\ row.current
                                  /\ row.alert.monitor \in script[s].scope
  <2>1. PICK row \in archive : row.alert = a /\ row.current
      BY <1>1 DEF Left
  <2>2. row.table = TableOf(a.report, Cadence[a.monitor])
      BY <2>1 DEF AlertInv, AlertTyped
  <2>3. a.report = script[s].report /\ Cadence[a.monitor] = script[s].cadence /\ a.monitor \in script[s].scope
      BY DEF PlanOf, Planned, AlertsOf
  <2> QED BY <2>1, <2>2, <2>3 DEF ScriptTable
<1> QED BY <1>2, <1>3, <1>4

\* How a step may change the archive.
LEMMA ArchiveSteps ==
    ASSUME [AlertNext]_alertVars
    PROVE  archive \subseteq archive' \/ \E s \in Script : RestoreRows(s) \/ RetireRows(s)
<1>1. ASSUME NEW s \in Script, NEW r, NEW scope, StartArchive(s, r, scope) \/ StartQueue(s, r, scope)
      PROVE  archive' = archive
    BY <1>1 DEF StartArchive, StartQueue, Start
<1>2. ASSUME NEW s \in Script, EnsureTable(s) \/ MakeTable(s) \/ LoadRows(s) \/ NextPhase(s)
      PROVE  archive' = archive
    BY <1>2 DEF EnsureTable, MakeTable, LoadRows, NextPhase
<1>3. ASSUME NEW s \in Script, LoadQueue(s) \/ EnqueueOne(s) \/ ScriptStops(s) PROVE archive' = archive
    BY <1>3 DEF LoadQueue, EnqueueOne, ScriptStops
<1>4. ASSUME NEW s \in Script, CreateRows(s) PROVE archive \subseteq archive'
    BY <1>4 DEF CreateRows
<1> QED BY <1>1, <1>2, <1>3, <1>4 DEF AlertNext, alertVars

LEMMA MarkedElsewhere ==
    ASSUME NEW batch, NEW value, archive' = Mark(batch, value), NEW row \in archive, row \notin archive'
    PROVE  Hit(batch, row)
<1>1. PICK rows : rows = archive' /\ rows = Mark(batch, value)
    OBVIOUS
<1>2. Marked(batch, value, row) \in archive'
    BY <1>1, MarkingIsMarked
<1> QED BY <1>2 DEF Marked

LEMMA NoGapStep ==
    ASSUME AlertInv, [AlertNext]_alertVars, ~overlapped', NEW s \in Script, script[s].phase = "retire",
           NEW a \in PlanOf(s)
    PROVE  \E row \in archive' : row.alert = a /\ row.current
<1>1. ~overlapped
  <2>1. ASSUME NEW t \in Script, NEW r, NEW scope, StartArchive(t, r, scope) \/ StartQueue(t, r, scope)
        PROVE  overlapped => overlapped'
      BY <2>1 DEF StartArchive, StartQueue, Start
  <2>2. ASSUME NEW t \in Script, EnsureTable(t) \/ MakeTable(t) \/ LoadRows(t) \/ NextPhase(t) \/ CreateRows(t)
        PROVE  overlapped' = overlapped
      BY <2>2 DEF EnsureTable, MakeTable, LoadRows, NextPhase, CreateRows
  <2>3. ASSUME NEW t \in Script,
               RestoreRows(t) \/ RetireRows(t) \/ LoadQueue(t) \/ EnqueueOne(t) \/ ScriptStops(t)
        PROVE  overlapped' = overlapped
      BY <2>3 DEF RestoreRows, RetireRows, LoadQueue, EnqueueOne, ScriptStops
  <2> QED BY <2>1, <2>2, <2>3 DEF AlertNext, alertVars
<1>2. Left(s) /\ script[s].restore = {}
    BY <1>1 DEF AlertInv, Converging, Left, Writing
<1>3. PICK row \in archive : row.alert = a /\ row.current
    BY <1>2 DEF Left
<1>4. CASE archive \subseteq archive'
    BY <1>3, <1>4
<1>5. ASSUME NEW t \in Script, RestoreRows(t) \/ RetireRows(t) PROVE row \in archive'
  <2>1. t = s /\ RetireRows(s)
      BY <1>1, <1>5 DEF AlertInv, Alone, Running, RestoreRows, RetireRows
  <2>2. PICK batch : batch = BatchOf(script[s].retire) /\ archive' = Mark(batch, FALSE)
      BY <2>1 DEF RetireRows
  <2>3. batch \subseteq script[s].retire
      BY <2>2, BatchIsPart DEF AlertInv, Asking
  <2>4. batch \subseteq archive /\ row \notin batch
      BY <1>2, <1>3, <2>3 DEF Left
  <2>5. ~Hit(batch, row)
      BY <2>4, HitsAreRows
  <2> QED BY <2>2, <2>5, MarkedElsewhere
<1> QED BY <1>3, <1>4, <1>5, ArchiveSteps

LEMMA OthersKeptStep ==
    ASSUME AlertInv, [AlertNext]_alertVars, NEW row \in archive, row \notin archive'
    PROVE  \E s \in Script : row.alert.monitor \in script[s].scope
<1>1. PICK s \in Script : RestoreRows(s) \/ RetireRows(s)
    BY ArchiveSteps
<1>2. PICK batch, value :
          /\ batch = BatchOf(script[s].restore) \/ batch = BatchOf(script[s].retire)
          /\ archive' = Mark(batch, value)
    BY <1>1 DEF RestoreRows, RetireRows
<1>3. Asking(s)
    BY DEF AlertInv
<1>4. batch \subseteq script[s].restore \cup script[s].retire
    BY <1>2, <1>3, BatchIsPart DEF Asking
<1>5. Hit(batch, row)
    BY <1>2, MarkedElsewhere
<1> QED BY <1>3, <1>4, <1>5 DEF Hit, Asking

\* The scripts that carry alerts into Feishu keep the tables as their readers
\* expect, however they are started, stopped and run again.  As long as no two
\* ran at once no key is there twice, an archive run that ends has converged to
\* its report, and on its way takes no alert off that it is to show; and none
\* ever touches the rows of other monitors (archive_feishu_alert_results.py:397
\* and 586, enqueue_feishu_alert_notifications.py:439).
THEOREM AlertsAreSound == AlertSpec => AlertSound
<1>1. AlertInit => AlertInv
    BY AlertInitially
<1>2. AlertInv /\ [AlertNext]_alertVars => AlertInv'
    BY AlertStep
<1>3. AlertInv => AlertTypeOK /\ KeysUnique /\ ArchiveConverges
    BY AlertKeysUnique, AlertConverges DEF AlertInv, AlertTyped
<1>4. AlertInv /\ [AlertNext]_alertVars =>
          [~overlapped' => \A s \in Script : script[s].phase = "retire" =>
               \A a \in Planned(script[s].report, script[s].cadence, script[s].scope) :
                   \E row \in archive' : row.alert = a /\ row.current]_alertVars
    BY NoGapStep DEF PlanOf
<1>5. AlertInv /\ [AlertNext]_alertVars =>
          [\A row \in archive : row \notin archive' =>
               \E s \in Script : row.alert.monitor \in script[s].scope]_alertVars
    BY OthersKeptStep
<1> QED BY <1>1, <1>2, <1>3, <1>4, <1>5, PTL DEF AlertSpec, AlertSound, NoAlertGap, OthersKept
==============================================================================
