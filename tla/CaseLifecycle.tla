--------------------------- MODULE CaseLifecycle ---------------------------
(* The risk cases of one company and one quarter: runs of the quarter store *)
(* their detections and create or refresh the cases of their alerts         *)
(* (application/quarterly_runs.py), in whatever order they finish, while    *)
(* reviewers move the cases through the workflow (api/routes/cases.py).     *)
(* A transaction takes its locks and reads in one step, writes in another.  *)
EXTENDS Naturals, Sequences

CONSTANTS Run,        \* runs of the quarter, numbered as they were created
          Monitor,    \* monitor types: each has one case fingerprint
          Executor,   \* tasks that execute a run for the company
          Reviewer,   \* users who act on cases
          GroupTax,   \* the reviewers with the group-tax role
          None,       \* no case, no detections, no transaction
          MaxActions  \* bound on the review actions of a case

ASSUME CaseAssumption ==
  /\ Run \subseteq Nat /\ MaxActions \in Nat
  /\ GroupTax \subseteq Reviewer /\ Executor \cap Reviewer = {}

VARIABLES detected,  \* the alerts of a run's committed detections
          case,      \* the case of a fingerprint: status, latest run, row version
          trail,     \* its review actions
          tx         \* the transactions under way

vars == <<detected, case, trail, tx>>

Step(from, to) == [from |-> from, to |-> to]

\* The transitions an action of the API stands for.
Transition ==
  {Step("NEW", "ASSIGNED"),
   Step("ASSIGNED", "PENDING_COMPANY_CONFIRMATION"),
   Step("PENDING_COMPANY_CONFIRMATION", "PENDING_ADJUSTMENT"),
   Step("PENDING_COMPANY_CONFIRMATION", "GROUP_REVIEW"),
   Step("PENDING_COMPANY_CONFIRMATION", "EVIDENCE_REQUIRED"),
   Step("EVIDENCE_REQUIRED", "PENDING_COMPANY_CONFIRMATION"),
   Step("PENDING_ADJUSTMENT", "ADJUSTED_PENDING_REVIEW"),
   Step("ADJUSTED_PENDING_REVIEW", "CLOSED"),
   Step("GROUP_REVIEW", "CLOSED")}

CaseStatus == {s.from : s \in Transition} \cup {"CLOSED"}

CaseRow == [status : CaseStatus, latest : Run, version : Nat \ {0}]

\* No case and no detections are unlike any case and any detections.
ASSUME NoneAssumption == None \notin CaseRow /\ \A alerts \in SUBSET Monitor : alerts # None

----------------------------------------------------------------------------
(* Execution of a run for the company.                                      *)

Executing(t) == t \in Executor /\ tx[t] # None

\* Mutant: every detection touches its case, also one without an alert.
MutTouched(t) == Monitor

\* The cases an execution creates or refreshes.
Touched(t) == tx[t].alerts

\* An execution past LockCases holds the fingerprints of its alerts.
FingerprintFree(m, t) ==
  \A u \in Executor \ {t} : Executing(u) /\ tx[u].locked => m \notin Touched(u)

\* Mutant: the rows of cases are read without a lock.
MutRowFree(m) == TRUE

\* Nobody holds the row of the case FOR UPDATE.
RowFree(m) ==
  /\ \A u \in Executor : Executing(u) /\ tx[u].locked => m \notin Touched(u)
  /\ \A w \in Reviewer : tx[w] # None => tx[w].monitor # m

\* The first execution of a run takes the run's lock and calculates.
BeginExecute(t, r, alerts) ==
  /\ tx[t] = None
  /\ detected[r] = None
  /\ \A u \in Executor : Executing(u) => tx[u].run # r
  /\ tx' = [tx EXCEPT ![t] = [run |-> r, alerts |-> alerts, locked |-> FALSE, read |-> None]]
  /\ UNCHANGED <<detected, case, trail>>

\* The detections are flushed; then the fingerprints and the rows of the cases.
LockCases(t) ==
  /\ Executing(t) /\ ~tx[t].locked
  /\ \A m \in Touched(t) : FingerprintFree(m, t) /\ RowFree(m)
  /\ tx' = [tx EXCEPT ![t] = [run |-> tx[t].run, alerts |-> tx[t].alerts,
                           locked |-> TRUE, read |-> case]]
  /\ UNCHANGED <<detected, case, trail>>

\* Mutant: the last run to finish is taken for the newest.
MutNewer(r, s) == TRUE

Newer(r, s) == r > s

\* Mutant: a case starts without a version.
MutNewCase(r) == [status |-> "NEW", latest |-> r, version |-> 0]

NewCase(r) == [status |-> "NEW", latest |-> r, version |-> 1]

\* Only the summary and the version of the case are written.
Refreshed(m, r, read) ==
  [status |-> case[m].status, latest |-> r, version |-> read.version + 1]

CommitExecute(t) ==
  /\ Executing(t) /\ tx[t].locked
  /\ LET r == tx[t].run
         read == tx[t].read
     IN /\ detected' = [detected EXCEPT ![r] = tx[t].alerts]
        /\ case' = [m \in Monitor |->
                      IF m \notin Touched(t) THEN case[m]
                      ELSE IF read[m] = None THEN NewCase(r)
                      ELSE IF Newer(r, read[m].latest) THEN Refreshed(m, r, read[m])
                      ELSE case[m]]
  /\ tx' = [tx EXCEPT ![t] = None]
  /\ UNCHANGED trail

----------------------------------------------------------------------------
(* Review actions.                                                          *)

BeginReview(w, m, s) ==
  /\ tx[w] = None
  /\ case[m] # None /\ RowFree(m)
  /\ Len(trail[m]) < MaxActions
  /\ s.from = case[m].status
  /\ s.to = "CLOSED" => w \in GroupTax
  /\ tx' = [tx EXCEPT ![w] = [monitor |-> m, step |-> s, version |-> case[m].version]]
  /\ UNCHANGED <<detected, case, trail>>

CommitReview(w) ==
  /\ tx[w] # None
  /\ LET m == tx[w].monitor
     IN /\ case' = [case EXCEPT ![m] = [status |-> tx[w].step.to, latest |-> case[m].latest,
                                         version |-> tx[w].version + 1]]
        /\ trail' = [trail EXCEPT ![m] = Append(trail[m], tx[w].step)]
  /\ tx' = [tx EXCEPT ![w] = None]
  /\ UNCHANGED detected

\* A worker is lost, a request is cut off, or an error rolls the transaction back.
Abort(p) ==
  /\ tx[p] # None
  /\ tx' = [tx EXCEPT ![p] = None]
  /\ UNCHANGED <<detected, case, trail>>

----------------------------------------------------------------------------

Init ==
  /\ detected = [r \in Run |-> None]
  /\ case = [m \in Monitor |-> None]
  /\ trail = [m \in Monitor |-> <<>>]
  /\ tx = [p \in Executor \cup Reviewer |-> None]

Next ==
  \/ \E t \in Executor :
       \/ \E r \in Run, alerts \in SUBSET Monitor : BeginExecute(t, r, alerts)
       \/ LockCases(t) \/ CommitExecute(t)
  \/ \E w \in Reviewer :
       \/ \E m \in Monitor, s \in Transition : BeginReview(w, m, s)
       \/ CommitReview(w)
  \/ \E p \in Executor \cup Reviewer : Abort(p)

Spec == Init /\ [][Next]_vars

----------------------------------------------------------------------------
(* Properties.                                                              *)

\* The state is well formed: cases have a status of the workflow, a run and a
\* version from one on, trails hold transitions of the workflow, and a
\* transaction under way works on a run or a case that it can have.
TypeOK ==
  /\ detected \in [Run -> (SUBSET Monitor) \cup {None}]
  /\ case \in [Monitor -> CaseRow \cup {None}]
  /\ trail \in [Monitor -> Seq(Transition)]
  /\ \A p \in DOMAIN tx : tx[p] # None =>
       IF p \in Executor THEN tx[p].run \in Run /\ tx[p].alerts \subseteq Monitor
                         ELSE tx[p].monitor \in Monitor /\ tx[p].step \in Transition

\* The runs with a committed alert for the fingerprint.
Alerting(m) == {r \in Run : detected[r] # None /\ m \in detected[r]}

\* quarterly_runs.py: a monitor has a case exactly if some committed run alerted
\* on it, and the case shows one of those runs: neither an alert without its case
\* ("alert detections exist without their risk cases") nor a case without an
\* alert of its own monitor.
CaseBacksAlert ==
  \A m \in Monitor : IF case[m] = None THEN Alerting(m) = {} ELSE case[m].latest \in Alerting(m)

\* quarterly_runs.py _is_newer_case_detection: in whatever order runs finish, a
\* case shows the newest run that alerted.
SummaryIsNewest ==
  \A m \in Monitor : case[m] # None => \A r \in Alerting(m) : r <= case[m].latest

\* api/routes/cases.py: the review actions of a case are one path of the workflow
\* from NEW to its status; no refresh and no second reviewer breaks it.
TrailConnected ==
  \A m \in Monitor :
    /\ \A i \in 1 .. Len(trail[m]) - 1 : trail[m][i].to = trail[m][i + 1].from
    /\ trail[m] # <<>> => /\ trail[m][1].from = "NEW"
                          /\ case[m].status = trail[m][Len(trail[m])].to
    /\ trail[m] = <<>> => case[m] = None \/ case[m].status = "NEW"

\* Whoever writes a case, its row version goes up by one: no write of a refresh
\* or a review is lost under another.
VersionCounts ==
  [][\A m \in Monitor : case[m] # None /\ case'[m] # case[m] =>
       case'[m] # None /\ case'[m].version = case[m].version + 1]_vars
=============================================================================
