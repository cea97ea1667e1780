-------------------------- MODULE ValidationReport --------------------------
(***************************************************************************)
(* The files of the validation scripts.  The tax adjustment check replaces *)
(* its candidate file, then its result file, and merges both into the web  *)
(* report; the full validation makes a new web report and merges them into *)
(* it; the merge script merges them into the report that is there.  Each   *)
(* file is replaced whole, and nothing keeps two scripts from running at   *)
(* once or one from stopping between two files.                            *)
(***************************************************************************)
EXTENDS Integers, Sequences, FiniteSets, SequencesExt

CONSTANTS
    FirmOrder,     \* companies in the order of their codes
    BaseFirms,     \* sets of companies the Feishu base may hold
    Findings,      \* what a check may find: company to [status, candidates], both
                   \* functions of the checked subjects
    Validator,     \* script processes
    NoReportFile,  \* a file that does not exist
    MaxReportRuns, \* runs of scripts in one behaviour (a bound)
    MaxBaseChanges \* changes of the base in one behaviour (a bound)

\* What a check finds for the companies of the base, and the file it keeps.
RowsFor(firms, found) == [c \in firms |-> found[c]]
ReportFile ==
    [run : 1 .. MaxReportRuns, rows : {RowsFor(firms, f) : firms \in BaseFirms, f \in Findings}]

ASSUME ValidationReportAssumption ==
    /\ MaxReportRuns \in Nat /\ MaxBaseChanges \in Nat
    /\ NoReportFile \notin ReportFile
    /\ \A f \in Findings, firms \in BaseFirms : firms \subseteq DOMAIN f
    /\ \A f \in Findings : \A c \in DOMAIN f :
          /\ DOMAIN f[c].status # {}
          /\ \A s \in DOMAIN f[c].status :
                /\ f[c].status[s] \in {"CLEAR", "ALERT", "ERROR"}
                /\ f[c].status[s] = "ALERT" => f[c].candidates[s] > 0

VARIABLES
    baseFirms,     \* companies of the base
    candidateFile, \* [run, rows]
    resultFile,    \* [run, rows]
    webReport,     \* [full, firms, results, candidates, rows]
    validators,    \* state of each process
    runsBegun,     \* runs that were started
    baseChanges,   \* changes of the base so far
    disturbed      \* runs that met another, or stopped before their results were in place

reportVars ==
    <<baseFirms, candidateFile, resultFile, webReport, validators, runsBegun, baseChanges, disturbed>>

AtRest == [pc |-> "idle"]

ReportInit ==
    /\ baseFirms \in BaseFirms
    /\ candidateFile = NoReportFile /\ resultFile = NoReportFile /\ webReport = NoReportFile
    /\ validators = [v \in Validator |-> AtRest]
    /\ runsBegun = 0 /\ baseChanges = 0
    /\ disturbed = {}

BusyValidators == {v \in Validator : validators[v].pc # "idle"}

ValidatorStep(v, new) == validators' = [validators EXCEPT ![v] = new]

\* Nothing keeps a script from being started while another runs.
BeginScript(v, new) ==
    /\ validators[v].pc = "idle" /\ runsBegun < MaxReportRuns
    /\ runsBegun' = runsBegun + 1
    /\ ValidatorStep(v, new)
    /\ disturbed' = disturbed \cup (IF BusyValidators = {} THEN {}
                                     ELSE {runsBegun + 1} \cup {validators[u].run : u \in BusyValidators})
    /\ UNCHANGED <<baseFirms, candidateFile, resultFile, webReport, baseChanges>>

\* The check judges each company of the base.
BeginCheck(v) ==
    \E found \in Findings :
        BeginScript(v, [pc |-> "candidates", run |-> runsBegun + 1, rows |-> RowsFor(baseFirms, found)])

\* The full validation judges all companies of the base, or the first of them,
\* and has its report in memory.
BeginFull(v) ==
    \E n \in DOMAIN FirmOrder : LET firms == baseFirms \cap Range(SubSeq(FirmOrder, 1, n)) IN
        /\ firms # {}
        /\ BeginScript(v, [pc |-> "results", run |-> runsBegun + 1,
                           report |-> [full |-> runsBegun + 1, firms |-> firms]])

BeginMerging(v) == BeginScript(v, [pc |-> "report", run |-> runsBegun + 1])

WriteCandidates(v) ==
    /\ candidateFile' = [run |-> validators[v].run, rows |-> validators[v].rows]
    /\ UNCHANGED resultFile

WriteResults(v) ==
    /\ resultFile' = [run |-> validators[v].run, rows |-> validators[v].rows]
    /\ UNCHANGED candidateFile

\* Mutant: the results are in place before the candidates they speak of.
MutWriteFile(v) ==
    /\ \/ /\ validators[v].pc = "candidates" /\ WriteResults(v)
          /\ ValidatorStep(v, [validators[v] EXCEPT !.pc = "write"])
       \/ /\ validators[v].pc = "write" /\ WriteCandidates(v)
          /\ ValidatorStep(v, [validators[v] EXCEPT !.pc = "report"])
    /\ UNCHANGED <<baseFirms, webReport, runsBegun, baseChanges, disturbed>>

WriteFile(v) ==
    /\ \/ /\ validators[v].pc = "candidates" /\ WriteCandidates(v)
          /\ ValidatorStep(v, [validators[v] EXCEPT !.pc = "write"])
       \/ /\ validators[v].pc = "write" /\ WriteResults(v)
          /\ ValidatorStep(v, [validators[v] EXCEPT !.pc = "report"])
    /\ UNCHANGED <<baseFirms, webReport, runsBegun, baseChanges, disturbed>>

Quiet == UNCHANGED <<baseFirms, candidateFile, resultFile, webReport, runsBegun, baseChanges, disturbed>>

\* Without a report there is nothing to merge into: the run ends here.
ReadReport(v) ==
    /\ validators[v].pc = "report"
    /\ ValidatorStep(v, IF webReport = NoReportFile THEN AtRest
                        ELSE [pc |-> "results", run |-> validators[v].run,
                              report |-> [full |-> webReport.full, firms |-> webReport.firms]])
    /\ Quiet

Covers(firms) == firms \subseteq DOMAIN resultFile.rows

\* Results that do not name every company of the report end the run; without
\* results every company is blocked, and the candidates are not read.
ReadResults(v) ==
    /\ validators[v].pc = "results"
    /\ LET self == validators[v]
       IN ValidatorStep(v,
            IF resultFile = NoReportFile
            THEN [pc |-> "publish", run |-> self.run, report |-> self.report,
                  results |-> NoReportFile, evidence |-> NoReportFile]
            ELSE IF Covers(self.report.firms)
            THEN [pc |-> "evidence", run |-> self.run, report |-> self.report, results |-> resultFile]
            ELSE AtRest)
    /\ Quiet

ReadCandidates(v) ==
    /\ validators[v].pc = "evidence"
    /\ ValidatorStep(v, [pc |-> "publish", run |-> validators[v].run, report |-> validators[v].report,
                         results |-> validators[v].results, evidence |-> candidateFile])
    /\ Quiet

\* Mutant: an alert is worth more than an error.
MutMonitorStatus(statuses) ==
    IF "ALERT" \in statuses THEN "ALERT" ELSE IF "ERROR" \in statuses THEN "BLOCKED" ELSE "CLEAR"

MonitorStatus(statuses) ==
    IF "ERROR" \in statuses THEN "BLOCKED" ELSE IF "ALERT" \in statuses THEN "ALERT" ELSE "CLEAR"

\* Mutant: candidates that are not alerts are not shown.
MutShownResult(results, evidence, c) ==
    IF results = NoReportFile THEN [status |-> "BLOCKED", subjects |-> <<>>, shown |-> <<>>]
    ELSE LET row == results.rows[c]
         IN [status |-> MonitorStatus({row.status[s] : s \in DOMAIN row.status}),
             subjects |-> [s \in DOMAIN row.status |-> MonitorStatus({row.status[s]})],
             shown |-> [s \in DOMAIN row.status |->
                           IF row.status[s] = "ALERT" /\ evidence # NoReportFile
                              /\ c \in DOMAIN evidence.rows
                           THEN evidence.rows[c].candidates[s] ELSE 0]]

\* What the report says of a company; the candidates are shown whatever the
\* status, and are none when the candidate file does not name the company.
ShownResult(results, evidence, c) ==
    IF results = NoReportFile THEN [status |-> "BLOCKED", subjects |-> <<>>, shown |-> <<>>]
    ELSE LET row == results.rows[c]
         IN [status |-> MonitorStatus({row.status[s] : s \in DOMAIN row.status}),
             subjects |-> [s \in DOMAIN row.status |-> MonitorStatus({row.status[s]})],
             shown |-> IF evidence = NoReportFile \/ c \notin DOMAIN evidence.rows THEN <<>>
                       ELSE evidence.rows[c].candidates]

RunOf(file) == IF file = NoReportFile THEN 0 ELSE file.run

Published(self) ==
    [full |-> self.report.full, firms |-> self.report.firms,
     results |-> RunOf(self.results), candidates |-> RunOf(self.evidence),
     rows |-> [c \in self.report.firms |-> ShownResult(self.results, self.evidence, c)]]

PublishReport(v) ==
    /\ validators[v].pc = "publish"
    /\ webReport' = Published(validators[v])
    /\ ValidatorStep(v, AtRest)
    /\ UNCHANGED <<baseFirms, candidateFile, resultFile, runsBegun, baseChanges, disturbed>>

\* The process is stopped; what it had in memory is lost.
StopRun(v) ==
    /\ validators[v].pc # "idle"
    /\ disturbed' = disturbed \cup (IF validators[v].pc = "write" THEN {validators[v].run} ELSE {})
    /\ ValidatorStep(v, AtRest)
    /\ UNCHANGED <<baseFirms, candidateFile, resultFile, webReport, runsBegun, baseChanges>>

ChangeBase(firms) ==
    /\ baseChanges < MaxBaseChanges /\ firms # baseFirms
    /\ baseFirms' = firms
    /\ baseChanges' = baseChanges + 1
    /\ UNCHANGED <<candidateFile, resultFile, webReport, validators, runsBegun, disturbed>>

ReportNext ==
    \/ \E v \in Validator :
          \/ BeginCheck(v) \/ BeginFull(v) \/ BeginMerging(v) \/ WriteFile(v) \/ ReadReport(v)
          \/ ReadResults(v) \/ ReadCandidates(v) \/ PublishReport(v) \/ StopRun(v)
    \/ \E firms \in BaseFirms : ChangeBase(firms)

ReportSpec == ReportInit /\ [][ReportNext]_reportVars

-----------------------------------------------------------------------------

Shown == webReport # NoReportFile

\* Results and candidates that are shown are of one run, unless the run of the
\* candidates met another or stopped before its results were in place
\* (run_real_tax_adjustment_validation.py:1239).
OneRunShown ==
    (Shown /\ webReport.candidates \notin {0, webReport.results}) =>
        webReport.candidates \in disturbed

\* A company of which something could not be judged is shown neither as clear
\* nor as an alert; where results and candidates are of one run, each subject
\* has the candidates the run found, an alert or not (web_report.py:345).
WorstComesFirst ==
    Shown =>
        \A c \in DOMAIN webReport.rows :
            LET row == webReport.rows[c]
            IN /\ (\E s \in DOMAIN row.subjects : row.subjects[s] = "BLOCKED") => row.status = "BLOCKED"
               /\ webReport.candidates = webReport.results =>
                      \A s \in DOMAIN row.subjects :
                          /\ row.subjects[s] = "ALERT" => row.status # "CLEAR"
                          /\ RunOf(resultFile) = webReport.results =>
                                 row.shown[s] = resultFile.rows[c].candidates[s]

\* Every company of a report is judged in it: by the results it names, or as
\* blocked for want of any (web_report.py:166).
EveryFirmJudged ==
    Shown => /\ DOMAIN webReport.rows = webReport.firms
             /\ \A c \in webReport.firms :
                    webReport.results = 0 <=> webReport.rows[c].subjects = <<>>

\* A run that met no other publishes the results there are, never the figures of
\* a full validation older than those it replaces, and never results older than
\* those it replaces unless runs that met left the file with older ones
\* (run_real_tax_adjustment_validation.py:1295).
NothingGoesBack ==
    webReport' # webReport =>
        \A v \in Validator :
            (validators[v].pc = "publish" /\ validators[v].run \notin disturbed) =>
                /\ webReport'.results = (IF resultFile = NoReportFile THEN 0 ELSE resultFile.run)
                /\ Shown =>
                      /\ webReport'.full >= webReport.full
                      /\ webReport.results \notin disturbed => webReport'.results >= webReport.results

ReportSound ==
    [](OneRunShown /\ WorstComesFirst /\ EveryFirmJudged) /\ [][NothingGoesBack]_reportVars
=============================================================================
