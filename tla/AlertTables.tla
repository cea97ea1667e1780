----------------------------- MODULE AlertTables -----------------------------
(***************************************************************************)
(* The scripts that carry the alerts of a validation report into Feishu:   *)
(* the archive tables, one per cadence and period, whose rows of the       *)
(* latest report are marked current, and the queue from which a person     *)
(* pushes messages.                                                        *)
(*                                                                         *)
(* A script reads the rows that exist, then writes batch by batch with     *)
(* calls that may fail, or succeed without an answer; either ends the      *)
(* script, and an operator runs it again.  Feishu knows nothing of the     *)
(* keys: two scripts at once may both create what neither saw.             *)
(***************************************************************************)
EXTENDS Naturals, Sequences, SequencesExt, FiniteSetsExt, FiniteSets

CONSTANTS
    BaseRows,        \* sequence of the rows of the company table
    ReportCompanies, \* sequence of the companies in a report
    AlertMonitor,    \* monitors
    MonitorScope,    \* sets of monitors that a run may be asked for (a bound)
    Cadence,         \* [AlertMonitor -> {"quarter", "month"}]
    Report,          \* reports (a bound)
    MonthOf,         \* [Report -> months of one quarter]
    Alert,           \* alerts: [report, company, monitor, result]
    MaxPerMonitor,   \* companies that are queued per monitor
    BatchLimit,      \* rows that one call may write
    Script,          \* scripts that may run at once (a bound)
    MaxScriptRuns    \* runs of them in one behaviour (a bound)

AlertCompany == {row.company : row \in ToSet(BaseRows)} \cup ToSet(ReportCompanies)

ASSUME AlertAssumption ==
    /\ MonitorScope \subseteq SUBSET AlertMonitor \ {{}}
    /\ Cadence \in [AlertMonitor -> {"quarter", "month"}]
    /\ Report \subseteq Nat /\ MonthOf \in [Report -> Nat \ {0}]
    /\ MaxPerMonitor \in Nat \ {0} /\ BatchLimit \in Nat \ {0}
    /\ \A a \in Alert : a.report \in Report /\ a.company \in AlertCompany /\ a.monitor \in AlertMonitor
    /\ \A a, b \in Alert :
           a.report = b.report /\ a.company = b.company /\ a.monitor = b.monitor => a = b
    /\ IsFiniteSet(Alert) /\ IsFiniteSet(Script) /\ MaxScriptRuns \in Nat

VARIABLES
    tables,     \* archive tables of that name that exist
    archive,    \* rows of the archive tables
    queue,      \* rows of the message queue
    script,     \* scripts
    scriptRuns, \* runs begun
    overlapped  \* two scripts have run at once (history)

alertVars == <<tables, archive, queue, script, scriptRuns, overlapped>>

-----------------------------------------------------------------------------
(* Plans.                                                                  *)

\* A company is linked by its one row, if that has a record id.
Linked(company) ==
    /\ Cardinality({i \in DOMAIN BaseRows : BaseRows[i].company = company}) = 1
    /\ \E i \in DOMAIN BaseRows : BaseRows[i].company = company /\ BaseRows[i].record

\* A month has a table of its own, the quarter has month 0.
Table == [cadence : {"quarter", "month"}, month : {0} \cup {MonthOf[r] : r \in Report}]
TableOf(report, cadence) ==
    [cadence |-> cadence, month |-> IF cadence = "month" THEN MonthOf[report] ELSE 0]

AlertsOf(report, scope) == {a \in Alert : a.report = report /\ a.monitor \in scope}
Planned(report, cadence, scope) ==
    {a \in AlertsOf(report, scope) : Cadence[a.monitor] = cadence}

\* The first companies of each monitor, in the order of the report.
Selected(report, scope) ==
    UNION {LET hits == SelectSeq(ReportCompanies, LAMBDA c :
                           \E a \in AlertsOf(report, {m}) : a.company = c)
               chosen == ToSet(SubSeq(hits, 1, Min({Len(hits), MaxPerMonitor})))
           IN  {a \in AlertsOf(report, {m}) : a.company \in chosen} : m \in scope}

QueuePlan(report, scope) == {a \in Selected(report, scope) : Linked(a.company)}

\* The key of a message names the result, not the report; reports of the
\* same month give the same message.
MessageKey(a) ==
    [month |-> MonthOf[a.report], company |-> a.company, monitor |-> a.monitor, result |-> a.result]

\* The first rows of a batch.
BatchOf(S) ==
    IF Cardinality(S) <= BatchLimit THEN S
    ELSE CHOOSE B \in SUBSET S : Cardinality(B) = BatchLimit

ArchiveRow == [alert : Alert, table : Table, copy : 1 .. Cardinality(Script), current : BOOLEAN]
QueueRow == [key : {MessageKey(a) : a \in Alert}, copy : 1 .. Cardinality(Script)]

IdleScript ==
    [phase |-> "idle", report |-> 0, scope |-> {}, cadence |-> "quarter",
     create |-> {}, restore |-> {}, retire |-> {}]
Running == {"ensure", "makeTable", "load", "create", "restore", "retire", "loadQueue", "enqueue"}

AlertInit ==
    /\ tables = [t \in Table |-> 0]
    /\ archive = {}
    /\ queue = {}
    /\ script = [s \in Script |-> IdleScript]
    /\ scriptRuns = 0
    /\ overlapped = FALSE

Stop(s) == script' = [script EXCEPT ![s] = IdleScript]

Start(s, phase, report, scope, cadence) ==
    /\ script[s].phase \notin Running
    /\ scriptRuns < MaxScriptRuns /\ scriptRuns' = scriptRuns + 1
    /\ script' = [t \in Script |->
           IF t = s THEN [IdleScript EXCEPT !.phase = phase, !.report = report, !.scope = scope,
                                            !.cadence = cadence]
           ELSE IF script[t].phase = "done" THEN IdleScript ELSE script[t]]
    /\ overlapped' = (overlapped \/ \E t \in Script \ {s} : script[t].phase \in Running)
    /\ UNCHANGED <<tables, archive, queue>>

-----------------------------------------------------------------------------
(* The archive.                                                            *)

FirstCadence(scope) == IF \E m \in scope : Cadence[m] = "quarter" THEN "quarter" ELSE "month"

\* An alert of a company that is not linked refuses the whole plan.
StartArchive(s, report, scope) ==
    /\ Start(s, "ensure", report, scope, FirstCadence(scope))
    /\ \A a \in AlertsOf(report, scope) : Linked(a.company)

ScriptTable(s) == TableOf(script[s].report, script[s].cadence)

\* Two tables of a name are an error that no run resolves.
EnsureTable(s) ==
    /\ script[s].phase = "ensure"
    /\ CASE tables[ScriptTable(s)] = 0 -> script' = [script EXCEPT ![s].phase = "makeTable"]
         [] tables[ScriptTable(s)] = 1 -> script' = [script EXCEPT ![s].phase = "load"]
         [] OTHER -> Stop(s)
    /\ UNCHANGED <<tables, archive, queue, scriptRuns, overlapped>>

MakeTable(s) ==
    /\ script[s].phase = "makeTable"
    /\ tables' = [tables EXCEPT ![ScriptTable(s)] = @ + 1]
    /\ script' = [script EXCEPT ![s].phase = "ensure"]
    /\ UNCHANGED <<archive, queue, scriptRuns, overlapped>>

TableRows(s) == {row \in archive : row.table = ScriptTable(s)}
HasDuplicates(rows) == \E x, y \in rows : x # y /\ x.alert = y.alert

\* Mutant: the rows that exist are not looked up.
MutMissing(s) == Planned(script[s].report, script[s].cadence, script[s].scope)

Missing(s) ==
    Planned(script[s].report, script[s].cadence, script[s].scope) \ {row.alert : row \in TableRows(s)}

\* Mutant: a row that was retired is left as it is.
MutHidden(s) == {}

Hidden(s) ==
    {row \in TableRows(s) :
        row.alert \in Planned(script[s].report, script[s].cadence, script[s].scope) /\ ~row.current}

\* Mutant: the rows of all monitors are retired.
MutStale(s) ==
    {row \in TableRows(s) :
        row.alert \notin Planned(script[s].report, script[s].cadence, script[s].scope) /\ row.current}

Stale(s) ==
    {row \in TableRows(s) :
        /\ row.alert.monitor \in script[s].scope
        /\ row.alert \notin Planned(script[s].report, script[s].cadence, script[s].scope)
        /\ row.current}

LoadRows(s) ==
    /\ script[s].phase = "load"
    /\ IF HasDuplicates(TableRows(s)) THEN Stop(s)
       ELSE script' = [script EXCEPT ![s].phase = "create", ![s].create = Missing(s),
                           ![s].restore = Hidden(s), ![s].retire = Stale(s)]
    /\ UNCHANGED <<tables, archive, queue, scriptRuns, overlapped>>

NewRow(a, table) ==
    [alert |-> a, table |-> table, current |-> TRUE,
     copy |-> 1 + Cardinality({row \in archive : row.alert = a})]

CreateRows(s) ==
    LET batch == BatchOf(script[s].create)
    IN  /\ script[s].phase = "create" /\ batch # {}
        /\ archive' = archive \cup {NewRow(a, ScriptTable(s)) : a \in batch}
        /\ script' = [script EXCEPT ![s].create = @ \ batch]
        /\ UNCHANGED <<tables, queue, scriptRuns, overlapped>>

\* Rows are addressed by their record id, whatever became of them meanwhile.
Mark(rows, value) ==
    {IF \E x \in rows : x.alert = row.alert /\ x.copy = row.copy
     THEN [row EXCEPT !.current = value] ELSE row : row \in archive}

RestoreRows(s) ==
    LET batch == BatchOf(script[s].restore)
    IN  /\ script[s].phase = "restore" /\ batch # {}
        /\ archive' = Mark(batch, TRUE)
        /\ script' = [script EXCEPT ![s].restore = @ \ batch]
        /\ UNCHANGED <<tables, queue, scriptRuns, overlapped>>

RetireRows(s) ==
    LET batch == BatchOf(script[s].retire)
    IN  /\ script[s].phase = "retire" /\ batch # {}
        /\ archive' = Mark(batch, FALSE)
        /\ script' = [script EXCEPT ![s].retire = @ \ batch]
        /\ UNCHANGED <<tables, queue, scriptRuns, overlapped>>

\* Mutant: old rows are retired before those that were retired are restored.
MutAfter(phase) == CASE phase = "create" -> "retire" [] phase = "retire" -> "restore" [] OTHER -> "done"

After(phase) == CASE phase = "create" -> "restore" [] phase = "restore" -> "retire" [] OTHER -> "done"

\* The month's table follows that of the quarter.
NextPhase(s) ==
    LET done == After(script[s].phase) = "done"
        again == done /\ script[s].cadence = "quarter" /\ \E m \in script[s].scope : Cadence[m] = "month"
    IN  /\ script[s].phase = "create" => script[s].create = {}
        /\ script[s].phase = "restore" => script[s].restore = {}
        /\ script[s].phase = "retire" => script[s].retire = {}
        /\ script[s].phase \in {"create", "restore", "retire"}
        /\ script' = IF again THEN [script EXCEPT ![s].phase = "ensure", ![s].cadence = "month"]
                     ELSE [script EXCEPT ![s].phase = After(script[s].phase)]
        /\ UNCHANGED <<tables, archive, queue, scriptRuns, overlapped>>

-----------------------------------------------------------------------------
(* The message queue.                                                      *)

\* The script queues all monitors and leaves out what is not linked; called for
\* some of them at the end of a validation it refuses such a plan.
StartQueue(s, report, scope) ==
    /\ Start(s, "loadQueue", report, scope, "quarter")
    /\ scope = AlertMonitor \/ QueuePlan(report, scope) = Selected(report, scope)

\* Mutant: the keys that exist are not looked up.
MutUnqueued(s) == QueuePlan(script[s].report, script[s].scope)

Unqueued(s) ==
    {a \in QueuePlan(script[s].report, script[s].scope) : \A row \in queue : row.key # MessageKey(a)}

LoadQueue(s) ==
    /\ script[s].phase = "loadQueue"
    /\ IF \E x, y \in queue : x # y /\ x.key = y.key THEN Stop(s)
       ELSE script' = [script EXCEPT ![s].phase = "enqueue", ![s].create = Unqueued(s)]
    /\ UNCHANGED <<tables, archive, queue, scriptRuns, overlapped>>

EnqueueOne(s) ==
    /\ script[s].phase = "enqueue"
    /\ IF script[s].create = {} THEN script' = [script EXCEPT ![s].phase = "done"] /\ UNCHANGED queue
       ELSE LET a == CHOOSE x \in script[s].create : TRUE
            IN  /\ queue' = queue \cup
                       {[key |-> MessageKey(a),
                         copy |-> 1 + Cardinality({row \in queue : row.key = MessageKey(a)})]}
                /\ script' = [script EXCEPT ![s].create = @ \ {a}]
    /\ UNCHANGED <<tables, archive, scriptRuns, overlapped>>

\* A call is refused, its answer is lost, or the operator stops the script.
ScriptStops(s) ==
    /\ script[s].phase \in Running
    /\ Stop(s)
    /\ UNCHANGED <<tables, archive, queue, scriptRuns, overlapped>>

-----------------------------------------------------------------------------

AlertNext ==
    \E s \in Script :
        \/ \E r \in Report, scope \in MonitorScope :
               StartArchive(s, r, scope) \/ StartQueue(s, r, scope)
        \/ EnsureTable(s) \/ MakeTable(s) \/ LoadRows(s)
        \/ CreateRows(s) \/ RestoreRows(s) \/ RetireRows(s) \/ NextPhase(s)
        \/ LoadQueue(s) \/ EnqueueOne(s) \/ ScriptStops(s)

AlertSpec == AlertInit /\ [][AlertNext]_alertVars

-----------------------------------------------------------------------------
(* What the tables show.                                                   *)

AlertTypeOK ==
    /\ tables \in [Table -> 0 .. Cardinality(Script)]
    /\ archive \subseteq ArchiveRow
    /\ queue \subseteq QueueRow
    /\ \A s \in Script : /\ script[s].phase \in Running \cup {"idle", "done"}
                         /\ script[s].scope \subseteq AlertMonitor
                         /\ script[s].create \subseteq Alert
                         /\ script[s].restore \cup script[s].retire \subseteq ArchiveRow
    /\ scriptRuns \in 0 .. MaxScriptRuns
    /\ overlapped \in BOOLEAN

\* Scripts that never overlap never create a key twice, however often a lost
\* answer makes an operator run them again: a second row of a key would make
\* every later run fail.
KeysUnique ==
    ~overlapped => /\ ~HasDuplicates(archive)
                   /\ ~ \E x, y \in queue : x # y /\ x.key = y.key
                   /\ \A t \in Table : tables[t] <= 1

\* An archive run that ends has converged: whatever earlier runs left undone,
\* and whichever report they were for, the current rows of its monitors in its
\* last table are the alerts of its report.
ArchiveConverges ==
    \A s \in Script :
        script[s].phase = "done" /\ script[s].report # 0 /\ script[s].cadence = "month" /\ ~overlapped =>
            {row.alert : row \in {x \in archive : /\ x.table = ScriptTable(s) /\ x.current
                                                  /\ x.alert.monitor \in script[s].scope}}
                = Planned(script[s].report, "month", script[s].scope)

\* A company that alerts in the report a run archives is not taken off the
\* current rows by it, not even while it runs: its new row is there before its
\* old one is retired.
NoAlertGap ==
    [][~overlapped' => \A s \in Script : script[s].phase = "retire" =>
           \A a \in Planned(script[s].report, script[s].cadence, script[s].scope) :
               \E row \in archive' : row.alert = a /\ row.current]_alertVars

\* A run leaves the rows of the monitors it was not asked for as they are.
OthersKept ==
    [][\A row \in archive :
           row \notin archive' => \E s \in Script : row.alert.monitor \in script[s].scope]_alertVars

\* What the scripts promise to the readers of the tables.
AlertSound == [](AlertTypeOK /\ KeysUnique /\ ArchiveConverges) /\ NoAlertGap /\ OthersKept
=============================================================================
