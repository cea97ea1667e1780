------------------------------ MODULE ExportJob ------------------------------
(***************************************************************************)
(* One export job: the request that creates and dispatches it, the worker  *)
(* tasks that render it (a message may be delivered twice), the object     *)
(* store and the clients that download the file until its retention ends. *)
(*                                                                         *)
(* The object store is not part of any transaction: a file is put before   *)
(* the job is marked COMPLETED and deleted before it is marked EXPIRED.    *)
(* A file is named by its checksum, here by the state of the cases it was  *)
(* rendered from.                                                          *)
(***************************************************************************)
EXTENDS Naturals, FiniteSets

CONSTANTS
    Delivery,         \* deliveries of the render message (a bound)
    Downloader,       \* clients that ask for the file
    MaxCaseState,     \* states of the exported cases (a bound)
    ExportFaults,     \* faults of the environment, each at most once
    MaxExportFaults   \* number of them in one behaviour (a bound)

\* A worker lost, a transaction failed, a file not stored or not rendered, an
\* audit event not appended, a message delivered again, a broker not reached.
ExportFaultKinds == {"crash", "database", "render", "audit", "duplicate", "dispatch"}

ASSUME ExportAssumption ==
    /\ MaxCaseState \in Nat \ {0} /\ MaxExportFaults \in Nat
    /\ ExportFaults \subseteq ExportFaultKinds

VARIABLES
    job,           \* export_job: status and the key of its file
    objects,       \* keys in the object store
    render,        \* deliveries of the render task
    download,      \* clients: the job they read and how far they are
    caseState,     \* state of the root cases that are exported
    retentionOver, \* expires_at has passed
    exportFaults   \* faults that have happened

exportVars == <<job, objects, render, download, caseState, retentionOver, exportFaults>>

-----------------------------------------------------------------------------

Key == 0 .. MaxCaseState
JobRow == [status : {"ABSENT", "QUEUED", "RUNNING", "COMPLETED", "FAILED", "EXPIRED"}, key : Key]
RenderState ==
    [phase : {"none", "queued", "rendering", "rendered", "stored", "recorded", "failing", "done"},
     key : Key]
DownloadState == [phase : {"idle", "authorized", "expiring", "deleted", "served"}, key : Key]

\* Phases in which a delivery works on the job as its renderer.
Rendering == {"rendering", "rendered", "stored", "recorded", "failing"}

ExportFault(kind) ==
    /\ kind \in ExportFaults \ exportFaults
    /\ Cardinality(exportFaults) < MaxExportFaults
    /\ exportFaults' = exportFaults \cup {kind}

ExportInit ==
    /\ job = [status |-> "ABSENT", key |-> 0]
    /\ objects = {}
    /\ render = [d \in Delivery |-> [phase |-> "none", key |-> 0]]
    /\ download = [c \in Downloader |-> [phase |-> "idle", key |-> 0]]
    /\ caseState = 1
    /\ retentionOver = FALSE
    /\ exportFaults = {}

\* The job is committed, then audited, then dispatched: when one of the last
\* two fails the job stays QUEUED without a message.
CreateExport ==
    /\ job.status = "ABSENT"
    /\ job' = [job EXCEPT !.status = "QUEUED"]
    /\ \/ /\ \E d \in Delivery : render' = [render EXCEPT ![d].phase = "queued"]
          /\ UNCHANGED exportFaults
       \/ /\ ExportFault("dispatch") \/ ExportFault("audit")
          /\ UNCHANGED render
    /\ UNCHANGED <<objects, download, caseState, retentionOver>>

-----------------------------------------------------------------------------
(* The render task.                                                        *)

Goto(d, phase) == render' = [render EXCEPT ![d].phase = phase]

\* Mutant: a job that is running may be taken up again.
MutRenderable == job.status \in {"QUEUED", "FAILED", "RUNNING"}

Renderable == job.status \in {"QUEUED", "FAILED"}

\* Under the row lock: a job that is running or expired is not ready, one that
\* is completed is returned.
BeginRender(d) ==
    /\ render[d].phase = "queued"
    /\ IF Renderable
       THEN job' = [job EXCEPT !.status = "RUNNING"] /\ Goto(d, "rendering")
       ELSE UNCHANGED job /\ Goto(d, "done")
    /\ UNCHANGED <<objects, download, caseState, retentionOver, exportFaults>>

\* Reads the root cases in a transaction of its own.
RenderFile(d) ==
    /\ render[d].phase = "rendering"
    /\ render' = [render EXCEPT ![d] = [phase |-> "rendered", key |-> caseState]]
    /\ UNCHANGED <<job, objects, download, caseState, retentionOver, exportFaults>>

\* Mutant: the file is not written before the job is completed.
MutPutFile(d) ==
    /\ render[d].phase = "rendered"
    /\ Goto(d, "stored")
    /\ UNCHANGED <<job, objects, download, caseState, retentionOver, exportFaults>>

PutFile(d) ==
    /\ render[d].phase = "rendered"
    /\ objects' = objects \cup {render[d].key}
    /\ Goto(d, "stored")
    /\ UNCHANGED <<job, download, caseState, retentionOver, exportFaults>>

CompleteJob(d) ==
    /\ render[d].phase = "stored"
    /\ job' = [status |-> "COMPLETED", key |-> render[d].key]
    /\ Goto(d, "recorded")
    /\ UNCHANGED <<objects, download, caseState, retentionOver, exportFaults>>

AuditCompletion(d) ==
    /\ render[d].phase = "recorded"
    /\ Goto(d, "done")
    /\ UNCHANGED <<job, objects, download, caseState, retentionOver, exportFaults>>

\* Whatever raises after the job was begun leads to the same handler: the
\* rendering, the store, the transaction, and the audit of the completion.
RenderRaises(d) ==
    /\ \/ render[d].phase \in {"rendering", "rendered"} /\ ExportFault("render")
       \/ render[d].phase = "stored" /\ ExportFault("database")
       \/ render[d].phase = "recorded" /\ ExportFault("audit")
    /\ Goto(d, "failing")
    /\ UNCHANGED <<job, objects, download, caseState, retentionOver>>

\* Mutant: the failure is only logged.
MutFailJob(d) ==
    /\ render[d].phase = "failing"
    /\ Goto(d, "done")
    /\ UNCHANGED <<job, objects, download, caseState, retentionOver, exportFaults>>

\* The handler marks the job FAILED whatever its status is by now.
FailJob(d) ==
    /\ render[d].phase = "failing"
    /\ job' = [job EXCEPT !.status = "FAILED"]
    /\ Goto(d, "done")
    /\ UNCHANGED <<objects, download, caseState, retentionOver, exportFaults>>

\* The handler's own transaction fails: the job keeps the status it has.
FailureLost(d) ==
    /\ render[d].phase = "failing"
    /\ ExportFault("database")
    /\ Goto(d, "done")
    /\ UNCHANGED <<job, objects, download, caseState, retentionOver>>

\* acks_late: the message of a lost worker is delivered again.
LoseRenderer(d) ==
    /\ render[d].phase \in Rendering
    /\ ExportFault("crash")
    /\ Goto(d, "queued")
    /\ UNCHANGED <<job, objects, download, caseState, retentionOver>>

\* The visibility timeout passes while the message is queued or worked on.
DuplicateRender(d) ==
    /\ render[d].phase = "none"
    /\ \E e \in Delivery : render[e].phase \notin {"none", "done"}
    /\ ExportFault("duplicate")
    /\ Goto(d, "queued")
    /\ UNCHANGED <<job, objects, download, caseState, retentionOver>>

-----------------------------------------------------------------------------
(* Clients.  A client reads the job without a lock.                        *)

Authorize(c) ==
    /\ download[c].phase = "idle" /\ job.status = "COMPLETED"
    /\ download' = [download EXCEPT ![c] =
           [phase |-> IF retentionOver THEN "expiring" ELSE "authorized", key |-> job.key]]
    /\ UNCHANGED <<job, objects, render, caseState, retentionOver, exportFaults>>

\* A file that was deleted in between is not found.
ServeFile(c) ==
    /\ download[c].phase = "authorized"
    /\ download' = [download EXCEPT ![c].phase =
                       IF download[c].key \in objects THEN "served" ELSE "idle"]
    /\ UNCHANGED <<job, objects, render, caseState, retentionOver, exportFaults>>

\* Mutant: the file is left to a later clean-up.
MutDeleteFile(c) ==
    /\ download[c].phase = "expiring"
    /\ download' = [download EXCEPT ![c].phase = "deleted"]
    /\ UNCHANGED <<job, objects, render, caseState, retentionOver, exportFaults>>

DeleteFile(c) ==
    /\ download[c].phase = "expiring"
    /\ objects' = objects \ {download[c].key}
    /\ download' = [download EXCEPT ![c].phase = "deleted"]
    /\ UNCHANGED <<job, render, caseState, retentionOver, exportFaults>>

ExpireJob(c) ==
    /\ download[c].phase = "deleted"
    /\ job' = [job EXCEPT !.status = "EXPIRED"]
    /\ download' = [download EXCEPT ![c].phase = "idle"]
    /\ UNCHANGED <<objects, render, caseState, retentionOver, exportFaults>>

CasesChange ==
    /\ caseState < MaxCaseState
    /\ caseState' = caseState + 1
    /\ UNCHANGED <<job, objects, render, download, retentionOver, exportFaults>>

RetentionEnds ==
    /\ ~retentionOver
    /\ retentionOver' = TRUE
    /\ UNCHANGED <<job, objects, render, download, caseState, exportFaults>>

-----------------------------------------------------------------------------

RenderStep(d) ==
    \/ BeginRender(d) \/ RenderFile(d) \/ PutFile(d) \/ CompleteJob(d)
    \/ AuditCompletion(d) \/ FailJob(d)

ExportNext ==
    \/ CreateExport \/ CasesChange \/ RetentionEnds
    \/ \E d \in Delivery :
           RenderStep(d) \/ RenderRaises(d) \/ FailureLost(d) \/ LoseRenderer(d) \/ DuplicateRender(d)
    \/ \E c \in Downloader : Authorize(c) \/ ServeFile(c) \/ DeleteFile(c) \/ ExpireJob(c)

\* Workers run what is queued.
ExportSpec ==
    ExportInit /\ [][ExportNext]_exportVars /\ \A d \in Delivery : WF_exportVars(RenderStep(d))

-----------------------------------------------------------------------------
(* What an export guarantees.                                              *)

ExportTypeOK ==
    /\ job \in JobRow
    /\ objects \subseteq Key
    /\ render \in [Delivery -> RenderState]
    /\ download \in [Downloader -> DownloadState]
    /\ caseState \in Key
    /\ retentionOver \in BOOLEAN
    /\ exportFaults \subseteq ExportFaultKinds

\* A completed job has its file for as long as it is retained, whatever other
\* deliveries and clients do meanwhile.
CompletedHasFile == job.status = "COMPLETED" /\ ~retentionOver => job.key \in objects

\* A job that is RUNNING has exactly one delivery that renders it and will
\* mark it; not so after a lost worker, whose message finds the job RUNNING
\* and is refused, or a failed transaction.
RunningHasRenderer ==
    job.status = "RUNNING" =>
        \/ Cardinality({d \in Delivery : render[d].phase \in Rendering \ {"recorded"}}) = 1
        \/ exportFaults \cap {"crash", "database"} # {}

\* Once a job is EXPIRED its file is gone.  The expiring client deletes what
\* it read without a lock: a job that an unaudited completion made FAILED can
\* have been rendered again by a duplicate.
ExpiredHasNoFile ==
    job.status = "EXPIRED" => job.key \notin objects \/ {"audit", "duplicate"} \subseteq exportFaults

\* A client that was let in while the file was retained is told that there is
\* none only when the retention has ended meanwhile: no other client's expiry
\* and no second rendering takes the file from under it.
DownloadFindsFile ==
    [][\A c \in Downloader :
           download[c].phase = "authorized" /\ download'[c].phase = "idle" => retentionOver]_exportVars

\* What an export job promises: files, job and renderer agree whatever fails,
\* is delivered twice or expires meanwhile.
ExportSound ==
    [](ExportTypeOK /\ CompletedHasFile /\ RunningHasRenderer /\ ExpiredHasNoFile) /\ DownloadFindsFile

\* A message that was sent, and what it leads to: a job that is rendered, or
\* failed, unless its worker died or could not write that it failed.
RenderDue(d) == render[d].phase = "queued"
RenderOver(d) ==
    \/ job.status \in {"COMPLETED", "FAILED", "EXPIRED"}
    \/ exportFaults \cap {"crash", "database"} # {}
=============================================================================
