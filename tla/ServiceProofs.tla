--------------------------- MODULE ServiceProofs ---------------------------
(***************************************************************************)
(* Proofs about the services: the export job, the coordinated reads, the   *)
(* client of the DGC data service and the run of business entertainment,   *)
(* each on its own and for any number of deliveries, clients, readers,     *)
(* books and faults.                                                       *)
(***************************************************************************)
EXTENDS ExportJob, FetchCache, DgcReader, EntertainmentRun,
        SequenceTheorems, FiniteSetTheorems, WellFoundedInduction, TLAPS

-----------------------------------------------------------------------------
(* The export job.  The row lock admits one renderer at a time, whatever    *)
(* fails; a client only deletes after the retention has ended.  A job that  *)
(* was completed once is not rendered again unless its completion could not *)
(* be audited and its message was delivered twice.                          *)

OneRenderer ==
    /\ \A d, e \in Delivery :
           render[d].phase \in Rendering /\ render[e].phase \in Rendering => d = e
    /\ job.status \in {"ABSENT", "QUEUED", "FAILED"} => \A d \in Delivery : render[d].phase \notin Rendering
    /\ job.status = "ABSENT" => \A d \in Delivery : render[d].phase = "none"
    /\ job.status = "RUNNING" =>
           \/ \E d \in Delivery : render[d].phase \in Rendering \ {"recorded"}
           \/ exportFaults \cap {"crash", "database"} # {}

\* Without a second delivery of the message one task has it.
OneMessage ==
    "duplicate" \notin exportFaults =>
        \A d, e \in Delivery : render[d].phase # "none" /\ render[e].phase # "none" => d = e

\* Files leave the store only when the retention has ended.
FilesKept ==
    /\ \A c \in Downloader : download[c].phase \in {"expiring", "deleted"} => retentionOver
    /\ ~retentionOver =>
           /\ \A d \in Delivery : render[d].phase \in {"stored", "recorded"} => render[d].key \in objects
           /\ \A c \in Downloader : download[c].phase = "authorized" => download[c].key \in objects
           /\ job.status = "COMPLETED" => job.key \in objects

Excused == {"audit", "duplicate"} \subseteq exportFaults

\* The job was completed at least once.
Produced ==
    \/ job.status \in {"COMPLETED", "EXPIRED"}
    \/ \E c \in Downloader : download[c].phase \in {"expiring", "deleted"}

ProducedOnce ==
    ~Excused /\ Produced =>
        /\ job.status \in {"COMPLETED", "EXPIRED", "FAILED"}
        /\ \A d \in Delivery : render[d].phase \notin {"rendering", "rendered", "stored"}
        /\ job.status = "FAILED" => \A d \in Delivery : render[d].phase \in {"none", "done"}
        /\ (\E d \in Delivery : render[d].phase = "failing") => "audit" \in exportFaults
        /\ \A c \in Downloader : download[c].phase \in {"expiring", "deleted"} => download[c].key = job.key
        /\ \A c \in Downloader : download[c].phase = "deleted" => download[c].key \notin objects
        /\ job.status = "EXPIRED" => job.key \notin objects

ExportInv == ExportTypeOK /\ OneRenderer /\ OneMessage /\ FilesKept /\ ProducedOnce


-----------------------------------------------------------------------------

LEMMA ExportInitially == ExportInit => ExportInv
<1> SUFFICES ASSUME ExportInit PROVE ExportInv
  OBVIOUS
<1>1. /\ job.status = "ABSENT" /\ ~retentionOver
      /\ \A d \in Delivery : render[d].phase = "none"
      /\ \A c \in Downloader : download[c].phase = "idle"
  BY DEF ExportInit
<1>2. ExportTypeOK
  <2>1. 0 \in Key /\ 1 \in Key
    BY ExportAssumption DEF Key
  <2> QED
    BY <2>1 DEF ExportInit, ExportTypeOK, JobRow, RenderState, DownloadState, ExportFaultKinds
<1>3. OneRenderer /\ OneMessage /\ FilesKept
  BY <1>1 DEF OneRenderer, OneMessage, FilesKept, Rendering
<1>4. ProducedOnce
  BY <1>1 DEF ProducedOnce, Produced
<1> QED
  BY <1>2, <1>3, <1>4 DEF ExportInv

LEMMA KeepsCreateExport ==
    ASSUME ExportInv, CreateExport
    PROVE  ExportInv'
<1> USE DEF ExportInv, CreateExport, ExportFault
<1>1. ExportTypeOK'
  BY ExportAssumption DEF ExportTypeOK, JobRow, Key, RenderState, DownloadState, ExportFaultKinds
<1>2. OneRenderer'
  BY SMTT(20) DEF ExportTypeOK, OneRenderer, Rendering, JobRow, Key, RenderState, DownloadState, ExportFaultKinds
<1>3. OneMessage'
  BY DEF ExportTypeOK, OneMessage, OneRenderer, Rendering, JobRow, Key, RenderState, DownloadState, ExportFaultKinds
<1>4. FilesKept'
  BY DEF ExportTypeOK, FilesKept, OneRenderer, Rendering, JobRow, Key, RenderState, DownloadState, ExportFaultKinds
<1>5. ProducedOnce'
  BY DEF ExportTypeOK, ProducedOnce, Produced, Excused, OneRenderer, OneMessage, Rendering,
         JobRow, Key, RenderState, DownloadState, ExportFaultKinds
<1> QED
  BY <1>1, <1>2, <1>3, <1>4, <1>5

LEMMA KeepsBeginRender ==
    ASSUME ExportInv, NEW d \in Delivery, BeginRender(d)
    PROVE  ExportInv'
<1> USE DEF ExportInv, BeginRender, Renderable, Goto
<1>1. ExportTypeOK'
  BY ExportAssumption DEF ExportTypeOK, JobRow, Key, RenderState, DownloadState, ExportFaultKinds
<1>2. OneRenderer'
  <2>1. /\ render[d].phase = "queued"
        /\ \A e \in Delivery : e # d => render'[e] = render[e]
        /\ render'[d].phase = IF Renderable THEN "rendering" ELSE "done"
        /\ job'.status = IF Renderable THEN "RUNNING" ELSE job.status
        /\ exportFaults' = exportFaults
    BY DEF ExportTypeOK, JobRow, RenderState
  <2>2. CASE Renderable
    BY <2>1, <2>2 DEF OneRenderer, Rendering
  <2>3. CASE ~Renderable
    BY <2>1, <2>3 DEF OneRenderer, Rendering
  <2> QED
    BY <2>2, <2>3
<1>3. OneMessage'
  BY DEF ExportTypeOK, OneMessage, Rendering, JobRow, Key, RenderState, DownloadState, ExportFaultKinds
<1>4. FilesKept'
  BY DEF ExportTypeOK, FilesKept, OneRenderer, Rendering, JobRow, Key, RenderState, DownloadState, ExportFaultKinds
<1>5. ProducedOnce'
  BY DEF ExportTypeOK, ProducedOnce, Produced, Excused, OneRenderer, OneMessage, Rendering,
         JobRow, Key, RenderState, DownloadState, ExportFaultKinds
<1> QED
  BY <1>1, <1>2, <1>3, <1>4, <1>5

LEMMA KeepsRenderFile ==
    ASSUME ExportInv, NEW d \in Delivery, RenderFile(d)
    PROVE  ExportInv'
<1> USE DEF ExportInv, RenderFile
<1>1. ExportTypeOK'
  BY ExportAssumption DEF ExportTypeOK, JobRow, Key, RenderState, DownloadState, ExportFaultKinds
<1>2. OneRenderer'
  BY DEF ExportTypeOK, OneRenderer, Rendering, JobRow, Key, RenderState, DownloadState, ExportFaultKinds
<1>3. OneMessage'
  BY DEF ExportTypeOK, OneMessage, Rendering, JobRow, Key, RenderState, DownloadState, ExportFaultKinds
<1>4. FilesKept'
  BY DEF ExportTypeOK, FilesKept, OneRenderer, Rendering, JobRow, Key, RenderState, DownloadState, ExportFaultKinds
<1>5. ProducedOnce'
  BY DEF ExportTypeOK, ProducedOnce, Produced, Excused, OneRenderer, OneMessage, Rendering,
         JobRow, Key, RenderState, DownloadState, ExportFaultKinds
<1> QED
  BY <1>1, <1>2, <1>3, <1>4, <1>5

LEMMA KeepsPutFile ==
    ASSUME ExportInv, NEW d \in Delivery, PutFile(d)
    PROVE  ExportInv'
<1> USE DEF ExportInv, PutFile, Goto
<1>1. ExportTypeOK'
  BY ExportAssumption DEF ExportTypeOK, JobRow, Key, RenderState, DownloadState, ExportFaultKinds
<1>2. OneRenderer'
  BY DEF ExportTypeOK, OneRenderer, Rendering, JobRow, Key, RenderState, DownloadState, ExportFaultKinds
<1>3. OneMessage'
  BY DEF ExportTypeOK, OneMessage, Rendering, JobRow, Key, RenderState, DownloadState, ExportFaultKinds
<1>4. FilesKept'
  BY DEF ExportTypeOK, FilesKept, OneRenderer, Rendering, JobRow, Key, RenderState, DownloadState, ExportFaultKinds
<1>5. ProducedOnce'
  BY DEF ExportTypeOK, ProducedOnce, Produced, Excused, OneRenderer, OneMessage, Rendering,
         JobRow, Key, RenderState, DownloadState, ExportFaultKinds
<1> QED
  BY <1>1, <1>2, <1>3, <1>4, <1>5

LEMMA KeepsCompleteJob ==
    ASSUME ExportInv, NEW d \in Delivery, CompleteJob(d)
    PROVE  ExportInv'
<1> USE DEF ExportInv, CompleteJob, Goto
<1>1. ExportTypeOK'
  BY ExportAssumption DEF ExportTypeOK, JobRow, Key, RenderState, DownloadState, ExportFaultKinds
<1>2. OneRenderer'
  BY DEF ExportTypeOK, OneRenderer, Rendering, JobRow, Key, RenderState, DownloadState, ExportFaultKinds
<1>3. OneMessage'
  BY DEF ExportTypeOK, OneMessage, Rendering, JobRow, Key, RenderState, DownloadState, ExportFaultKinds
<1>4. FilesKept'
  BY DEF ExportTypeOK, FilesKept, OneRenderer, Rendering, JobRow, Key, RenderState, DownloadState, ExportFaultKinds
<1>5. ProducedOnce'
  BY DEF ExportTypeOK, ProducedOnce, Produced, Excused, OneRenderer, OneMessage, Rendering,
         JobRow, Key, RenderState, DownloadState, ExportFaultKinds
<1> QED
  BY <1>1, <1>2, <1>3, <1>4, <1>5

LEMMA KeepsAuditCompletion ==
    ASSUME ExportInv, NEW d \in Delivery, AuditCompletion(d)
    PROVE  ExportInv'
<1> USE DEF ExportInv, AuditCompletion, Goto
<1>1. ExportTypeOK'
  BY ExportAssumption DEF ExportTypeOK, JobRow, Key, RenderState, DownloadState, ExportFaultKinds
<1>2. OneRenderer'
  BY DEF ExportTypeOK, OneRenderer, Rendering, JobRow, Key, RenderState, DownloadState, ExportFaultKinds
<1>3. OneMessage'
  BY DEF ExportTypeOK, OneMessage, Rendering, JobRow, Key, RenderState, DownloadState, ExportFaultKinds
<1>4. FilesKept'
  BY DEF ExportTypeOK, FilesKept, OneRenderer, Rendering, JobRow, Key, RenderState, DownloadState, ExportFaultKinds
<1>5. ProducedOnce'
  BY DEF ExportTypeOK, ProducedOnce, Produced, Excused, OneRenderer, OneMessage, Rendering,
         JobRow, Key, RenderState, DownloadState, ExportFaultKinds
<1> QED
  BY <1>1, <1>2, <1>3, <1>4, <1>5

LEMMA KeepsFailJob ==
    ASSUME ExportInv, NEW d \in Delivery, FailJob(d)
    PROVE  ExportInv'
<1> USE DEF ExportInv, FailJob, Goto
<1>1. ExportTypeOK'
  BY ExportAssumption DEF ExportTypeOK, JobRow, Key, RenderState, DownloadState, ExportFaultKinds
<1>2. OneRenderer'
  BY DEF ExportTypeOK, OneRenderer, Rendering, JobRow, Key, RenderState, DownloadState, ExportFaultKinds
<1>3. OneMessage'
  BY DEF ExportTypeOK, OneMessage, Rendering, JobRow, Key, RenderState, DownloadState, ExportFaultKinds
<1>4. FilesKept'
  BY DEF ExportTypeOK, FilesKept, OneRenderer, Rendering, JobRow, Key, RenderState, DownloadState, ExportFaultKinds
<1>5. ProducedOnce'
  BY DEF ExportTypeOK, ProducedOnce, Produced, Excused, OneRenderer, OneMessage, Rendering,
         JobRow, Key, RenderState, DownloadState, ExportFaultKinds
<1> QED
  BY <1>1, <1>2, <1>3, <1>4, <1>5

LEMMA KeepsRenderRaises ==
    ASSUME ExportInv, NEW d \in Delivery, RenderRaises(d)
    PROVE  ExportInv'
<1> USE DEF ExportInv, RenderRaises, Goto, ExportFault
<1>1. ExportTypeOK'
  BY ExportAssumption DEF ExportTypeOK, JobRow, Key, RenderState, DownloadState, ExportFaultKinds
<1>2. OneRenderer'
  BY DEF ExportTypeOK, OneRenderer, Rendering, JobRow, Key, RenderState, DownloadState, ExportFaultKinds
<1>3. OneMessage'
  BY DEF ExportTypeOK, OneMessage, Rendering, JobRow, Key, RenderState, DownloadState, ExportFaultKinds
<1>4. FilesKept'
  BY DEF ExportTypeOK, FilesKept, OneRenderer, Rendering, JobRow, Key, RenderState, DownloadState, ExportFaultKinds
<1>5. ProducedOnce'
  BY DEF ExportTypeOK, ProducedOnce, Produced, Excused, OneRenderer, OneMessage, Rendering,
         JobRow, Key, RenderState, DownloadState, ExportFaultKinds
<1> QED
  BY <1>1, <1>2, <1>3, <1>4, <1>5

LEMMA KeepsFailureLost ==
    ASSUME ExportInv, NEW d \in Delivery, FailureLost(d)
    PROVE  ExportInv'
<1> USE DEF ExportInv, FailureLost, Goto, ExportFault
<1>1. ExportTypeOK'
  BY ExportAssumption DEF ExportTypeOK, JobRow, Key, RenderState, DownloadState, ExportFaultKinds
<1>2. OneRenderer'
  BY DEF ExportTypeOK, OneRenderer, Rendering, JobRow, Key, RenderState, DownloadState, ExportFaultKinds
<1>3. OneMessage'
  BY DEF ExportTypeOK, OneMessage, Rendering, JobRow, Key, RenderState, DownloadState, ExportFaultKinds
<1>4. FilesKept'
  BY DEF ExportTypeOK, FilesKept, OneRenderer, Rendering, JobRow, Key, RenderState, DownloadState, ExportFaultKinds
<1>5. ProducedOnce'
  BY DEF ExportTypeOK, ProducedOnce, Produced, Excused, OneRenderer, OneMessage, Rendering,
         JobRow, Key, RenderState, DownloadState, ExportFaultKinds
<1> QED
  BY <1>1, <1>2, <1>3, <1>4, <1>5

LEMMA KeepsLoseRenderer ==
    ASSUME ExportInv, NEW d \in Delivery, LoseRenderer(d)
    PROVE  ExportInv'
<1> USE DEF ExportInv, LoseRenderer, Goto, ExportFault
<1>1. ExportTypeOK'
  BY ExportAssumption DEF ExportTypeOK, JobRow, Key, RenderState, DownloadState, ExportFaultKinds
<1>2. OneRenderer'
  BY DEF ExportTypeOK, OneRenderer, Rendering, JobRow, Key, RenderState, DownloadState, ExportFaultKinds
<1>3. OneMessage'
  BY DEF ExportTypeOK, OneMessage, Rendering, JobRow, Key, RenderState, DownloadState, ExportFaultKinds
<1>4. FilesKept'
  BY DEF ExportTypeOK, FilesKept, OneRenderer, Rendering, JobRow, Key, RenderState, DownloadState, ExportFaultKinds
<1>5. ProducedOnce'
  BY DEF ExportTypeOK, ProducedOnce, Produced, Excused, OneRenderer, OneMessage, Rendering,
         JobRow, Key, RenderState, DownloadState, ExportFaultKinds
<1> QED
  BY <1>1, <1>2, <1>3, <1>4, <1>5

LEMMA KeepsDuplicateRender ==
    ASSUME ExportInv, NEW d \in Delivery, DuplicateRender(d)
    PROVE  ExportInv'
<1> USE DEF ExportInv, DuplicateRender, Goto, ExportFault
<1>1. ExportTypeOK'
  BY ExportAssumption DEF ExportTypeOK, JobRow, Key, RenderState, DownloadState, ExportFaultKinds
<1>2. OneRenderer'
  BY DEF ExportTypeOK, OneRenderer, Rendering, JobRow, Key, RenderState, DownloadState, ExportFaultKinds
<1>3. OneMessage'
  BY DEF ExportTypeOK, OneMessage, Rendering, JobRow, Key, RenderState, DownloadState, ExportFaultKinds
<1>4. FilesKept'
  BY DEF ExportTypeOK, FilesKept, OneRenderer, Rendering, JobRow, Key, RenderState, DownloadState, ExportFaultKinds
<1>5. ProducedOnce'
  BY DEF ExportTypeOK, ProducedOnce, Produced, Excused, OneRenderer, OneMessage, Rendering,
         JobRow, Key, RenderState, DownloadState, ExportFaultKinds
<1> QED
  BY <1>1, <1>2, <1>3, <1>4, <1>5

LEMMA KeepsAuthorize ==
    ASSUME ExportInv, NEW c \in Downloader, Authorize(c)
    PROVE  ExportInv'
<1> USE DEF ExportInv, Authorize
<1>1. ExportTypeOK'
  BY ExportAssumption DEF ExportTypeOK, JobRow, Key, RenderState, DownloadState, ExportFaultKinds
<1>2. OneRenderer'
  BY DEF ExportTypeOK, OneRenderer, Rendering, JobRow, Key, RenderState, DownloadState, ExportFaultKinds
<1>3. OneMessage'
  BY DEF ExportTypeOK, OneMessage, Rendering, JobRow, Key, RenderState, DownloadState, ExportFaultKinds
<1>4. FilesKept'
  BY DEF ExportTypeOK, FilesKept, OneRenderer, Rendering, JobRow, Key, RenderState, DownloadState, ExportFaultKinds
<1>5. ProducedOnce'
  BY DEF ExportTypeOK, ProducedOnce, Produced, Excused, OneRenderer, OneMessage, Rendering,
         JobRow, Key, RenderState, DownloadState, ExportFaultKinds
<1> QED
  BY <1>1, <1>2, <1>3, <1>4, <1>5

LEMMA KeepsServeFile ==
    ASSUME ExportInv, NEW c \in Downloader, ServeFile(c)
    PROVE  ExportInv'
<1> USE DEF ExportInv, ServeFile
<1>1. ExportTypeOK'
  BY ExportAssumption DEF ExportTypeOK, JobRow, Key, RenderState, DownloadState, ExportFaultKinds
<1>2. OneRenderer'
  BY DEF ExportTypeOK, OneRenderer, Rendering, JobRow, Key, RenderState, DownloadState, ExportFaultKinds
<1>3. OneMessage'
  BY DEF ExportTypeOK, OneMessage, Rendering, JobRow, Key, RenderState, DownloadState, ExportFaultKinds
<1>4. FilesKept'
  BY DEF ExportTypeOK, FilesKept, OneRenderer, Rendering, JobRow, Key, RenderState, DownloadState, ExportFaultKinds
<1>5. ProducedOnce'
  BY DEF ExportTypeOK, ProducedOnce, Produced, Excused, OneRenderer, OneMessage, Rendering,
         JobRow, Key, RenderState, DownloadState, ExportFaultKinds
<1> QED
  BY <1>1, <1>2, <1>3, <1>4, <1>5

LEMMA KeepsDeleteFile ==
    ASSUME ExportInv, NEW c \in Downloader, DeleteFile(c)
    PROVE  ExportInv'
<1> USE DEF ExportInv, DeleteFile
<1>1. ExportTypeOK'
  BY ExportAssumption DEF ExportTypeOK, JobRow, Key, RenderState, DownloadState, ExportFaultKinds
<1>2. OneRenderer'
  BY DEF ExportTypeOK, OneRenderer, Rendering, JobRow, Key, RenderState, DownloadState, ExportFaultKinds
<1>3. OneMessage'
  BY DEF ExportTypeOK, OneMessage, Rendering, JobRow, Key, RenderState, DownloadState, ExportFaultKinds
<1>4. FilesKept'
  BY DEF ExportTypeOK, FilesKept, OneRenderer, Rendering, JobRow, Key, RenderState, DownloadState, ExportFaultKinds
<1>5. ProducedOnce'
  BY DEF ExportTypeOK, ProducedOnce, Produced, Excused, OneRenderer, OneMessage, Rendering,
         JobRow, Key, RenderState, DownloadState, ExportFaultKinds
<1> QED
  BY <1>1, <1>2, <1>3, <1>4, <1>5

LEMMA KeepsExpireJob ==
    ASSUME ExportInv, NEW c \in Downloader, ExpireJob(c)
    PROVE  ExportInv'
<1> USE DEF ExportInv, ExpireJob
<1>1. ExportTypeOK'
  BY ExportAssumption DEF ExportTypeOK, JobRow, Key, RenderState, DownloadState, ExportFaultKinds
<1>2. OneRenderer'
  BY DEF ExportTypeOK, OneRenderer, Rendering, JobRow, Key, RenderState, DownloadState, ExportFaultKinds
<1>3. OneMessage'
  BY DEF ExportTypeOK, OneMessage, Rendering, JobRow, Key, RenderState, DownloadState, ExportFaultKinds
<1>4. FilesKept'
  BY DEF ExportTypeOK, FilesKept, OneRenderer, Rendering, JobRow, Key, RenderState, DownloadState, ExportFaultKinds
<1>5. ProducedOnce'
  BY DEF ExportTypeOK, ProducedOnce, Produced, Excused, OneRenderer, OneMessage, Rendering,
         JobRow, Key, RenderState, DownloadState, ExportFaultKinds
<1> QED
  BY <1>1, <1>2, <1>3, <1>4, <1>5

LEMMA KeepsCasesChange ==
    ASSUME ExportInv, CasesChange
    PROVE  ExportInv'
<1> USE DEF ExportInv, CasesChange
<1>1. ExportTypeOK'
  BY ExportAssumption DEF ExportTypeOK, JobRow, Key, RenderState, DownloadState, ExportFaultKinds
<1>2. OneRenderer'
  BY DEF ExportTypeOK, OneRenderer, Rendering, JobRow, Key, RenderState, DownloadState, ExportFaultKinds
<1>3. OneMessage'
  BY DEF ExportTypeOK, OneMessage, Rendering, JobRow, Key, RenderState, DownloadState, ExportFaultKinds
<1>4. FilesKept'
  BY DEF ExportTypeOK, FilesKept, OneRenderer, Rendering, JobRow, Key, RenderState, DownloadState, ExportFaultKinds
<1>5. ProducedOnce'
  BY DEF ExportTypeOK, ProducedOnce, Produced, Excused, OneRenderer, OneMessage, Rendering,
         JobRow, Key, RenderState, DownloadState, ExportFaultKinds
<1> QED
  BY <1>1, <1>2, <1>3, <1>4, <1>5

LEMMA KeepsRetentionEnds ==
    ASSUME ExportInv, RetentionEnds
    PROVE  ExportInv'
<1> USE DEF ExportInv, RetentionEnds
<1>1. ExportTypeOK'
  BY ExportAssumption DEF ExportTypeOK, JobRow, Key, RenderState, DownloadState, ExportFaultKinds
<1>2. OneRenderer'
  BY DEF ExportTypeOK, OneRenderer, Rendering, JobRow, Key, RenderState, DownloadState, ExportFaultKinds
<1>3. OneMessage'
  BY DEF ExportTypeOK, OneMessage, Rendering, JobRow, Key, RenderState, DownloadState, ExportFaultKinds
<1>4. FilesKept'
  BY DEF ExportTypeOK, FilesKept, OneRenderer, Rendering, JobRow, Key, RenderState, DownloadState, ExportFaultKinds
<1>5. ProducedOnce'
  BY DEF ExportTypeOK, ProducedOnce, Produced, Excused, OneRenderer, OneMessage, Rendering,
         JobRow, Key, RenderState, DownloadState, ExportFaultKinds
<1> QED
  BY <1>1, <1>2, <1>3, <1>4, <1>5

LEMMA ExportStep ==
    ASSUME ExportInv, [ExportNext]_exportVars
    PROVE  ExportInv'
<1>1. CASE CreateExport
  BY <1>1, KeepsCreateExport
<1>2. CASE CasesChange
  BY <1>2, KeepsCasesChange
<1>3. CASE RetentionEnds
  BY <1>3, KeepsRetentionEnds
<1>4. ASSUME NEW d \in Delivery, RenderStep(d)
      PROVE  ExportInv'
  BY <1>4, KeepsBeginRender, KeepsRenderFile, KeepsPutFile, KeepsCompleteJob, KeepsAuditCompletion,
     KeepsFailJob
  DEF RenderStep
<1>5. ASSUME NEW d \in Delivery,
             RenderRaises(d) \/ FailureLost(d) \/ LoseRenderer(d) \/ DuplicateRender(d)
      PROVE  ExportInv'
  BY <1>5, KeepsRenderRaises, KeepsFailureLost, KeepsLoseRenderer, KeepsDuplicateRender
<1>6. ASSUME NEW c \in Downloader, Authorize(c) \/ ServeFile(c) \/ DeleteFile(c) \/ ExpireJob(c)
      PROVE  ExportInv'
  BY <1>6, KeepsAuthorize, KeepsServeFile, KeepsDeleteFile, KeepsExpireJob
<1>7. CASE UNCHANGED exportVars
  BY <1>7
  DEF exportVars, ExportInv, ExportTypeOK, OneRenderer, OneMessage, FilesKept, ProducedOnce, Produced,
      Excused
<1> QED
  BY <1>1, <1>2, <1>3, <1>4, <1>5, <1>6, <1>7 DEF ExportNext

\* A RUNNING job has one renderer, not merely some.
LEMMA RunningIsRendered == ExportInv => RunningHasRenderer
<1> DEFINE renderers == {d \in Delivery : render[d].phase \in Rendering \ {"recorded"}}
<1> SUFFICES ASSUME ExportInv, job.status = "RUNNING", exportFaults \cap {"crash", "database"} = {}
             PROVE  Cardinality(renderers) = 1
  BY DEF RunningHasRenderer
<1>1. PICK d \in Delivery : render[d].phase \in Rendering \ {"recorded"}
  BY DEF ExportInv, OneRenderer
<1>2. renderers = {d}
  BY <1>1 DEF ExportInv, OneRenderer
<1> QED
  BY <1>2, FS_Singleton

\* Only the end of the retention takes a file away, so a client that finds none
\* was overtaken by it.
LEMMA DownloadStep ==
    ASSUME ExportInv, [ExportNext]_exportVars, NEW c \in Downloader,
           download[c].phase = "authorized", download'[c].phase = "idle"
    PROVE  retentionOver
<1>1. CASE \E b \in Downloader : ServeFile(b)
  BY <1>1 DEF ServeFile, ExportInv, ExportTypeOK, DownloadState, FilesKept
<1>2. CASE \E b \in Downloader : Authorize(b) \/ DeleteFile(b) \/ ExpireJob(b)
  BY <1>2 DEF Authorize, DeleteFile, ExpireJob, ExportInv, ExportTypeOK, DownloadState
<1>3. CASE UNCHANGED download
  BY <1>3
<1>4. CASE \E d \in Delivery :
             RenderStep(d) \/ RenderRaises(d) \/ FailureLost(d) \/ LoseRenderer(d) \/ DuplicateRender(d)
  <2>1. UNCHANGED download
    BY <1>4
    DEF RenderStep, BeginRender, RenderFile, PutFile, CompleteJob, AuditCompletion, FailJob, RenderRaises,
        FailureLost, LoseRenderer, DuplicateRender
  <2> QED
    BY <2>1
<1> QED
  BY <1>1, <1>2, <1>3, <1>4
  DEF ExportNext, exportVars, CreateExport, CasesChange, RetentionEnds

\* What an export job promises: its file is in the store for as long as it is
\* retained, a RUNNING job has its one renderer, an EXPIRED one has no file, and
\* a client that was let in is not told that the file is gone before the
\* retention has ended (export_jobs.py, exports.py).
THEOREM ExportsAreSound == ExportSpec => ExportSound
<1>1. ExportInv => ExportTypeOK /\ CompletedHasFile /\ RunningHasRenderer /\ ExpiredHasNoFile
  <2>1. ExportInv => ExportTypeOK /\ RunningHasRenderer
    BY RunningIsRendered DEF ExportInv
  <2>2. ExportInv => CompletedHasFile
    BY DEF ExportInv, FilesKept, CompletedHasFile
  <2>3. ExportInv => ExpiredHasNoFile
    BY DEF ExportInv, ProducedOnce, Produced, Excused, ExpiredHasNoFile
  <2> QED
    BY <2>1, <2>2, <2>3
<1>2. ExportInv /\ [ExportNext]_exportVars =>
          [\A c \in Downloader :
               download[c].phase = "authorized" /\ download'[c].phase = "idle" => retentionOver]_exportVars
  BY DownloadStep
<1> QED
  BY <1>1, <1>2, ExportInitially, ExportStep, PTL DEF ExportSpec, ExportSound, DownloadFindsFile

-----------------------------------------------------------------------------
(* The coordinated reads.  A reader is loose while it works on its request  *)
(* without the lease, or believes that it has lost it; every one of them    *)
(* has a fault of its own behind it.                                        *)

Slipping == {"stall", "cache"}
Flying == {"queued", "calling", "fetched", "storing"}

Loose ==
    {r \in Reader : /\ reader[r].phase \in Flying \cup {"owner"}
                    /\ lease[reader[r].request] # r \/ reader[r].lost}

LooseBounded == IsFiniteSet(Loose) /\ Cardinality(Loose) <= Cardinality(fetchFaults \cap Slipping)

\* Only an owner hears of a loss.
LossIsOwned == \A r \in Reader : reader[r].phase \in {"idle", "missed", "waiting"} => ~reader[r].lost

\* Whoever fetches under the lease found nothing in the cache.
FetchesMisses ==
    fetchFaults \cap Slipping = {} =>
        \A r \in Reader : reader[r].phase \in Flying => entry[reader[r].request] = 0

FetchInv == FetchTypeOK /\ LooseBounded /\ LossIsOwned /\ FetchesMisses

-----------------------------------------------------------------------------

LEMMA FetchInitially == FetchInit => FetchInv
<1> SUFFICES ASSUME FetchInit PROVE FetchInv
  OBVIOUS
<1>1. \A r \in Reader : reader[r].phase = "idle" /\ ~reader[r].lost
  BY DEF FetchInit
<1>2. FetchTypeOK
  <2>1. 0 \in 0 .. MaxSource /\ 1 \in 1 .. MaxSource /\ 0 \in 0 .. MaxAttempts
    BY FetchAssumption
  <2> QED
    BY <2>1 DEF FetchInit, FetchTypeOK, ReaderState, FetchFaultKinds
<1>3. LooseBounded
  <2>1. Loose = {}
    BY <1>1 DEF Loose, Flying
  <2>2. fetchFaults \cap Slipping = {}
    BY DEF FetchInit
  <2> QED
    BY <2>1, <2>2, FS_EmptySet DEF LooseBounded
<1>4. LossIsOwned /\ FetchesMisses
  BY <1>1 DEF LossIsOwned, FetchesMisses, Flying
<1> QED
  BY <1>2, <1>3, <1>4 DEF FetchInv

\* Without new loose readers the bound stays.
LEMMA LooseShrinks ==
    ASSUME LooseBounded, Loose' \subseteq Loose, fetchFaults \subseteq fetchFaults',
           IsFiniteSet(fetchFaults')
    PROVE  LooseBounded'
<1>1. /\ IsFiniteSet(Loose') /\ Cardinality(Loose') <= Cardinality(Loose)
      /\ Cardinality(Loose') \in Nat /\ Cardinality(Loose) \in Nat
  BY FS_Subset, FS_CardinalityType DEF LooseBounded
<1>2. /\ IsFiniteSet(fetchFaults' \cap Slipping)
      /\ fetchFaults \cap Slipping \subseteq fetchFaults' \cap Slipping
  BY FS_Subset
<1>3. /\ Cardinality(fetchFaults \cap Slipping) <= Cardinality(fetchFaults' \cap Slipping)
      /\ Cardinality(fetchFaults \cap Slipping) \in Nat /\ Cardinality(fetchFaults' \cap Slipping) \in Nat
  BY <1>2, FS_Subset, FS_CardinalityType
<1> QED
  BY <1>1, <1>3 DEF LooseBounded

\* A reader that becomes loose does so by a fault that had not happened.
LEMMA LooseGrows ==
    ASSUME LooseBounded, NEW r, Loose' \subseteq Loose \cup {r},
           NEW kind \in Slipping, kind \notin fetchFaults, fetchFaults' = fetchFaults \cup {kind},
           IsFiniteSet(fetchFaults')
    PROVE  LooseBounded'
<1>1. /\ IsFiniteSet(Loose \cup {r}) /\ Cardinality(Loose \cup {r}) <= Cardinality(Loose) + 1
      /\ Cardinality(Loose) \in Nat /\ Cardinality(Loose \cup {r}) \in Nat
  <2>1. /\ IsFiniteSet(Loose) /\ Cardinality(Loose) \in Nat
        /\ IsFiniteSet(Loose \cup {r})
    BY FS_AddElement, FS_CardinalityType DEF LooseBounded
  <2>2. Cardinality(Loose \cup {r}) = IF r \in Loose THEN Cardinality(Loose) ELSE Cardinality(Loose) + 1
    BY <2>1, FS_AddElement
  <2> QED
    BY <2>1, <2>2
<1>2. /\ IsFiniteSet(Loose') /\ Cardinality(Loose') <= Cardinality(Loose \cup {r})
      /\ Cardinality(Loose') \in Nat
  BY <1>1, FS_Subset, FS_CardinalityType
<1>3. /\ IsFiniteSet(fetchFaults \cap Slipping) /\ kind \notin fetchFaults \cap Slipping
      /\ fetchFaults' \cap Slipping = (fetchFaults \cap Slipping) \cup {kind}
  BY FS_Subset
<1>4. /\ Cardinality(fetchFaults' \cap Slipping) = Cardinality(fetchFaults \cap Slipping) + 1
      /\ Cardinality(fetchFaults \cap Slipping) \in Nat
  BY <1>3, FS_AddElement, FS_CardinalityType
<1> QED
  BY <1>1, <1>2, <1>4 DEF LooseBounded

LEMMA FaultsFinite == \A faults \in SUBSET FetchFaultKinds : IsFiniteSet(faults)
<1>1. IsFiniteSet({"stall"} \cup {"crash"})
  BY FS_Singleton, FS_AddElement
<1>2. IsFiniteSet({"stall"} \cup {"crash"} \cup {"corrupt"} \cup {"cache"} \cup {"source"})
  BY <1>1, FS_AddElement
<1>3. FetchFaultKinds = {"stall"} \cup {"crash"} \cup {"corrupt"} \cup {"cache"} \cup {"source"}
  BY DEF FetchFaultKinds
<1> QED
  BY <1>2, <1>3, FS_Subset

\* Without a fault that makes a lease slip, whoever works on a request has it.
LEMMA NobodyLoose ==
    ASSUME FetchInv, fetchFaults \cap Slipping = {}, NEW r \in Reader,
           reader[r].phase \in Flying \cup {"owner"}
    PROVE  lease[reader[r].request] = r
<1>1. Cardinality(Loose) \in Nat /\ IsFiniteSet(Loose)
  BY FS_CardinalityType DEF FetchInv, LooseBounded
<1>2. Cardinality(Loose) = 0
  BY <1>1, FS_EmptySet DEF FetchInv, LooseBounded
<1>3. Loose = {}
  BY <1>1, <1>2, FS_EmptySet
<1> QED
  BY <1>3 DEF Loose

LEMMA LookTypes ==
    ASSUME FetchTypeOK, NEW r \in Reader,
           NEW hit \in {"ended", "releasing"}, NEW miss \in {"missed", "waiting", "queued"},
           NEW failed \in {"ended", "releasing"}, Look(r, hit, miss, failed)
    PROVE  /\ entry' \in [Request -> 0 .. MaxSource]
           /\ damaged' \subseteq {q \in Request : entry'[q] # 0}
           /\ reader' \in [Reader -> ReaderState]
<1> DEFINE q == reader[r].request
<1>1. reader[r] \in ReaderState /\ q \in Request
  BY DEF FetchTypeOK, ReaderState
<1>2. CASE q \in damaged
  <2>1. /\ entry' = [entry EXCEPT ![q] = 0] /\ damaged' = damaged \ {q}
        /\ reader' = [reader EXCEPT ![r].phase = failed]
    BY <1>2 DEF Look, Move
  <2>2. reader' \in [Reader -> ReaderState]
    BY <2>1 DEF FetchTypeOK, ReaderState
  <2> QED
    BY <1>1, <2>1, <2>2, FetchAssumption DEF FetchTypeOK
<1>3. CASE q \notin damaged /\ entry[q] # 0
  <2>1. /\ entry' = entry /\ damaged' = damaged
        /\ reader' = [reader EXCEPT ![r].phase = hit, ![r].value = entry[q]]
    BY <1>3 DEF Look, Got
  <2> QED
    BY <1>1, <2>1 DEF FetchTypeOK, ReaderState
<1>4. CASE q \notin damaged /\ entry[q] = 0
  <2>1. /\ entry' = entry /\ damaged' = damaged
        /\ reader' = [reader EXCEPT ![r].phase = miss]
    BY <1>4 DEF Look, Move
  <2> QED
    BY <1>1, <2>1 DEF FetchTypeOK, ReaderState
<1> QED
  BY <1>2, <1>3, <1>4

LEMMA KeepsReadCache ==
    ASSUME FetchInv, NEW r \in Reader, ReadCache(r)
    PROVE  FetchInv'
<1>1. FetchTypeOK'
  BY LookTypes DEF FetchInv, FetchTypeOK, ReadCache
<1> USE DEF FetchInv, ReadCache, Look, Move, Got
<1>2. LossIsOwned'
  BY DEF FetchTypeOK, ReaderState, LossIsOwned
<1>3. FetchesMisses'
  BY DEF FetchTypeOK, ReaderState, FetchesMisses, Flying
<1>4. LooseBounded'
  <2>1. Loose' \subseteq Loose
    BY DEF FetchTypeOK, ReaderState, LossIsOwned, Loose, Flying
  <2>2. fetchFaults \subseteq fetchFaults'
    OBVIOUS
  <2>3. IsFiniteSet(fetchFaults')
    BY <1>1, FaultsFinite DEF FetchTypeOK
  <2> QED
    BY <2>1, <2>2, <2>3, LooseShrinks
<1> QED
  BY <1>1, <1>2, <1>3, <1>4

LEMMA KeepsTryLock ==
    ASSUME FetchInv, NEW r \in Reader, TryLock(r)
    PROVE  FetchInv'
<1> USE DEF FetchInv, TryLock, Move
<1>1. FetchTypeOK'
  BY FetchAssumption DEF FetchTypeOK, ReaderState, FetchFaultKinds
<1>2. LossIsOwned'
  BY DEF FetchTypeOK, ReaderState, LossIsOwned
<1>3. FetchesMisses'
  BY DEF FetchTypeOK, ReaderState, FetchesMisses, Flying
<1>4. LooseBounded'
  <2>1. Loose' \subseteq Loose
    <3>1. /\ reader[r].request \in Request /\ ~reader[r].lost
          /\ \A s \in Reader : reader'[s].request = reader[s].request /\ reader'[s].lost = reader[s].lost
          /\ \A s \in Reader \ {r} : reader'[s].phase = reader[s].phase
      BY DEF FetchTypeOK, ReaderState, LossIsOwned
    <3>2. CASE lease[reader[r].request] = NoReader
      <4>1. lease' = [lease EXCEPT ![reader[r].request] = r]
        BY <3>2
      <4>2. \A s \in Reader :
                lease'[reader[s].request] =
                    IF reader[s].request = reader[r].request THEN r ELSE lease[reader[s].request]
        BY <3>1, <4>1 DEF FetchTypeOK, ReaderState
      <4>3. NoReader \notin Reader
        BY FetchAssumption
      <4> QED
        BY <3>1, <3>2, <4>2, <4>3 DEF Loose, Flying
    <3>3. CASE lease[reader[r].request] # NoReader
      BY <3>1, <3>3 DEF FetchTypeOK, ReaderState, Loose, Flying
    <3> QED
      BY <3>2, <3>3
  <2>2. fetchFaults \subseteq fetchFaults'
    OBVIOUS
  <2>3. IsFiniteSet(fetchFaults')
    BY <1>1, FaultsFinite DEF FetchTypeOK
  <2> QED
    BY <2>1, <2>2, <2>3, LooseShrinks
<1> QED
  BY <1>1, <1>2, <1>3, <1>4

LEMMA KeepsPoll ==
    ASSUME FetchInv, NEW r \in Reader, Poll(r)
    PROVE  FetchInv'
<1>1. FetchTypeOK'
  BY LookTypes DEF FetchInv, FetchTypeOK, Poll
<1> USE DEF FetchInv, Poll, Look, Move, Got
<1>2. LossIsOwned'
  BY DEF FetchTypeOK, ReaderState, LossIsOwned
<1>3. FetchesMisses'
  BY DEF FetchTypeOK, ReaderState, FetchesMisses, Flying
<1>4. LooseBounded'
  <2>1. Loose' \subseteq Loose
    BY DEF FetchTypeOK, ReaderState, LossIsOwned, Loose, Flying
  <2>2. fetchFaults \subseteq fetchFaults'
    OBVIOUS
  <2>3. IsFiniteSet(fetchFaults')
    BY <1>1, FaultsFinite DEF FetchTypeOK
  <2> QED
    BY <2>1, <2>2, <2>3, LooseShrinks
<1> QED
  BY <1>1, <1>2, <1>3, <1>4

LEMMA KeepsGiveUp ==
    ASSUME FetchInv, NEW r \in Reader, GiveUp(r)
    PROVE  FetchInv'
<1> USE DEF FetchInv, GiveUp, Move
<1>1. FetchTypeOK'
  BY FetchAssumption DEF FetchTypeOK, ReaderState, FetchFaultKinds
<1>2. LossIsOwned'
  BY DEF FetchTypeOK, ReaderState, LossIsOwned
<1>3. FetchesMisses'
  BY DEF FetchTypeOK, ReaderState, FetchesMisses, Flying
<1>4. LooseBounded'
  <2>1. Loose' \subseteq Loose
    BY DEF FetchTypeOK, ReaderState, LossIsOwned, Loose, Flying
  <2>2. fetchFaults \subseteq fetchFaults'
    OBVIOUS
  <2>3. IsFiniteSet(fetchFaults')
    BY <1>1, FaultsFinite DEF FetchTypeOK
  <2> QED
    BY <2>1, <2>2, <2>3, LooseShrinks
<1> QED
  BY <1>1, <1>2, <1>3, <1>4

LEMMA KeepsRecheck ==
    ASSUME FetchInv, NEW r \in Reader, Recheck(r)
    PROVE  FetchInv'
<1>1. FetchTypeOK'
  BY LookTypes DEF FetchInv, FetchTypeOK, Recheck
<1> USE DEF FetchInv, Recheck, Look, Move, Got
<1>2. LossIsOwned'
  BY DEF FetchTypeOK, ReaderState, LossIsOwned
<1>3. FetchesMisses'
  BY DEF FetchTypeOK, ReaderState, FetchesMisses, Flying
<1>4. LooseBounded'
  <2>1. Loose' \subseteq Loose
    BY DEF FetchTypeOK, ReaderState, LossIsOwned, Loose, Flying
  <2>2. fetchFaults \subseteq fetchFaults'
    OBVIOUS
  <2>3. IsFiniteSet(fetchFaults')
    BY <1>1, FaultsFinite DEF FetchTypeOK
  <2> QED
    BY <2>1, <2>2, <2>3, LooseShrinks
<1> QED
  BY <1>1, <1>2, <1>3, <1>4

LEMMA KeepsTakePermit ==
    ASSUME FetchInv, NEW r \in Reader, TakePermit(r)
    PROVE  FetchInv'
<1> USE DEF FetchInv, TakePermit, Move
<1>1. FetchTypeOK'
  BY FetchAssumption DEF FetchTypeOK, ReaderState, FetchFaultKinds
<1>2. LossIsOwned'
  BY DEF FetchTypeOK, ReaderState, LossIsOwned
<1>3. FetchesMisses'
  BY DEF FetchTypeOK, ReaderState, FetchesMisses, Flying
<1>4. LooseBounded'
  <2>1. Loose' \subseteq Loose
    BY DEF FetchTypeOK, ReaderState, LossIsOwned, Loose, Flying
  <2>2. fetchFaults \subseteq fetchFaults'
    OBVIOUS
  <2>3. IsFiniteSet(fetchFaults')
    BY <1>1, FaultsFinite DEF FetchTypeOK
  <2> QED
    BY <2>1, <2>2, <2>3, LooseShrinks
<1> QED
  BY <1>1, <1>2, <1>3, <1>4

LEMMA KeepsCallSource ==
    ASSUME FetchInv, NEW r \in Reader, CallSource(r)
    PROVE  FetchInv'
<1> USE DEF FetchInv, CallSource, Move, Got, FetchFault
<1>1. FetchTypeOK'
  BY FetchAssumption DEF FetchTypeOK, ReaderState, FetchFaultKinds
<1>2. LossIsOwned'
  BY DEF FetchTypeOK, ReaderState, LossIsOwned
<1>3. FetchesMisses'
  BY DEF FetchTypeOK, ReaderState, FetchesMisses, Flying
<1>4. LooseBounded'
  <2>1. Loose' \subseteq Loose
    BY DEF FetchTypeOK, ReaderState, LossIsOwned, Loose, Flying
  <2>2. fetchFaults \subseteq fetchFaults'
    OBVIOUS
  <2>3. IsFiniteSet(fetchFaults')
    BY <1>1, FaultsFinite DEF FetchTypeOK
  <2> QED
    BY <2>1, <2>2, <2>3, LooseShrinks
<1> QED
  BY <1>1, <1>2, <1>3, <1>4

LEMMA KeepsCheckLease ==
    ASSUME FetchInv, NEW r \in Reader, CheckLease(r)
    PROVE  FetchInv'
<1> USE DEF FetchInv, CheckLease, Move
<1>1. FetchTypeOK'
  BY FetchAssumption DEF FetchTypeOK, ReaderState, FetchFaultKinds
<1>2. LossIsOwned'
  BY DEF FetchTypeOK, ReaderState, LossIsOwned
<1>3. FetchesMisses'
  BY DEF FetchTypeOK, ReaderState, FetchesMisses, Flying
<1>4. LooseBounded'
  <2>1. Loose' \subseteq Loose
    BY DEF FetchTypeOK, ReaderState, LossIsOwned, Loose, Flying
  <2>2. fetchFaults \subseteq fetchFaults'
    OBVIOUS
  <2>3. IsFiniteSet(fetchFaults')
    BY <1>1, FaultsFinite DEF FetchTypeOK
  <2> QED
    BY <2>1, <2>2, <2>3, LooseShrinks
<1> QED
  BY <1>1, <1>2, <1>3, <1>4

LEMMA KeepsStore ==
    ASSUME FetchInv, NEW r \in Reader, Store(r)
    PROVE  FetchInv'
<1> USE DEF FetchInv, Store, Move, FetchFault
<1>1. FetchTypeOK'
  BY FetchAssumption, SMTT(20) DEF FetchTypeOK, ReaderState, FetchFaultKinds
<1>2. LossIsOwned'
  BY DEF FetchTypeOK, ReaderState, LossIsOwned
<1>3. FetchesMisses'
  BY NobodyLoose DEF FetchTypeOK, ReaderState, FetchesMisses, Flying
<1>4. LooseBounded'
  <2>1. Loose' \subseteq Loose
    BY DEF FetchTypeOK, ReaderState, LossIsOwned, Loose, Flying
  <2>2. fetchFaults \subseteq fetchFaults'
    OBVIOUS
  <2>3. IsFiniteSet(fetchFaults')
    BY <1>1, FaultsFinite DEF FetchTypeOK
  <2> QED
    BY <2>1, <2>2, <2>3, LooseShrinks
<1> QED
  BY <1>1, <1>2, <1>3, <1>4

LEMMA KeepsRelease ==
    ASSUME FetchInv, NEW r \in Reader, Release(r)
    PROVE  FetchInv'
<1> USE DEF FetchInv, Release, Move
<1>1. FetchTypeOK'
  BY FetchAssumption DEF FetchTypeOK, ReaderState, FetchFaultKinds
<1>2. LossIsOwned'
  BY DEF FetchTypeOK, ReaderState, LossIsOwned
<1>3. FetchesMisses'
  BY DEF FetchTypeOK, ReaderState, FetchesMisses, Flying
<1>4. LooseBounded'
  <2>1. Loose' \subseteq Loose
    BY DEF FetchTypeOK, ReaderState, LossIsOwned, Loose, Flying
  <2>2. fetchFaults \subseteq fetchFaults'
    OBVIOUS
  <2>3. IsFiniteSet(fetchFaults')
    BY <1>1, FaultsFinite DEF FetchTypeOK
  <2> QED
    BY <2>1, <2>2, <2>3, LooseShrinks
<1> QED
  BY <1>1, <1>2, <1>3, <1>4

LEMMA KeepsNoticeLoss ==
    ASSUME FetchInv, NEW r \in Reader, NoticeLoss(r)
    PROVE  FetchInv'
<1> USE DEF FetchInv, NoticeLoss, FetchFault, Owning
<1>1. FetchTypeOK'
  <2>1. fetchFaults' \subseteq FetchFaultKinds
    BY FetchAssumption DEF FetchTypeOK
  <2>2. reader' \in [Reader -> ReaderState]
    <3>1. reader[r] \in ReaderState /\ [reader[r] EXCEPT !.lost = TRUE] \in ReaderState
      BY DEF FetchTypeOK, ReaderState
    <3> QED
      BY <3>1 DEF FetchTypeOK
  <2> QED
    BY <2>1, <2>2 DEF FetchTypeOK
<1>2. LossIsOwned'
  BY DEF FetchTypeOK, ReaderState, LossIsOwned
<1>3. FetchesMisses'
  BY DEF FetchTypeOK, ReaderState, FetchesMisses, Flying
<1>4. LooseBounded'
  <2>1. IsFiniteSet(fetchFaults')
    BY <1>1, FaultsFinite DEF FetchTypeOK
  <2>2. CASE fetchFaults' = fetchFaults
    <3>1. Loose' \subseteq Loose
      BY <2>2 DEF FetchTypeOK, ReaderState, Loose, Flying
    <3> QED
      BY <2>1, <2>2, <3>1, LooseShrinks
  <2>3. CASE "cache" \notin fetchFaults /\ fetchFaults' = fetchFaults \cup {"cache"}
    <3>1. Loose' \subseteq Loose \cup {r}
      BY DEF FetchTypeOK, ReaderState, Loose, Flying
    <3> QED
      BY <2>1, <2>3, <3>1, LooseGrows DEF Slipping
  <2> QED
    BY <2>2, <2>3
<1> QED
  BY <1>1, <1>2, <1>3, <1>4

LEMMA KeepsDie ==
    ASSUME FetchInv, NEW r \in Reader, Die(r)
    PROVE  FetchInv'
<1> USE DEF FetchInv, Die, Move, FetchFault
<1>1. FetchTypeOK'
  BY FetchAssumption DEF FetchTypeOK, ReaderState, FetchFaultKinds
<1>2. LossIsOwned'
  BY DEF FetchTypeOK, ReaderState, LossIsOwned
<1>3. FetchesMisses'
  BY DEF FetchTypeOK, ReaderState, FetchesMisses, Flying
<1>4. LooseBounded'
  <2>1. Loose' \subseteq Loose
    BY DEF FetchTypeOK, ReaderState, LossIsOwned, Loose, Flying
  <2>2. fetchFaults \subseteq fetchFaults'
    OBVIOUS
  <2>3. IsFiniteSet(fetchFaults')
    BY <1>1, FaultsFinite DEF FetchTypeOK
  <2> QED
    BY <2>1, <2>2, <2>3, LooseShrinks
<1> QED
  BY <1>1, <1>2, <1>3, <1>4

LEMMA KeepsLeaseExpires ==
    ASSUME FetchInv, NEW q \in Request, LeaseExpires(q)
    PROVE  FetchInv'
<1> USE DEF FetchInv, LeaseExpires, Expirable, FetchFault
<1>1. FetchTypeOK'
  BY FetchAssumption DEF FetchTypeOK, ReaderState, FetchFaultKinds
<1>2. LossIsOwned'
  BY DEF FetchTypeOK, ReaderState, LossIsOwned
<1>3. FetchesMisses'
  BY DEF FetchTypeOK, ReaderState, FetchesMisses, Flying
<1>4. LooseBounded'
  <2>1. IsFiniteSet(fetchFaults')
    BY <1>1, FaultsFinite DEF FetchTypeOK
  <2>2. CASE fetchFaults' = fetchFaults
    <3>1. Loose' \subseteq Loose
      BY <2>2 DEF FetchTypeOK, ReaderState, Loose, Flying
    <3> QED
      BY <2>1, <2>2, <3>1, LooseShrinks
  <2>3. CASE "stall" \notin fetchFaults /\ fetchFaults' = fetchFaults \cup {"stall"}
    <3>1. Loose' \subseteq Loose \cup {lease[q]}
      BY DEF FetchTypeOK, ReaderState, Loose, Flying
    <3> QED
      BY <2>1, <2>3, <3>1, LooseGrows DEF Slipping
  <2> QED
    BY <2>2, <2>3
<1> QED
  BY <1>1, <1>2, <1>3, <1>4

LEMMA KeepsEntryExpires ==
    ASSUME FetchInv, NEW q \in Request, EntryExpires(q)
    PROVE  FetchInv'
<1> USE DEF FetchInv, EntryExpires
<1>1. FetchTypeOK'
  BY FetchAssumption DEF FetchTypeOK, ReaderState, FetchFaultKinds
<1>2. LossIsOwned'
  BY DEF FetchTypeOK, ReaderState, LossIsOwned
<1>3. FetchesMisses'
  BY DEF FetchTypeOK, ReaderState, FetchesMisses, Flying
<1>4. LooseBounded'
  <2>1. Loose' \subseteq Loose
    BY DEF FetchTypeOK, ReaderState, LossIsOwned, Loose, Flying
  <2>2. fetchFaults \subseteq fetchFaults'
    OBVIOUS
  <2>3. IsFiniteSet(fetchFaults')
    BY <1>1, FaultsFinite DEF FetchTypeOK
  <2> QED
    BY <2>1, <2>2, <2>3, LooseShrinks
<1> QED
  BY <1>1, <1>2, <1>3, <1>4

LEMMA KeepsDamage ==
    ASSUME FetchInv, NEW q \in Request, Damage(q)
    PROVE  FetchInv'
<1> USE DEF FetchInv, Damage, FetchFault
<1>1. FetchTypeOK'
  BY FetchAssumption DEF FetchTypeOK, ReaderState, FetchFaultKinds
<1>2. LossIsOwned'
  BY DEF FetchTypeOK, ReaderState, LossIsOwned
<1>3. FetchesMisses'
  BY DEF FetchTypeOK, ReaderState, FetchesMisses, Flying
<1>4. LooseBounded'
  <2>1. Loose' \subseteq Loose
    BY DEF FetchTypeOK, ReaderState, LossIsOwned, Loose, Flying
  <2>2. fetchFaults \subseteq fetchFaults'
    OBVIOUS
  <2>3. IsFiniteSet(fetchFaults')
    BY <1>1, FaultsFinite DEF FetchTypeOK
  <2> QED
    BY <2>1, <2>2, <2>3, LooseShrinks
<1> QED
  BY <1>1, <1>2, <1>3, <1>4

LEMMA KeepsSourceChanges ==
    ASSUME FetchInv, SourceChanges
    PROVE  FetchInv'
<1>1. FetchTypeOK'
  BY FetchAssumption DEF FetchInv, FetchTypeOK, SourceChanges
<1>2. (LooseBounded /\ LossIsOwned /\ FetchesMisses)'
  BY DEF FetchInv, SourceChanges, LooseBounded, Loose, LossIsOwned, FetchesMisses
<1> QED
  BY <1>1, <1>2 DEF FetchInv

LEMMA FetchInductive ==
    ASSUME FetchInv, [FetchNext]_fetchVars
    PROVE  FetchInv'
<1>1. ASSUME NEW r \in Reader, FetchStep(r) \/ NoticeLoss(r) \/ Die(r)
      PROVE  FetchInv'
  BY <1>1, KeepsReadCache, KeepsTryLock, KeepsPoll, KeepsGiveUp, KeepsRecheck, KeepsTakePermit,
     KeepsCallSource, KeepsCheckLease, KeepsStore, KeepsRelease, KeepsNoticeLoss, KeepsDie
  DEF FetchStep
<1>2. ASSUME NEW q \in Request, LeaseExpires(q) \/ EntryExpires(q) \/ Damage(q)
      PROVE  FetchInv'
  BY <1>2, KeepsLeaseExpires, KeepsEntryExpires, KeepsDamage
<1>3. CASE UNCHANGED fetchVars
  BY <1>3 DEF fetchVars, FetchInv, FetchTypeOK, LooseBounded, Loose, LossIsOwned, FetchesMisses
<1> QED
  BY <1>1, <1>2, <1>3, KeepsSourceChanges DEF FetchNext

\* Who fetches for a request holds its lease or is loose.
LEMMA FlightsAreBounded == FetchInv => FlightsBounded
<1> SUFFICES ASSUME FetchInv, NEW q \in Request
             PROVE  Cardinality(Flights(q)) <= 1 + Cardinality(fetchFaults \cap {"stall", "cache"})
  BY DEF FlightsBounded
<1>1. IsFiniteSet(Loose) /\ Cardinality(Loose) <= Cardinality(fetchFaults \cap {"stall", "cache"})
  BY DEF FetchInv, LooseBounded, Slipping
<1>2. /\ IsFiniteSet(Loose \cup {lease[q]})
      /\ Cardinality(Loose \cup {lease[q]}) =
             IF lease[q] \in Loose THEN Cardinality(Loose) ELSE Cardinality(Loose) + 1
  BY <1>1, FS_AddElement
<1>3. Flights(q) \subseteq Loose \cup {lease[q]}
  BY DEF Flights, Loose, Flying
<1>4. IsFiniteSet(Flights(q)) /\ Cardinality(Flights(q)) <= Cardinality(Loose \cup {lease[q]})
  BY <1>2, <1>3, FS_Subset
<1>5. IsFiniteSet(fetchFaults \cap {"stall", "cache"})
  BY FS_Subset, FaultsFinite DEF FetchInv, FetchTypeOK
<1>6. /\ Cardinality(Flights(q)) \in Nat /\ Cardinality(Loose) \in Nat
      /\ Cardinality(fetchFaults \cap {"stall", "cache"}) \in Nat
  BY <1>1, <1>4, <1>5, FS_CardinalityType
<1> QED
  BY <1>1, <1>2, <1>4, <1>6

\* Only a reader that stores replaces an entry, and it holds the lease.
LEMMA EntriesStand ==
    ASSUME FetchInv, [FetchNext]_fetchVars, fetchFaults \cap Slipping = {},
           NEW q \in Request, entry[q] # 0, entry'[q] # 0
    PROVE  entry'[q] = entry[q]
<1>1. ASSUME NEW r \in Reader, Store(r)
      PROVE  entry'[q] = entry[q]
  <2>1. entry[reader[r].request] = 0
    BY <1>1 DEF Store, FetchInv, FetchesMisses, Flying
  <2> QED
    BY <1>1, <2>1 DEF Store, FetchInv, FetchTypeOK
<1>2. ASSUME NEW r \in Reader, ReadCache(r) \/ Poll(r) \/ Recheck(r)
      PROVE  entry'[q] = entry[q]
  BY <1>2 DEF ReadCache, Poll, Recheck, Look, FetchInv, FetchTypeOK
<1>3. ASSUME NEW p \in Request, EntryExpires(p)
      PROVE  entry'[q] = entry[q]
  BY <1>3 DEF EntryExpires, FetchInv, FetchTypeOK
<1>4. ASSUME NEW r \in Reader,
             \/ TryLock(r) \/ GiveUp(r) \/ TakePermit(r) \/ CallSource(r) \/ CheckLease(r) \/ Release(r)
             \/ NoticeLoss(r) \/ Die(r)
      PROVE  UNCHANGED entry
  BY <1>4 DEF TryLock, GiveUp, TakePermit, CallSource, CheckLease, Release, NoticeLoss, Die
<1>5. ASSUME NEW p \in Request, LeaseExpires(p) \/ Damage(p)
      PROVE  UNCHANGED entry
  BY <1>5 DEF LeaseExpires, Damage
<1>6. CASE SourceChanges \/ UNCHANGED fetchVars
  BY <1>6 DEF SourceChanges, fetchVars
<1> QED
  BY <1>1, <1>2, <1>3, <1>4, <1>5, <1>6 DEF FetchNext, FetchStep

\* What the coordinator promises (external_fetch.py): one reader fetches what
\* many miss, one more for each way in which a lease can slip, and a cached
\* answer stands until it expires unless a lease slipped.
THEOREM FetchesAreSound == FetchSpec => FetchSound
<1>1. FetchInv => FetchTypeOK /\ FlightsBounded
  BY FlightsAreBounded DEF FetchInv
<1>2. FetchInv /\ [FetchNext]_fetchVars =>
          [\A q \in Request : entry[q] # 0 /\ entry'[q] # 0 =>
               \/ entry'[q] = entry[q]
               \/ fetchFaults \cap {"stall", "cache"} # {}]_fetchVars
  BY EntriesStand DEF Slipping
<1> QED
  BY <1>1, <1>2, FetchInitially, FetchInductive, PTL DEF FetchSpec, FetchSound, NoOverwrite

-----------------------------------------------------------------------------
(* The client of the DGC data service.  A token is renewed only after one   *)
(* was revoked or has expired, and what a fetch has read are rows of the    *)
(* table in their order, all of them if the service pages as expected.      *)

\* The pages before this one had room for the offset.
Placed == \A f \in Fetcher : fetch[f].offset <= (fetch[f].pageNumber - 1) * PageSize

\* The token may be renewed for nothing but the one that is in use.
TokensCounted ==
    /\ token.number \in {0, issued}
    /\ \A f \in Fetcher : fetch[f].phase = "rejected" => fetch[f].token \in revoked
    /\ issued <= Cardinality(revoked) + expired + (IF Usable /\ issued \notin revoked THEN 1 ELSE 0)

Same(records, first, n) == Len(records) = n /\ \A i \in 1 .. n : records[i] = first[i]

\* A regular service: the table up to the offset, and in the end all of it.
Whole(row) ==
    Regular =>
        /\ Same(row.records, service.table,
                IF row.phase = "returned" THEN Len(service.table) ELSE Least(row.offset, Len(service.table)))
        /\ row.offset > 0 => row.effective <= service.rowsPerPage

\* Any service: rows of the table, in its order, from before the offset.
Ordered(row) ==
    "change" \notin dgcFaults =>
        \E at \in [DOMAIN row.records -> DOMAIN service.table] :
            \A i \in DOMAIN at : /\ row.records[i] = service.table[at[i]]
                                 /\ row.phase # "returned" => at[i] <= row.offset
                                 /\ \A j \in DOMAIN at : i < j => at[i] < at[j]

RowsRead == \A f \in Fetcher : Whole(fetch[f]) /\ Ordered(fetch[f])

DgcTyped == DgcTypeOK /\ fetch \in [Fetcher -> FetchRow]

DgcInv == DgcTyped /\ Placed /\ TokensCounted /\ RowsRead

-----------------------------------------------------------------------------

LEMMA TableIsSeq ==
    \A table \in SourceTable : table \in Seq(RowContent)
<1> SUFFICES ASSUME NEW table \in SourceTable PROVE table \in Seq(RowContent)
  OBVIOUS
<1>1. table \in Seq(ToSet(table))
  BY DgcAssumption
<1>2. ToSet(table) \subseteq RowContent
  BY DEF RowContent
<1> QED
  BY <1>1, <1>2, SeqMonotonic

\* A page of the service: rows of the table from the offset on.
LEMMA PageIsRead ==
    ASSUME service \in [table : SourceTable, rowsPerPage : 1 .. PageSize, mode : PagingMode, iam : BOOLEAN],
           NEW offset \in Nat, NEW count \in Nat,
           count <= Least(service.rowsPerPage, Remaining(offset))
    PROVE  /\ Rows(offset, count) \in Seq(RowContent)
           /\ Len(Rows(offset, count)) = count
           /\ \A i \in 1 .. count : Rows(offset, count)[i] = service.table[offset + i]
           /\ count <= service.rowsPerPage /\ count <= PageSize
           /\ count > 0 => offset + count <= Len(service.table)
<1>1. /\ service.table \in Seq(RowContent) /\ Len(service.table) \in Nat
      /\ service.rowsPerPage \in 1 .. PageSize /\ PageSize \in Nat
  BY TableIsSeq, DgcAssumption
<1>2. /\ count <= service.rowsPerPage /\ count <= PageSize
      /\ count > 0 => offset + count <= Len(service.table)
  BY <1>1 DEF Least, Remaining
<1>3. \A i \in offset + 1 .. offset + count : service.table[i] \in RowContent
  BY <1>1, <1>2, ElementOfSeq
<1>4. /\ SubSeq(service.table, offset + 1, offset + count) \in Seq(RowContent)
      /\ Len(SubSeq(service.table, offset + 1, offset + count)) =
             IF offset + 1 <= offset + count THEN offset + count - (offset + 1) + 1 ELSE 0
      /\ \A i \in 1 .. offset + count - (offset + 1) + 1 :
             SubSeq(service.table, offset + 1, offset + count)[i] = service.table[offset + 1 + i - 1]
  BY <1>3, SubSeqProperties
<1> QED
  BY <1>2, <1>4 DEF Rows

-----------------------------------------------------------------------------

LEMMA DgcInitially == DgcInit => DgcInv
<1> SUFFICES ASSUME DgcInit PROVE DgcInv
  OBVIOUS
<1>1. /\ fetch = [f \in Fetcher |->
             [phase |-> "idle", attempt |-> 1, token |-> 0, offset |-> 0, pageNumber |-> 1,
              pages |-> {}, effective |-> PageSize, records |-> <<>>]]
      /\ service \in [table : SourceTable, rowsPerPage : 1 .. PageSize, mode : PagingMode, iam : BOOLEAN]
      /\ token = [number |-> 0, fresh |-> FALSE] /\ issued = 0 /\ revoked = {} /\ expired = 0
  BY DEF DgcInit
<1>2. service.table \in Seq(RowContent)
  BY <1>1, TableIsSeq
<1>3. DgcTyped
  <2>1. <<>> \in Seq(RowContent) /\ 1 \in 1 .. MaxPages /\ 1 \in 1 .. MaxPages + 1
        /\ PageSize \in 0 .. PageSize /\ 0 \in 0 .. MaxPages * PageSize /\ 0 <= MaxRecords
    BY DgcAssumption
  <2>2. fetch \in [Fetcher -> FetchRow]
    BY <1>1, <2>1 DEF FetchRow
  <2>3. DgcTypeOK
    BY <1>1, <2>1 DEF DgcInit, DgcTypeOK, DgcFaultKinds
  <2> QED
    BY <2>2, <2>3 DEF DgcTyped
<1>4. Placed
  BY <1>1, DgcAssumption DEF Placed
<1>5. TokensCounted
  BY <1>1, FS_EmptySet DEF TokensCounted, Usable
<1>6. RowsRead
  <2> SUFFICES ASSUME NEW f \in Fetcher PROVE Whole(fetch[f]) /\ Ordered(fetch[f])
    BY DEF RowsRead
  <2>1. fetch[f].records = <<>> /\ fetch[f].phase = "idle" /\ fetch[f].offset = 0
    BY <1>1
  <2>2. Whole(fetch[f])
    BY <1>2, <2>1 DEF Whole, Same, Least
  <2>3. DOMAIN fetch[f].records = {}
    BY <2>1
  <2>4. [i \in {} |-> 1] \in [DOMAIN fetch[f].records -> DOMAIN service.table]
    BY <2>3
  <2> QED
    BY <2>2, <2>3, <2>4 DEF Ordered
<1> QED
  BY <1>3, <1>4, <1>5, <1>6 DEF DgcInv

\* A step that reads no page and leaves the table alone.
LEMMA RowsStay ==
    ASSUME Placed, RowsRead, service' = service, dgcFaults \subseteq dgcFaults',
           \A f \in Fetcher :
               /\ fetch'[f].records = fetch[f].records /\ fetch'[f].offset = fetch[f].offset
               /\ fetch'[f].pageNumber = fetch[f].pageNumber /\ fetch'[f].effective = fetch[f].effective
               /\ fetch'[f].phase = "returned" <=> fetch[f].phase = "returned"
    PROVE  Placed' /\ RowsRead'
<1>1. Placed'
  BY DEF Placed
<1>2. Regular' => Regular
  BY DEF Regular
<1>3. ASSUME NEW f \in Fetcher
      PROVE  Whole(fetch[f])' /\ Ordered(fetch[f])'
  <2>1. Whole(fetch[f]) /\ Ordered(fetch[f])
    BY DEF RowsRead
  <2>2. Whole(fetch[f])'
    BY <1>2, <2>1 DEF Whole, Same
  <2>3. Ordered(fetch[f])'
    BY <2>1 DEF Ordered
  <2> QED
    BY <2>2, <2>3
<1> QED
  BY <1>1, <1>3 DEF RowsRead

LEMMA RevokedCounted ==
    ASSUME DgcTypeOK
    PROVE  IsFiniteSet(revoked) /\ Cardinality(revoked) \in Nat
<1>1. issued \in Int /\ 1 \in Int /\ revoked \in SUBSET (1 .. issued)
  BY DEF DgcTypeOK
<1>2. IsFiniteSet(1 .. issued)
  BY <1>1, FS_Interval
<1>3. IsFiniteSet(revoked)
  BY <1>1, <1>2, FS_Subset
<1> QED
  BY <1>3, FS_CardinalityType

Phases == {"idle", "token", "waiting", "locked", "send", "rejected", "returned", "failed"}

LEMMA RowEdited ==
    ASSUME NEW row \in FetchRow, NEW phase \in Phases, NEW number \in Nat
    PROVE  /\ [row EXCEPT !.phase = phase] \in FetchRow
           /\ [row EXCEPT !.phase = phase, !.token = number] \in FetchRow
           /\ [row EXCEPT !.phase = phase, !.attempt = 2] \in FetchRow
<1>1. [row EXCEPT !.phase = phase] \in FetchRow
  BY DEF FetchRow, Phases
<1>2. [row EXCEPT !.phase = phase, !.token = number] \in FetchRow
  BY DEF FetchRow, Phases
<1>3. [row EXCEPT !.phase = phase, !.attempt = 2] \in FetchRow
  BY DEF FetchRow, Phases
<1> QED
  BY <1>1, <1>2, <1>3

\* A fetch moves without reading a page, and the token it leaves behind is as
\* many as have a cause.
Moves(f, phase, number, row) ==
    /\ fetch[f].phase # "returned" /\ phase \in Phases \ {"returned"}
    /\ number \in 0 .. issued' /\ row \in FetchRow
    /\ fetch' = [fetch EXCEPT ![f] = row]
    /\ \/ row = [fetch[f] EXCEPT !.phase = phase]
       \/ row = [fetch[f] EXCEPT !.phase = phase, !.token = number]
       \/ row = [fetch[f] EXCEPT !.phase = phase, !.attempt = 2]
    /\ phase = "rejected" => row.token \in revoked
    /\ token' \in [number : {0, issued'}, fresh : BOOLEAN] /\ tokenLock' \in Fetcher \cup {NoFetcher}
    /\ issued' \in Nat /\ issued <= issued'
    /\ issued' <= Cardinality(revoked) + expired
                       + (IF token'.number # 0 /\ token'.fresh /\ issued' \notin revoked THEN 1 ELSE 0)
    /\ UNCHANGED <<service, revoked, expired>>
    /\ dgcFaults \subseteq dgcFaults' /\ dgcFaults' \subseteq DgcFaultKinds

LEMMA KeepsMove ==
    ASSUME DgcInv, NEW f \in Fetcher, NEW phase, NEW number, NEW row, Moves(f, phase, number, row)
    PROVE  DgcInv'
<1> USE DEF Moves
<1>1. fetch \in [Fetcher -> FetchRow] /\ DgcTypeOK
  BY DEF DgcInv, DgcTyped
<1>2. /\ fetch' \in [Fetcher -> FetchRow]
      /\ fetch'[f] = row /\ \A g \in Fetcher \ {f} : fetch'[g] = fetch[g]
  BY <1>1
<1>3. /\ row.phase = phase /\ row.records = fetch[f].records /\ row.offset = fetch[f].offset
      /\ row.pageNumber = fetch[f].pageNumber /\ row.effective = fetch[f].effective
      /\ row.token \in {fetch[f].token, number}
  <2>1. fetch[f] \in FetchRow
    BY <1>1
  <2>2. CASE row = [fetch[f] EXCEPT !.phase = phase]
    BY <2>1, <2>2 DEF FetchRow
  <2>3. CASE row = [fetch[f] EXCEPT !.phase = phase, !.token = number]
    BY <2>1, <2>3 DEF FetchRow
  <2>4. CASE row = [fetch[f] EXCEPT !.phase = phase, !.attempt = 2]
    BY <2>1, <2>4 DEF FetchRow
  <2> QED
    BY <2>2, <2>3, <2>4
<1>4. \A g \in Fetcher :
          /\ fetch'[g].records = fetch[g].records /\ fetch'[g].offset = fetch[g].offset
          /\ fetch'[g].pageNumber = fetch[g].pageNumber /\ fetch'[g].effective = fetch[g].effective
          /\ fetch'[g].phase = "returned" <=> fetch[g].phase = "returned"
  BY <1>2, <1>3
<1>5. \A g \in Fetcher : fetch'[g].token \in 0 .. issued' /\ fetch'[g].phase \in Phases
  BY <1>1, <1>2, <1>3 DEF DgcTypeOK, Phases
<1>6. DgcTypeOK'
  BY <1>1, <1>4, <1>5, SMTT(20) DEF DgcTypeOK, Phases
<1>7. TokensCounted'
  BY <1>2, <1>3 DEF DgcInv, TokensCounted, Usable
<1>8. Placed' /\ RowsRead'
  BY <1>4, RowsStay DEF DgcInv
<1> QED
  BY <1>2, <1>6, <1>7, <1>8 DEF DgcInv, DgcTyped

LEMMA KeepsTokenStep ==
    ASSUME DgcInv, NEW f \in Fetcher,
           StartFetch(f) \/ TakeToken(f) \/ SeeNoToken(f) \/ LockToken(f) \/ Invalidate(f) \/ RenewToken(f)
    PROVE  DgcInv'
<1> DEFINE to(phase) == [fetch[f] EXCEPT !.phase = phase]
           with(number) == [fetch[f] EXCEPT !.phase = "send", !.token = number]
<1>1. /\ fetch \in [Fetcher -> FetchRow] /\ DgcTypeOK /\ TokensCounted
      /\ fetch[f] \in FetchRow /\ fetch[f].token \in 0 .. issued
      /\ issued \in Nat /\ token.number \in {0, issued} /\ token \in [number : {0, issued}, fresh : BOOLEAN]
      /\ service.iam \in BOOLEAN
  BY DEF DgcInv, DgcTyped, DgcTypeOK, TokensCounted
<1>2. /\ \A phase \in Phases : to(phase) \in FetchRow
      /\ \A number \in Nat : with(number) \in FetchRow
      /\ [fetch[f] EXCEPT !.phase = "token", !.attempt = 2] \in FetchRow
  BY <1>1, RowEdited DEF Phases
<1>3. issued <= Cardinality(revoked) + expired
                    + (IF token.number # 0 /\ token.fresh /\ issued \notin revoked THEN 1 ELSE 0)
  BY <1>1 DEF TokensCounted, Usable
<1>4. tokenLock \in Fetcher \cup {NoFetcher} /\ dgcFaults \subseteq DgcFaultKinds
  BY <1>1 DEF DgcTypeOK
<1> HIDE DEF to, with
<1>5. ASSUME NEW phase \in Phases \ {"returned", "rejected"}, fetch' = [fetch EXCEPT ![f] = to(phase)],
             fetch[f].phase # "returned", tokenLock' \in Fetcher \cup {NoFetcher},
             UNCHANGED <<service, token, issued, revoked, expired>>,
             dgcFaults \subseteq dgcFaults', dgcFaults' \subseteq DgcFaultKinds
      PROVE  DgcInv'
  <2>1. to(phase) \in FetchRow /\ 0 \in 0 .. issued'
    BY <1>1, <1>2, <1>5
  <2>2. Moves(f, phase, 0, to(phase))
    BY <1>1, <1>3, <1>5, <2>1 DEF Moves, to
  <2> QED
    BY <2>2, KeepsMove
<1>6. ASSUME fetch' = [fetch EXCEPT ![f] = with(token.number)],
             fetch[f].phase # "returned", tokenLock' \in Fetcher \cup {NoFetcher},
             UNCHANGED <<service, token, issued, revoked, expired, dgcFaults>>
      PROVE  DgcInv'
  <2>1. with(token.number) \in FetchRow /\ token.number \in 0 .. issued'
    BY <1>1, <1>2, <1>6
  <2>2. Moves(f, "send", token.number, with(token.number))
    BY <1>1, <1>3, <1>4, <1>6, <2>1 DEF Moves, with, Phases
  <2> QED
    BY <2>2, KeepsMove
<1>7. CASE StartFetch(f)
  <2>1. fetch' = [fetch EXCEPT ![f] = to(TokenPhase)] /\ TokenPhase \in Phases \ {"returned", "rejected"}
    BY <1>7 DEF StartFetch, GoTo, to, TokenPhase, Phases
  <2> QED
    BY <1>4, <1>5, <1>7, <2>1 DEF StartFetch
<1>8. CASE TakeToken(f)
  <2>1. fetch' = [fetch EXCEPT ![f] = with(token.number)]
    BY <1>8 DEF TakeToken, Use, with
  <2> QED
    BY <1>4, <1>6, <1>8, <2>1 DEF TakeToken
<1>9. CASE SeeNoToken(f)
  <2>1. fetch' = [fetch EXCEPT ![f] = to("waiting")]
    BY <1>9 DEF SeeNoToken, GoTo, to
  <2> QED
    BY <1>4, <1>5, <1>9, <2>1 DEF SeeNoToken, Phases
<1>10. CASE LockToken(f)
  <2>1. fetch' = [fetch EXCEPT ![f] = to("locked")]
    BY <1>10 DEF LockToken, GoTo, to
  <2> QED
    BY <1>4, <1>5, <1>10, <2>1 DEF LockToken, Phases
<1>11. CASE Invalidate(f)
  <2>1. fetch' = [fetch EXCEPT ![f] = [fetch[f] EXCEPT !.phase = "token", !.attempt = 2]]
    BY <1>11 DEF Invalidate
  <2>2. fetch[f].token \in revoked /\ fetch[f].phase = "rejected"
    BY <1>1, <1>11 DEF Invalidate, TokensCounted
  <2>3. issued <= Cardinality(revoked) + expired
                      + (IF token'.number # 0 /\ token'.fresh /\ issued \notin revoked THEN 1 ELSE 0)
    BY <1>1, <1>3, <1>11, <2>2, RevokedCounted DEF Invalidate, Dropped, DgcTypeOK
  <2>4. token' \in [number : {0, issued}, fresh : BOOLEAN]
    BY <1>1, <1>11 DEF Invalidate
  <2>5. UNCHANGED <<service, tokenLock, issued, revoked, expired, dgcFaults>> /\ 0 \in 0 .. issued'
    BY <1>1, <1>11 DEF Invalidate
  <2>6. Moves(f, "token", 0, [fetch[f] EXCEPT !.phase = "token", !.attempt = 2])
    BY <1>1, <1>2, <1>4, <2>1, <2>2, <2>3, <2>4, <2>5 DEF Moves, Phases
  <2> QED
    BY <2>6, KeepsMove
<1>12. CASE RenewToken(f)
  <2>1. /\ fetch[f].phase = "locked" /\ tokenLock' \in Fetcher \cup {NoFetcher}
        /\ UNCHANGED <<service, revoked, expired>>
    BY <1>12 DEF RenewToken, Holder
  <2>2. CASE UNCHANGED <<token, issued, dgcFaults>> /\ Use(f)
    <3>1. fetch' = [fetch EXCEPT ![f] = with(token.number)]
      BY <2>2 DEF Use, with
    <3> QED
      BY <1>6, <2>1, <2>2, <3>1
  <2>3. CASE /\ ~Renewed /\ issued' = issued + 1 /\ token' = [number |-> issued + 1, fresh |-> TRUE]
             /\ fetch' = [fetch EXCEPT ![f].phase = "send", ![f].token = issued + 1]
             /\ UNCHANGED dgcFaults
    <3>1. fetch' = [fetch EXCEPT ![f] = with(issued + 1)]
      BY <2>3 DEF with
    <3>2. issued + 1 <= Cardinality(revoked) + expired
                            + (IF token'.number # 0 /\ token'.fresh /\ issued + 1 \notin revoked THEN 1 ELSE 0)
      <4>1. issued + 1 \notin revoked /\ token'.number # 0 /\ token'.fresh
        BY <1>1, <2>3 DEF DgcTypeOK
      <4>2. issued <= Cardinality(revoked) + expired
        BY <1>1, <1>3, <2>3, RevokedCounted DEF Renewed, Usable, DgcTypeOK
      <4> QED
        BY <1>1, <4>1, <4>2, RevokedCounted DEF DgcTypeOK
    <3>3. /\ with(issued + 1) \in FetchRow /\ issued + 1 \in 0 .. issued' /\ issued' \in Nat /\ issued <= issued'
          /\ token' \in [number : {0, issued'}, fresh : BOOLEAN]
      BY <1>1, <1>2, <2>3
    <3>4. Moves(f, "send", issued + 1, with(issued + 1))
      BY <1>1, <1>4, <2>1, <2>3, <3>1, <3>2, <3>3 DEF Moves, with, Phases
    <3> QED
      BY <3>4, KeepsMove
  <2>4. CASE UNCHANGED <<token, issued>> /\ DgcFault("iam") /\ GoTo(f, "failed")
    <3>1. fetch' = [fetch EXCEPT ![f] = to("failed")]
      BY <2>4 DEF GoTo, to
    <3>2. dgcFaults \subseteq dgcFaults' /\ dgcFaults' \subseteq DgcFaultKinds
      BY <1>4, <2>4, DgcAssumption DEF DgcFault
    <3> QED
      BY <1>5, <2>1, <2>4, <3>1, <3>2 DEF Phases
  <2> QED
    BY <1>12, <2>2, <2>3, <2>4 DEF RenewToken
<1> QED
  BY <1>7, <1>8, <1>9, <1>10, <1>11, <1>12

\* The rows of a page follow those that were read.
LEMMA PageFollows ==
    ASSUME NEW records \in Seq(RowContent), NEW offset \in Nat, NEW count \in Nat,
           service \in [table : SourceTable, rowsPerPage : 1 .. PageSize, mode : PagingMode, iam : BOOLEAN],
           count <= Least(service.rowsPerPage, Remaining(offset))
    PROVE  /\ records \o Rows(offset, count) \in Seq(RowContent)
           /\ Len(records \o Rows(offset, count)) = Len(records) + count
           /\ \A i \in 1 .. Len(records) : (records \o Rows(offset, count))[i] = records[i]
           /\ \A i \in Len(records) + 1 .. Len(records) + count :
                  (records \o Rows(offset, count))[i] = service.table[offset + (i - Len(records))]
<1> DEFINE page == Rows(offset, count)
<1>1. /\ page \in Seq(RowContent) /\ Len(page) = count
      /\ \A i \in 1 .. count : page[i] = service.table[offset + i]
  BY PageIsRead
<1> HIDE DEF page
<1>2. /\ records \o page \in Seq(RowContent)
      /\ Len(records \o page) = Len(records) + count
      /\ \A i \in 1 .. Len(records) + count :
             (records \o page)[i] = IF i <= Len(records) THEN records[i] ELSE page[i - Len(records)]
  BY <1>1, ConcatProperties
<1>3. Len(records) \in Nat
  OBVIOUS
<1>4. \A i \in 1 .. Len(records) : (records \o page)[i] = records[i]
  BY <1>2, <1>3
<1>5. ASSUME NEW i \in Len(records) + 1 .. Len(records) + count
      PROVE  (records \o page)[i] = service.table[offset + (i - Len(records))]
  <2>1. i \in 1 .. Len(records) + count /\ ~(i <= Len(records)) /\ i - Len(records) \in 1 .. count
    BY <1>3
  <2> QED
    BY <1>1, <1>2, <2>1
<1> QED
  BY <1>2, <1>4, <1>5 DEF page

\* A row of a fetch after a page: what it must still satisfy.
Reads(f, new) ==
    /\ fetch[f].phase = "send" /\ new \in FetchRow
    /\ fetch' = [fetch EXCEPT ![f] = new]
    /\ new.phase \in {"returned", "token", "send"} /\ new.token = fetch[f].token
    /\ new.pageNumber \in 1 .. MaxPages /\ new.offset <= (new.pageNumber - 1) * PageSize
    /\ Len(new.records) <= MaxRecords
    /\ Whole(new)' /\ Ordered(new)'
    /\ UNCHANGED <<service, token, tokenLock, issued, revoked, expired>>
    /\ dgcFaults \subseteq dgcFaults' /\ dgcFaults' \subseteq DgcFaultKinds

LEMMA PagesFit ==
    ASSUME NEW number \in 1 .. MaxPages, NEW offset \in Nat, offset <= (number - 1) * PageSize
    PROVE  /\ offset \in 0 .. MaxPages * PageSize
           /\ (number - 1) * PageSize + PageSize = number * PageSize
<1>1. PageSize \in Nat \ {0} /\ MaxPages \in Nat \ {0} /\ number \in Nat /\ number <= MaxPages
  BY DgcAssumption
<1>2. (number - 1) * PageSize + PageSize = number * PageSize
  BY <1>1
<1>3. number * PageSize <= MaxPages * PageSize /\ number * PageSize \in Nat /\ MaxPages * PageSize \in Nat
  BY <1>1
<1>4. (number - 1) * PageSize \in Nat
  BY <1>1
<1> QED
  BY <1>1, <1>2, <1>3, <1>4

LEMMA KeepsReads ==
    ASSUME DgcInv, NEW f \in Fetcher, NEW new, Reads(f, new)
    PROVE  DgcInv'
<1>1. fetch \in [Fetcher -> FetchRow] /\ DgcTypeOK
  BY DEF DgcInv, DgcTyped
<1>2. /\ fetch' \in [Fetcher -> FetchRow]
      /\ fetch'[f] = new /\ \A g \in Fetcher \ {f} : fetch'[g] = fetch[g]
  BY <1>1 DEF Reads
<1>3. new.offset \in Nat /\ new.offset \in 0 .. MaxPages * PageSize
  <2>1. new.offset \in Nat
    BY DEF Reads, FetchRow
  <2> QED
    BY <2>1, PagesFit DEF Reads
<1>4. \A g \in Fetcher :
          /\ fetch'[g].phase \in {"idle", "token", "waiting", "locked", "send", "rejected", "returned", "failed"}
          /\ fetch'[g].token \in 0 .. issued
          /\ fetch'[g].pageNumber \in 1 .. MaxPages /\ fetch'[g].offset \in 0 .. MaxPages * PageSize
          /\ Len(fetch'[g].records) <= MaxRecords
  BY <1>1, <1>2, <1>3 DEF Reads, DgcTypeOK
<1>5. DgcTypeOK'
  BY <1>1, <1>4 DEF Reads, DgcTypeOK
<1>6. TokensCounted'
  BY <1>2 DEF Reads, DgcInv, TokensCounted, Usable
<1>7. Placed'
  BY <1>2 DEF Reads, DgcInv, Placed
<1>8. RowsRead'
  <2> SUFFICES ASSUME NEW g \in Fetcher PROVE (Whole(fetch[g]) /\ Ordered(fetch[g]))'
    BY DEF RowsRead
  <2>1. CASE g = f
    <3>1. fetch'[g] = new
      BY <1>2, <2>1
    <3> QED
      BY <3>1 DEF Reads, Whole, Ordered
  <2>2. CASE g # f
    <3>1. fetch'[g] = fetch[g] /\ Whole(fetch[g]) /\ Ordered(fetch[g])
      BY <1>2, <2>2 DEF DgcInv, RowsRead
    <3>2. service' = service /\ (Regular' => Regular) /\ ("change" \notin dgcFaults' => "change" \notin dgcFaults)
      BY DEF Reads, Regular
    <3>3. Whole(fetch[g])'
      BY <3>1, <3>2 DEF Whole, Same
    <3>4. Ordered(fetch[g])'
      BY <3>1, <3>2 DEF Ordered
    <3> QED
      BY <3>3, <3>4
  <2> QED
    BY <2>1, <2>2
<1> QED
  BY <1>2, <1>5, <1>6, <1>7, <1>8 DEF DgcInv, DgcTyped

\* The last page of a regular service is the rest of the table.
LEMMA LastPageIsRest ==
    ASSUME DgcInv, NEW f \in Fetcher, Regular, fetch[f].phase = "send",
           NEW count \in Nat, count = Least(service.rowsPerPage, Remaining(fetch[f].offset)),
           LastPage(f, Rows(fetch[f].offset, count))
    PROVE  count = Remaining(fetch[f].offset)
<1> DEFINE page == Rows(fetch[f].offset, count)
<1>1. /\ fetch[f].offset \in Nat /\ fetch[f].effective \in Nat
      /\ service \in [table : SourceTable, rowsPerPage : 1 .. PageSize, mode : PagingMode, iam : BOOLEAN]
  BY DEF DgcInv, DgcTyped, DgcTypeOK, FetchRow
<1>2. /\ page \in Seq(RowContent) /\ Len(page) = count /\ (page = <<>> => count = 0)
      /\ service.table \in Seq(RowContent)
      /\ Len(service.table) \in Nat /\ service.rowsPerPage \in 1 .. PageSize /\ PageSize \in Nat
  BY <1>1, PageIsRead, TableIsSeq, DgcAssumption DEF Least
<1>3. fetch[f].offset > 0 => fetch[f].effective <= service.rowsPerPage
  BY DEF DgcInv, RowsRead, Whole
<1> HIDE DEF page
<1>4. count = 0 \/ count < service.rowsPerPage
  <2>1. CASE service.mode = "strict"
    BY <1>2, <2>1 DEF LastPage, page
  <2>2. CASE service.mode = "plain"
    BY <1>2, <2>2 DEF LastPage, page, Regular
  <2>3. CASE service.mode \notin {"strict", "plain"}
    BY <1>1, <1>2, <1>3, <2>3 DEF LastPage, page
  <2> QED
    BY <2>1, <2>2, <2>3
<1> QED
  BY <1>1, <1>2, <1>4 DEF Least, Remaining

\* The page that a fetch is about to take up.
PageSent(f, count) ==
    /\ fetch[f].phase = "send" /\ count \in Nat
    /\ count <= Least(service.rowsPerPage, Remaining(fetch[f].offset))
    /\ count = Least(service.rowsPerPage, Remaining(fetch[f].offset)) \/ "short" \in dgcFaults'
    /\ UNCHANGED <<service, token, tokenLock, issued, revoked, expired>>
    /\ dgcFaults \subseteq dgcFaults' /\ dgcFaults' \subseteq DgcFaultKinds

LEMMA OrderKept ==
    ASSUME DgcInv, NEW f \in Fetcher, NEW count, PageSent(f, count), NEW new,
           new.records = fetch[f].records \o Rows(fetch[f].offset, count),
           new.phase # "returned" => fetch[f].offset + count <= new.offset,
           new.phase = "returned" \/ new.offset \in Nat
    PROVE  Ordered(new)'
<1> DEFINE records == fetch[f].records
           offset == fetch[f].offset
           n == Len(records)
<1>1. /\ records \in Seq(RowContent) /\ offset \in Nat /\ n \in Nat /\ count \in Nat
      /\ DOMAIN records = 1 .. n
      /\ service \in [table : SourceTable, rowsPerPage : 1 .. PageSize, mode : PagingMode, iam : BOOLEAN]
  BY DEF DgcInv, DgcTyped, DgcTypeOK, FetchRow, PageSent
<1>2. /\ new.records \in Seq(RowContent) /\ Len(new.records) = n + count
      /\ \A i \in 1 .. n : new.records[i] = records[i]
      /\ \A i \in n + 1 .. n + count : new.records[i] = service.table[offset + (i - n)]
  <2> DEFINE all == records \o Rows(offset, count)
  <2>1. /\ all \in Seq(RowContent) /\ Len(all) = n + count
        /\ \A i \in 1 .. n : all[i] = records[i]
        /\ \A i \in n + 1 .. n + count : all[i] = service.table[offset + (i - n)]
    <3>1. count <= Least(service.rowsPerPage, Remaining(offset))
      BY DEF PageSent
    <3> HIDE DEF records, offset, n
    <3> QED
      BY <1>1, <3>1, PageFollows DEF n
  <2>2. new.records = all
    OBVIOUS
  <2> HIDE DEF all
  <2> QED
    BY <2>1, <2>2
<1>3. /\ service.table \in Seq(RowContent) /\ Len(service.table) \in Nat
      /\ DOMAIN service.table = 1 .. Len(service.table)
      /\ count > 0 => offset + count <= Len(service.table)
  BY <1>1, TableIsSeq, PageIsRead DEF PageSent
<1>4. DOMAIN new.records = 1 .. n + count
  BY <1>2, LenProperties
<1> SUFFICES ASSUME "change" \notin dgcFaults
             PROVE  \E at \in [DOMAIN new.records -> DOMAIN service.table] :
                        \A i \in DOMAIN at : /\ new.records[i] = service.table[at[i]]
                                             /\ new.phase # "returned" => at[i] <= new.offset
                                             /\ \A j \in DOMAIN at : i < j => at[i] < at[j]
  BY DEF Ordered, PageSent
<1>5. PICK at \in [1 .. n -> 1 .. Len(service.table)] :
          \A i \in 1 .. n : /\ records[i] = service.table[at[i]]
                            /\ at[i] <= offset
                            /\ \A j \in 1 .. n : i < j => at[i] < at[j]
  <2>1. Ordered(fetch[f]) /\ fetch[f].phase # "returned"
    BY DEF DgcInv, RowsRead, PageSent
  <2> QED
    BY <1>1, <1>3, <2>1 DEF Ordered
<1> HIDE DEF records, offset, n
<1> DEFINE next == [i \in 1 .. n + count |-> IF i <= n THEN at[i] ELSE offset + (i - n)]
<1>6. \A i \in 1 .. n + count :
          /\ i <= n => i \in 1 .. n /\ next[i] = at[i]
          /\ ~(i <= n) => i \in n + 1 .. n + count /\ next[i] = offset + (i - n) /\ i - n \in 1 .. count
  BY <1>1
<1>7. next \in [1 .. n + count -> 1 .. Len(service.table)]
  <2> SUFFICES ASSUME NEW i \in 1 .. n + count
               PROVE  (IF i <= n THEN at[i] ELSE offset + (i - n)) \in 1 .. Len(service.table)
    OBVIOUS
  <2>1. CASE i <= n
    BY <1>1, <1>5, <2>1
  <2>2. CASE ~(i <= n)
    BY <1>1, <1>3, <2>2
  <2> QED
    BY <2>1, <2>2
<1>8. DOMAIN next = 1 .. n + count
  OBVIOUS
<1> HIDE DEF next
<1>9. ASSUME NEW i \in 1 .. n + count
      PROVE  /\ new.records[i] = service.table[next[i]]
             /\ new.phase # "returned" => next[i] <= new.offset
             /\ \A j \in 1 .. n + count : i < j => next[i] < next[j]
  <2>1. new.records[i] = service.table[next[i]]
    BY <1>2, <1>5, <1>6, ZenonT(30)
  <2>2. next[i] \in Nat /\ next[i] <= offset + count
    <3>1. CASE i <= n
      BY <1>1, <1>3, <1>5, <1>6, <3>1
    <3>2. CASE ~(i <= n)
      BY <1>1, <1>6, <3>2
    <3> QED
      BY <3>1, <3>2
  <2>3. new.phase # "returned" => next[i] <= new.offset
    BY <1>1, <2>2 DEF offset
  <2>4. ASSUME NEW j \in 1 .. n + count, i < j
        PROVE  next[i] < next[j]
    <3>1. CASE j <= n
      <4>1. i \in 1 .. n /\ j \in 1 .. n /\ next[i] = at[i] /\ next[j] = at[j]
        BY <1>1, <1>6, <2>4, <3>1
      <4> QED
        BY <1>5, <2>4, <4>1
    <3>2. CASE i <= n /\ ~(j <= n)
      <4>1. next[i] <= offset /\ next[j] = offset + (j - n) /\ j - n \in 1 .. count
        BY <1>5, <1>6, <3>2
      <4> QED
        BY <1>1, <2>2, <4>1, SMTT(30)
    <3>3. CASE ~(i <= n)
      <4>1. ~(j <= n) /\ next[i] = offset + (i - n) /\ next[j] = offset + (j - n)
        BY <1>1, <1>6, <2>4, <3>3
      <4> QED
        BY <1>1, <2>4, <4>1
    <3> QED
      BY <3>1, <3>2, <3>3
  <2> QED
    BY <2>1, <2>3, <2>4
<1> QED
  BY <1>3, <1>4, <1>7, <1>8, <1>9

LEMMA WholeKept ==
    ASSUME DgcInv, NEW f \in Fetcher, NEW count, PageSent(f, count), NEW new,
           new.records = fetch[f].records \o Rows(fetch[f].offset, count),
           \/ new.phase = "returned" /\ LastPage(f, Rows(fetch[f].offset, count))
              /\ new.offset = fetch[f].offset /\ new.effective = fetch[f].effective
           \/ new.phase # "returned" /\ ~LastPage(f, Rows(fetch[f].offset, count))
              /\ new.offset = NextOffset(f, Rows(fetch[f].offset, count))
              /\ new.effective = Least(fetch[f].effective, Len(Rows(fetch[f].offset, count)))
    PROVE  Whole(new)'
<1> DEFINE records == fetch[f].records
           offset == fetch[f].offset
           n == Len(records)
           page == Rows(offset, count)
<1>1. /\ records \in Seq(RowContent) /\ offset \in Nat /\ n \in Nat /\ count \in Nat
      /\ fetch[f].effective \in Nat
      /\ service \in [table : SourceTable, rowsPerPage : 1 .. PageSize, mode : PagingMode, iam : BOOLEAN]
  BY DEF DgcInv, DgcTyped, DgcTypeOK, FetchRow, PageSent
<1>2. /\ Len(new.records) = n + count
      /\ \A i \in 1 .. n : new.records[i] = records[i]
      /\ \A i \in n + 1 .. n + count : new.records[i] = service.table[offset + (i - n)]
  <2> DEFINE all == records \o Rows(offset, count)
  <2>1. /\ all \in Seq(RowContent) /\ Len(all) = n + count
        /\ \A i \in 1 .. n : all[i] = records[i]
        /\ \A i \in n + 1 .. n + count : all[i] = service.table[offset + (i - n)]
    <3>1. count <= Least(service.rowsPerPage, Remaining(offset))
      BY DEF PageSent
    <3> HIDE DEF records, offset, n
    <3> QED
      BY <1>1, <3>1, PageFollows DEF n
  <2>2. new.records = all
    OBVIOUS
  <2> HIDE DEF all
  <2> QED
    BY <2>1, <2>2
<1>3. /\ page \in Seq(RowContent) /\ Len(page) = count
      /\ count <= service.rowsPerPage /\ count <= PageSize
      /\ count > 0 => offset + count <= Len(service.table)
  BY <1>1, PageIsRead DEF PageSent
<1>4. service.table \in Seq(RowContent) /\ Len(service.table) \in Nat /\ PageSize \in Nat \ {0}
      /\ service.rowsPerPage \in 1 .. PageSize /\ service.mode \in PagingMode
  BY <1>1, TableIsSeq, DgcAssumption
<1> SUFFICES ASSUME Regular'
             PROVE  /\ Same(new.records, service.table,
                            IF new.phase = "returned" THEN Len(service.table)
                            ELSE Least(new.offset, Len(service.table)))
                    /\ new.offset > 0 => new.effective <= service.rowsPerPage
  BY DEF Whole, PageSent
<1>5. Regular /\ count = Least(service.rowsPerPage, Remaining(offset))
  BY DEF Regular, PageSent
<1>6. /\ n = Least(offset, Len(service.table)) /\ \A i \in 1 .. n : records[i] = service.table[i]
      /\ offset > 0 => fetch[f].effective <= service.rowsPerPage
  BY <1>5 DEF DgcInv, RowsRead, Whole, Same, PageSent
<1>7. \A i \in 1 .. n + count : new.records[i] = service.table[i]
  <2> SUFFICES ASSUME NEW i \in 1 .. n + count PROVE new.records[i] = service.table[i]
    OBVIOUS
  <2>1. CASE i <= n
    <3>1. i \in 1 .. n
      BY <1>1, <2>1
    <3> QED
      BY <1>2, <1>6, <3>1
  <2>2. CASE ~(i <= n)
    <3>1. count > 0 /\ i \in n + 1 .. n + count
      BY <1>1, <2>2
    <3>2. n = offset
      BY <1>1, <1>3, <1>4, <1>6, <3>1 DEF Least
    <3>3. offset + (i - n) = i
      BY <1>1, <3>2
    <3> QED
      BY <1>2, <3>1, <3>3
  <2> QED
    BY <2>1, <2>2
<1>8. CASE new.phase = "returned"
  <2>1. count = Remaining(offset)
    BY <1>1, <1>5, <1>8, LastPageIsRest DEF PageSent
  <2>2. n + count = Len(service.table)
    BY <1>1, <1>4, <1>6, <2>1 DEF Least, Remaining
  <2> QED
    BY <1>2, <1>6, <1>7, <1>8, <2>2 DEF Same
<1>9. CASE new.phase # "returned"
  <2>1. ~LastPage(f, page) /\ new.offset = NextOffset(f, page) /\ new.effective = Least(fetch[f].effective, count)
    BY <1>3, <1>9
  <2>2. page = <<>> <=> count = 0
    BY <1>3
  <2> HIDE DEF page
  <2>3. n + count = Least(new.offset, Len(service.table))
    <3>1. CASE service.mode = "strict"
      <4>1. count > 0 /\ service.rowsPerPage = PageSize /\ new.offset = offset + PageSize
        BY <1>1, <1>5, <2>1, <2>2, <3>1 DEF LastPage, NextOffset, Regular
      <4>2. n = offset
        BY <1>1, <1>3, <1>4, <1>6, <4>1 DEF Least
      <4>3. count = Least(PageSize, Len(service.table) - offset)
        <5>1. Remaining(offset) = Len(service.table) - offset
          BY <1>1, <1>3, <1>4, <4>1 DEF Remaining
        <5> QED
          BY <1>5, <4>1, <5>1
      <4> QED
        BY <1>1, <4>1, <4>2, <4>3 DEF Least
    <3>2. CASE service.mode = "plain"
      <4>1. count = PageSize /\ new.offset = offset + PageSize
        BY <1>1, <1>3, <1>4, <2>1, <3>2 DEF LastPage, NextOffset
      <4> QED
        BY <1>1, <1>3, <1>4, <1>6, <4>1 DEF Least
    <3>3. CASE service.mode = "rowSize"
      <4>1. count > 0 /\ new.offset = offset + count
        BY <1>1, <1>3, <2>1, <2>2, <3>3 DEF LastPage, NextOffset
      <4> QED
        BY <1>1, <1>3, <1>4, <1>6, <4>1 DEF Least
    <3> QED
      BY <1>4, <3>1, <3>2, <3>3 DEF PagingMode
  <2>4. new.effective <= service.rowsPerPage
    BY <1>1, <1>3, <1>4, <2>1 DEF Least
  <2> QED
    BY <1>2, <1>7, <1>9, <2>3, <2>4 DEF Same
<1> QED
  BY <1>8, <1>9

LEMMA KeepsReceive ==
    ASSUME DgcInv, NEW f \in Fetcher, NEW count, PageSent(f, count),
           Receive(f, Rows(fetch[f].offset, count))
    PROVE  DgcInv'
<1> DEFINE row == fetch[f]
           page == Rows(row.offset, count)
           records == row.records \o page
           returned == [row EXCEPT !.phase = "returned", !.records = records]
           next == [phase |-> TokenPhase, attempt |-> 1, token |-> row.token,
                    offset |-> NextOffset(f, page), pageNumber |-> row.pageNumber + 1,
                    pages |-> row.pages \cup (IF page = <<>> THEN {} ELSE {page}),
                    effective |-> Least(row.effective, Len(page)), records |-> records]
<1>1. /\ fetch \in [Fetcher -> FetchRow] /\ row \in FetchRow /\ DgcTypeOK
      /\ row.phase = "send" /\ row.records \in Seq(RowContent) /\ row.offset \in Nat
      /\ row.pageNumber \in 1 .. MaxPages /\ row.token \in 0 .. issued /\ row.token \in Nat
      /\ row.effective \in 0 .. PageSize /\ row.pages \in SUBSET Seq(RowContent)
      /\ count \in Nat /\ PageSize \in Nat \ {0} /\ MaxPages \in Nat \ {0} /\ MaxRecords \in Nat
      /\ service \in [table : SourceTable, rowsPerPage : 1 .. PageSize, mode : PagingMode, iam : BOOLEAN]
      /\ row.offset <= (row.pageNumber - 1) * PageSize
  BY DgcAssumption DEF DgcInv, DgcTyped, DgcTypeOK, FetchRow, PageSent, Placed
<1>2. count <= Least(service.rowsPerPage, Remaining(row.offset))
  BY DEF PageSent
<1>3. page \in Seq(RowContent) /\ Len(page) = count /\ count <= PageSize
  BY <1>1, <1>2, PageIsRead
<1>4. /\ records \in Seq(RowContent) /\ Len(records) = Len(row.records) + count
      /\ Len(row.records) \in Nat
  <2>1. records \in Seq(RowContent) /\ Len(records) = Len(row.records) + count
    BY <1>1, <1>2, PageFollows
  <2>2. Len(row.records) \in Nat
    BY <1>1, LenProperties
  <2> QED
    BY <2>1, <2>2
<1>5. /\ UNCHANGED <<service, token, tokenLock, issued, revoked, expired>>
      /\ dgcFaults \subseteq dgcFaults' /\ dgcFaults' \subseteq DgcFaultKinds
  BY DEF PageSent
<1>6. CASE GoTo(f, "failed")
  <2>1. /\ token \in [number : {0, issued}, fresh : BOOLEAN] /\ issued \in Nat
        /\ issued <= Cardinality(revoked) + expired
                         + (IF token.number # 0 /\ token.fresh /\ issued \notin revoked THEN 1 ELSE 0)
    BY <1>1 DEF DgcInv, TokensCounted, Usable, DgcTypeOK
  <2>2. /\ fetch' = [fetch EXCEPT ![f] = [row EXCEPT !.phase = "failed"]]
        /\ [row EXCEPT !.phase = "failed"] \in FetchRow
    BY <1>1, <1>6, RowEdited DEF GoTo, Phases
  <2>3. Moves(f, "failed", 0, [row EXCEPT !.phase = "failed"])
    BY <1>1, <1>5, <2>1, <2>2, SMTT(30) DEF Moves, Phases, DgcTypeOK
  <2> QED
    BY <2>3, KeepsMove
<1>7. CASE /\ LastPage(f, page) /\ ~TooMany(f, page)
           /\ fetch' = [fetch EXCEPT ![f].phase = "returned", ![f].records = records]
  <2> HIDE DEF records, page
  <2>1. returned \in FetchRow
    BY <1>1, <1>4 DEF FetchRow
  <2>2. /\ returned.phase = "returned" /\ returned.records = records /\ returned.offset = row.offset
        /\ returned.effective = row.effective /\ returned.token = row.token
        /\ returned.pageNumber = row.pageNumber
    BY <1>1 DEF FetchRow
  <2>3. fetch' = [fetch EXCEPT ![f] = returned]
    BY <1>7
  <2> HIDE DEF returned
  <2> PICK new : new = returned
    OBVIOUS
  <2>4. Len(new.records) <= MaxRecords
    <3>1. ~(Len(row.records) + Len(page) > MaxRecords)
      BY <1>7 DEF TooMany
    <3> QED
      BY <1>1, <1>3, <1>4, <2>2, <3>1
  <2>5. Whole(new)'
    BY <1>7, <2>2, WholeKept DEF records, page
  <2>6. Ordered(new)'
    BY <2>2, OrderKept DEF records, page
  <2>7. Reads(f, new)
    BY <1>1, <1>5, <2>1, <2>2, <2>3, <2>4, <2>5, <2>6 DEF Reads
  <2> QED
    BY <2>7, KeepsReads
<1>8. CASE /\ ~LastPage(f, page) /\ ~TooMany(f, page) /\ row.pageNumber # MaxPages
           /\ fetch' = [fetch EXCEPT ![f] = next]
  <2> HIDE DEF records, page
  <2>1. /\ TokenPhase \in {"token", "send"}
        /\ NextOffset(f, page) \in Nat /\ row.offset + count <= NextOffset(f, page)
        /\ NextOffset(f, page) <= row.offset + PageSize
    BY <1>1, <1>3 DEF TokenPhase, NextOffset
  <2>2. /\ row.pageNumber + 1 \in 1 .. MaxPages /\ row.pageNumber + 1 \in 1 .. MaxPages + 1
        /\ Least(row.effective, Len(page)) \in 0 .. PageSize
        /\ row.pages \cup (IF page = <<>> THEN {} ELSE {page}) \in SUBSET Seq(RowContent)
    BY <1>1, <1>3, <1>8, SMTT(20) DEF Least
  <2>3. next \in FetchRow
    BY <1>1, <1>4, <2>1, <2>2 DEF FetchRow
  <2>4. /\ next.phase \in {"token", "send"} /\ next.records = records /\ next.offset = NextOffset(f, page)
        /\ next.effective = Least(row.effective, Len(page)) /\ next.token = row.token
        /\ next.pageNumber = row.pageNumber + 1
    BY <2>1
  <2>5. next.offset <= (next.pageNumber - 1) * PageSize
    <3>1. (row.pageNumber - 1) * PageSize + PageSize = row.pageNumber * PageSize
      BY <1>1, PagesFit
    <3>2. (row.pageNumber - 1) * PageSize \in Nat /\ next.pageNumber - 1 = row.pageNumber
      BY <1>1, <2>4, SMTT(20)
    <3> DEFINE before == (row.pageNumber - 1) * PageSize
               after == row.pageNumber * PageSize
    <3>3. before \in Nat /\ before + PageSize = after /\ row.offset <= before
      BY <1>1, <3>1, <3>2
    <3> HIDE DEF before, after, next
    <3>4. next.offset <= after
      BY <1>1, <2>1, <2>4, <3>3
    <3> QED
      BY <3>2, <3>4 DEF after
  <2> HIDE DEF next
  <2> PICK new : new = next
    OBVIOUS
  <2>6. Len(new.records) <= MaxRecords
    <3>1. ~(Len(row.records) + Len(page) > MaxRecords)
      BY <1>8 DEF TooMany
    <3> QED
      BY <1>1, <1>3, <1>4, <2>4, <3>1, SMTT(20)
  <2>7. Whole(new)'
    BY <1>8, <2>4, WholeKept DEF records, page
  <2>8. Ordered(new)'
    BY <2>1, <2>4, OrderKept DEF records, page
  <2>9. Reads(f, new)
    BY <1>1, <1>5, <1>8, <2>2, <2>3, <2>4, <2>5, <2>6, <2>7, <2>8 DEF Reads
  <2> QED
    BY <2>9, KeepsReads
<1> QED
  BY <1>6, <1>7, <1>8 DEF Receive

LEMMA KeepsRequestPage ==
    ASSUME DgcInv, NEW f \in Fetcher, RequestPage(f)
    PROVE  DgcInv'
<1> DEFINE full == Least(service.rowsPerPage, Remaining(fetch[f].offset))
           to(phase) == [fetch[f] EXCEPT !.phase = phase]
<1>1. /\ fetch[f].phase = "send" /\ fetch \in [Fetcher -> FetchRow] /\ fetch[f] \in FetchRow
      /\ fetch[f].offset \in Nat /\ DgcTypeOK /\ dgcFaults \subseteq DgcFaultKinds
      /\ UNCHANGED <<service, token, tokenLock, issued, revoked, expired>>
  BY DEF RequestPage, DgcInv, DgcTyped, DgcTypeOK, FetchRow
<1>2. full \in Nat
  <2>1. service.table \in Seq(RowContent) /\ service.rowsPerPage \in Nat
    BY <1>1, TableIsSeq, DgcAssumption DEF DgcTypeOK
  <2> QED
    BY <1>1, <2>1 DEF Least, Remaining
<1>3. ASSUME NEW phase \in {"rejected", "failed"}, GoTo(f, phase),
             phase = "rejected" => fetch[f].token \in revoked,
             dgcFaults \subseteq dgcFaults', dgcFaults' \subseteq DgcFaultKinds
      PROVE  DgcInv'
  <2>1. /\ token \in [number : {0, issued}, fresh : BOOLEAN] /\ issued \in Nat
        /\ issued <= Cardinality(revoked) + expired
                         + (IF token.number # 0 /\ token.fresh /\ issued \notin revoked THEN 1 ELSE 0)
    BY <1>1 DEF DgcInv, TokensCounted, Usable, DgcTypeOK
  <2>2. /\ fetch' = [fetch EXCEPT ![f] = to(phase)] /\ to(phase) \in FetchRow
        /\ to(phase).token = fetch[f].token
    <3>1. fetch' = [fetch EXCEPT ![f] = to(phase)] /\ to(phase) \in FetchRow
      BY <1>1, <1>3, RowEdited DEF GoTo, Phases
    <3>2. to(phase).token = fetch[f].token
      BY <1>1 DEF FetchRow
    <3> QED
      BY <3>1, <3>2
  <2>3. Moves(f, phase, 0, to(phase))
    BY <1>1, <1>3, <2>1, <2>2 DEF Moves, Phases, DgcTypeOK
  <2> QED
    BY <2>3, KeepsMove
<1>4. CASE Receive(f, Rows(fetch[f].offset, full)) /\ UNCHANGED dgcFaults
  <2>1. PageSent(f, full)
    BY <1>1, <1>2, <1>4 DEF PageSent
  <2> QED
    BY <1>4, <2>1, KeepsReceive
<1>5. CASE full > 1 /\ DgcFault("short") /\ Receive(f, Rows(fetch[f].offset, full - 1))
  <2> HIDE DEF full
  <2>1. full - 1 \in Nat /\ full - 1 <= full
    BY <1>2, <1>5
  <2>2. "short" \in dgcFaults' /\ dgcFaults \subseteq dgcFaults' /\ dgcFaults' \subseteq DgcFaultKinds
    BY <1>1, <1>5, DgcAssumption DEF DgcFault
  <2>3. PageSent(f, full - 1)
    BY <1>1, <2>1, <2>2 DEF PageSent, full
  <2> QED
    BY <1>5, <2>3, KeepsReceive
<1>6. CASE DgcFault("error") /\ GoTo(f, "failed")
  <2>1. dgcFaults \subseteq dgcFaults' /\ dgcFaults' \subseteq DgcFaultKinds
    BY <1>1, <1>6, DgcAssumption DEF DgcFault
  <2> QED
    BY <1>3, <1>6, <2>1
<1>7. CASE /\ service.iam /\ fetch[f].token \in revoked
           /\ GoTo(f, IF fetch[f].attempt = 1 THEN "rejected" ELSE "failed") /\ UNCHANGED dgcFaults
  BY <1>1, <1>3, <1>7
<1> QED
  BY <1>4, <1>5, <1>6, <1>7 DEF RequestPage

\* A table that changes ends what is promised of the rows.
LEMMA KeepsTableChanges ==
    ASSUME DgcInv, TableChanges
    PROVE  DgcInv'
<1>1. /\ "change" \in dgcFaults' /\ dgcFaults' \subseteq DgcFaultKinds
      /\ UNCHANGED <<token, tokenLock, issued, revoked, expired, fetch>>
  BY DgcAssumption DEF TableChanges, DgcFault, DgcInv, DgcTyped, DgcTypeOK
<1>2. service' \in [table : SourceTable, rowsPerPage : 1 .. PageSize, mode : PagingMode, iam : BOOLEAN]
  BY DEF TableChanges, DgcInv, DgcTyped, DgcTypeOK
<1>3. DgcTypeOK' /\ fetch' \in [Fetcher -> FetchRow]
  BY <1>1, <1>2 DEF DgcInv, DgcTyped, DgcTypeOK
<1>4. Placed' /\ TokensCounted'
  BY <1>1 DEF DgcInv, Placed, TokensCounted, Usable
<1>5. RowsRead'
  BY <1>1 DEF RowsRead, Whole, Ordered, Regular
<1> QED
  BY <1>3, <1>4, <1>5 DEF DgcInv, DgcTyped

LEMMA KeepsRevokeToken ==
    ASSUME DgcInv, RevokeToken
    PROVE  DgcInv'
<1>1. /\ UNCHANGED <<service, token, tokenLock, issued, expired, fetch, dgcFaults>>
      /\ revoked' = revoked \cup {issued} /\ issued \notin revoked /\ issued # 0
  BY DEF RevokeToken
<1>2. IsFiniteSet(revoked) /\ Cardinality(revoked) \in Nat
  BY RevokedCounted DEF DgcInv, DgcTyped
<1>3. Cardinality(revoked') = Cardinality(revoked) + 1
  BY <1>1, <1>2, FS_AddElement
<1>4. DgcTypeOK' /\ fetch' \in [Fetcher -> FetchRow]
  <2>1. revoked' \subseteq 1 .. issued
    BY <1>1 DEF DgcInv, DgcTyped, DgcTypeOK
  <2> QED
    BY <1>1, <2>1 DEF DgcInv, DgcTyped, DgcTypeOK
<1>5. TokensCounted'
  <2>1. issued \in Nat /\ expired \in Nat
    BY DEF DgcInv, DgcTyped, DgcTypeOK
  <2>2. issued' <= Cardinality(revoked') + expired' + 0
    BY <1>1, <1>2, <1>3, <2>1 DEF DgcInv, TokensCounted
  <2>3. issued' \in revoked'
    BY <1>1
  <2> QED
    BY <1>1, <2>2, <2>3 DEF DgcInv, TokensCounted
<1>6. Placed' /\ RowsRead'
  BY <1>1, RowsStay DEF DgcInv
<1> QED
  BY <1>4, <1>5, <1>6 DEF DgcInv, DgcTyped

LEMMA KeepsTokenExpires ==
    ASSUME DgcInv, TokenExpires
    PROVE  DgcInv'
<1>1. /\ UNCHANGED <<service, tokenLock, issued, revoked, fetch, dgcFaults>>
      /\ expired' = expired + 1 /\ token' = [token EXCEPT !.fresh = FALSE]
  BY DEF TokenExpires
<1>2. /\ token \in [number : 0 .. issued, fresh : BOOLEAN] /\ expired \in Nat /\ issued \in Nat
      /\ Cardinality(revoked) \in Nat
  BY RevokedCounted DEF DgcInv, DgcTyped, DgcTypeOK
<1>3. token'.number = token.number /\ token'.fresh = FALSE /\ token' \in [number : 0 .. issued, fresh : BOOLEAN]
  BY <1>1, <1>2
<1>4. DgcTypeOK' /\ fetch' \in [Fetcher -> FetchRow]
  BY <1>1, <1>2, <1>3 DEF DgcInv, DgcTyped, DgcTypeOK
<1>5. TokensCounted'
  <2>1. issued <= Cardinality(revoked) + expired'
    BY <1>1, <1>2 DEF DgcInv, TokensCounted
  <2> QED
    BY <1>1, <1>2, <1>3, <2>1 DEF DgcInv, TokensCounted, Usable
<1>6. Placed' /\ RowsRead'
  BY <1>1, RowsStay DEF DgcInv
<1> QED
  BY <1>4, <1>5, <1>6 DEF DgcInv, DgcTyped

LEMMA DgcInductive ==
    ASSUME DgcInv, [DgcNext]_dgcVars
    PROVE  DgcInv'
<1>1. ASSUME NEW f \in Fetcher, DgcStep(f)
      PROVE  DgcInv'
  BY <1>1, KeepsTokenStep, KeepsRequestPage DEF DgcStep
<1>2. CASE UNCHANGED dgcVars
  BY <1>2
  DEF dgcVars, DgcInv, DgcTyped, DgcTypeOK, Placed, TokensCounted, Usable, RowsRead, Whole, Same, Ordered,
      Regular
<1> QED
  BY <1>1, <1>2, KeepsTableChanges, KeepsRevokeToken, KeepsTokenExpires DEF DgcNext

LEMMA DgcPromise == DgcInv => DgcSound
<1> SUFFICES ASSUME DgcInv PROVE DgcSound
  OBVIOUS
<1>1. DgcTypeOK /\ fetch \in [Fetcher -> FetchRow]
  BY DEF DgcInv, DgcTyped
<1>2. FetchIsComplete
  <2> SUFFICES ASSUME NEW f \in Fetcher, fetch[f].phase = "returned", Regular
               PROVE  fetch[f].records = service.table
    BY DEF FetchIsComplete
  <2>1. fetch[f].records \in Seq(RowContent) /\ service.table \in Seq(RowContent)
    BY <1>1, TableIsSeq DEF FetchRow, DgcTypeOK
  <2>2. /\ Len(fetch[f].records) = Len(service.table)
        /\ \A i \in 1 .. Len(fetch[f].records) : fetch[f].records[i] = service.table[i]
    BY DEF DgcInv, RowsRead, Whole, Same
  <2> QED
    BY <2>1, <2>2, SeqEqual
<1>3. NoRowTwice
  <2> SUFFICES ASSUME NEW f \in Fetcher, "change" \notin dgcFaults
               PROVE  \E at \in [DOMAIN fetch[f].records -> DOMAIN service.table] :
                          \A i \in DOMAIN at : /\ fetch[f].records[i] = service.table[at[i]]
                                               /\ \A j \in DOMAIN at : i < j => at[i] < at[j]
    BY DEF NoRowTwice
  <2>1. PICK at \in [DOMAIN fetch[f].records -> DOMAIN service.table] :
            \A i \in DOMAIN at : /\ fetch[f].records[i] = service.table[at[i]]
                                 /\ \A j \in DOMAIN at : i < j => at[i] < at[j]
    BY DEF DgcInv, RowsRead, Ordered
  <2> QED
    BY <2>1
<1>4. RenewedWithCause
  <2>1. issued \in Nat /\ expired \in Nat /\ Cardinality(revoked) \in Nat
    BY <1>1, RevokedCounted DEF DgcTypeOK
  <2> QED
    BY <2>1 DEF DgcInv, TokensCounted, RenewedWithCause
<1> QED
  BY <1>1, <1>2, <1>3, <1>4 DEF DgcSound

\* What the client promises (dgc_sap_profit.py): a fetch returns the whole table
\* or an error if the service pages as it says, rows of it in their order and
\* none twice if it does not, and the threads renew a token once for each that
\* was revoked or has expired.
THEOREM DgcReadsAreSound == DgcSpec => []DgcSound
<1> QED
  BY DgcInitially, DgcInductive, DgcPromise, PTL DEF DgcSpec

-----------------------------------------------------------------------------
(* Business entertainment.  Whatever attempts do, what is persisted is what *)
(* follows from the books: nothing, or all of it.  So attempts that overlap *)
(* agree on what is evaluated, and may only differ on the labels.           *)

\* A finite set that is ordered has a first: of those that had none a smallest
\* would lose one element and still have none.
LEMMA FiniteHasFirst ==
    ASSUME NEW S, IsFiniteSet(S), S # {}, NEW R,
           \A x, y \in S : <<x, y>> \in R \/ <<y, x>> \in R,
           \A x, y, z \in S : <<x, y>> \in R /\ <<y, z>> \in R => <<x, z>> \in R
    PROVE  \E x \in S : \A y \in S : <<x, y>> \in R
<1> DEFINE First(T) == \E x \in T : \A y \in T : <<x, y>> \in R
           Unordered == {T \in SUBSET S : T # {} /\ ~First(T)}
<1> SUFFICES ASSUME ~First(S) PROVE FALSE
    OBVIOUS
<1>1. PICK T \in Unordered : \A U \in Unordered : ~(<<U, T>> \in StrictSubsetOrdering(S))
  <2>1. Unordered # {} /\ Unordered \subseteq SUBSET S
      OBVIOUS
  <2>2. IsWellFoundedOn(StrictSubsetOrdering(S), SUBSET S)
    <3>1. IsWellFoundedOn(StrictSubsetOrdering(S), FiniteSubsetsOf(S))
        BY ONLY FS_StrictSubsetOrderingWellFounded
    <3>2. FiniteSubsetsOf(S) = SUBSET S
        BY ONLY FS_FiniteSubsetsOfFinite, IsFiniteSet(S)
    <3> QED BY ONLY <3>1, <3>2
  <2> HIDE DEF Unordered
  <2> QED BY <2>1, <2>2, WFMin
<1>2. T \in SUBSET S /\ T # {} /\ ~First(T)
    OBVIOUS
<1>3. PICK x \in T : TRUE
    BY <1>2
<1>4. T \ {x} = {} \/ First(T \ {x})
  <2>1. <<T \ {x}, T>> \in StrictSubsetOrdering(S)
      BY <1>2 DEF StrictSubsetOrdering
  <2> QED BY <1>1, <1>2, <2>1
<1>5. CASE T \ {x} = {}
  <2>1. \A y \in T : <<x, y>> \in R
      BY <1>2, <1>5
  <2> QED BY <1>2, <2>1
<1>6. CASE First(T \ {x})
  <2>1. PICK y \in T \ {x} : \A z \in T \ {x} : <<y, z>> \in R
      BY <1>6
  <2>2. CASE <<y, x>> \in R
    <3>1. \A z \in T : <<y, z>> \in R
        BY <2>1, <2>2
    <3> QED BY <1>2, <3>1
  <2>3. CASE <<x, y>> \in R
    <3>1. \A z \in T : <<x, z>> \in R
        BY <1>2, <2>1, <2>3
    <3> QED BY <1>2, <3>1
  <2> QED BY <1>2, <2>1, <2>2, <2>3
<1> QED BY <1>4, <1>5, <1>6

Every == EvaluationsOf(books, ExactLinks(books))

AllPersisted ==
    /\ links = ExactLinks(books) /\ Buildable(books, links)
    /\ evaluations = Every /\ coverages = CoveragesOf(books, links)

AttemptState ==
    [pc : Ended \cup {"ready", "link", "persist", "evaluate", "route"}, tries : 0 .. MaxTaskRetries,
     items : SUBSET Every, judged : UNION {[S -> books.labels] : S \in SUBSET Every}, routed : SUBSET Every]

\* What an attempt knows of the books, and has done.
Informed(a) ==
    /\ attempts[a].pc \in {"persist", "evaluate", "route", "SUCCEEDED"} =>
           attempts[a].items = Every /\ links = ExactLinks(books) /\ Buildable(books, links)
    /\ attempts[a].pc \in {"evaluate", "route", "SUCCEEDED"} => AllPersisted
    /\ attempts[a].pc \in {"route", "SUCCEEDED"} =>
           /\ DOMAIN attempts[a].judged = Every
           /\ \A e \in attempts[a].routed : e \in DOMAIN detections /\ detections[e] = attempts[a].judged[e]
    /\ attempts[a].pc \in {"ready", "link", "persist", "evaluate"} => attempts[a].routed = {}
    /\ attempts[a].pc = "SUCCEEDED" => attempts[a].routed = Every

EntertainmentInv ==
    /\ books \in Books /\ attempts \in [Attempt -> AttemptState]
    /\ links \in {{}, ExactLinks(books)}
    /\ AllPersisted \/ (evaluations = {} /\ coverages = {})
    /\ DOMAIN detections \subseteq evaluations
    /\ \A a \in Attempt : Informed(a)

-----------------------------------------------------------------------------
(* What the books say.                                                     *)

Heirs(b, p) == {h \in b.papers : h.oa # NoRef /\ StandsFor(b, h, p)}

LEMMA CanonicalIsHeir ==
    ASSUME NEW b \in Books, NEW p
    PROVE  IF Heirs(b, p) = {} THEN Canonical(b, p) = p ELSE Canonical(b, p) \in Heirs(b, p)
<1> DEFINE heirs == Heirs(b, p)
           R == {r \in heirs \X heirs : r[2].number <= r[1].number}
<1>1. heirs \in SUBSET b.papers /\ IsFiniteSet(b.papers) /\ \A h \in heirs : h.number \in Nat
    BY EntertainmentAssumption DEF Heirs
<1>2. IsFiniteSet(heirs)
    BY <1>1, FS_Subset
<1>3. /\ \A x, y \in heirs : <<x, y>> \in R <=> y.number <= x.number
      /\ \A x, y \in heirs : <<x, y>> \in R \/ <<y, x>> \in R
      /\ \A x, y, z \in heirs : <<x, y>> \in R /\ <<y, z>> \in R => <<x, z>> \in R
    BY <1>1
<1>4. ASSUME heirs # {} PROVE \E h \in heirs : \A o \in heirs : o.number <= h.number
  <2> HIDE DEF heirs, R
  <2>1. \E h \in heirs : \A o \in heirs : <<h, o>> \in R
      BY <1>2, <1>3, <1>4, FiniteHasFirst
  <2> QED BY <1>3, <2>1
<1>5. Canonical(b, p) = IF heirs = {} THEN p ELSE CHOOSE h \in heirs : \A o \in heirs : o.number <= h.number
    BY DEF Canonical, Heirs
<1> HIDE DEF heirs
<1> QED BY <1>4, <1>5 DEF heirs

LEMMA LinksAre ==
    ASSUME NEW b, NEW l
    PROVE  /\ l \in HesiLinks(b) <=> \E h, oa \in b.papers :
                   h.oa # NoRef /\ StandsFor(b, h, oa) /\ l = Link("HESI_TO_OA", h.number, oa.number)
           /\ l \in ChildLinks(b) <=> \E c, p \in b.papers :
                   c.kind = "child" /\ Parents(b, c) = {p} /\ l = Link("CHILD_TO_PARENT", c.number, p.number)
           /\ l \in VoucherLinks(b) <=> \E v \in b.vouchers, p \in b.papers :
                   Claimants(b, v) = {p} /\ l = Link("BUSINESS_TO_SAP", p.number, v.number)
<1>1. l \in HesiLinks(b) <=> \E h, oa \in b.papers :
          h.oa # NoRef /\ StandsFor(b, h, oa) /\ l = Link("HESI_TO_OA", h.number, oa.number)
    BY DEF HesiLinks
<1>2. l \in ChildLinks(b) <=> \E c, p \in b.papers :
          c.kind = "child" /\ Parents(b, c) = {p} /\ l = Link("CHILD_TO_PARENT", c.number, p.number)
    BY DEF ChildLinks
<1>3. l \in VoucherLinks(b) <=> \E v \in b.vouchers, p \in b.papers :
          Claimants(b, v) = {p} /\ l = Link("BUSINESS_TO_SAP", p.number, v.number)
    BY DEF VoucherLinks
<1> QED BY <1>1, <1>2, <1>3

LEMMA LinkKinds ==
    ASSUME NEW b, NEW l \in ExactLinks(b)
    PROVE  /\ l.kind \in {"HESI_TO_OA", "CHILD_TO_PARENT", "BUSINESS_TO_SAP"}
           /\ l.kind = "HESI_TO_OA" => l \in HesiLinks(b)
           /\ l.kind = "BUSINESS_TO_SAP" => l \in VoucherLinks(b)
BY LinksAre DEF ExactLinks, Link

LEMMA SuppressedByHeir ==
    ASSUME NEW b \in Books, NEW p \in b.papers
    PROVE  Suppressed(ExactLinks(b), p) <=> Heirs(b, p) # {}
<1>1. ASSUME Suppressed(ExactLinks(b), p) PROVE Heirs(b, p) # {}
  <2>1. PICK l \in ExactLinks(b) : l.kind = "HESI_TO_OA" /\ l.target = p.number
      BY <1>1 DEF Suppressed
  <2>2. PICK h \in b.papers, oa \in b.papers :
            h.oa # NoRef /\ StandsFor(b, h, oa) /\ l = Link("HESI_TO_OA", h.number, oa.number)
      BY <2>1, LinkKinds, LinksAre
  <2>3. oa = p
      BY <2>1, <2>2, EntertainmentAssumption DEF Link
  <2> QED BY <2>2, <2>3 DEF Heirs
<1>2. ASSUME NEW h \in Heirs(b, p) PROVE Suppressed(ExactLinks(b), p)
  <2>1. Link("HESI_TO_OA", h.number, p.number) \in ExactLinks(b)
      BY <1>2, LinksAre DEF ExactLinks, Heirs
  <2> QED BY <2>1 DEF Suppressed, Link
<1> QED BY <1>1, <1>2

\* Whoever stands for a document is a Hesi, which nobody stands for.
LEMMA HeirsAreHesi ==
    ASSUME NEW b, NEW p, NEW h \in Heirs(b, p)
    PROVE  h \in b.papers /\ h.kind = "hesi" /\ p.kind = "oa" /\ NamedOa(b, h) = {p} /\ Heirs(b, h) = {}
<1>1. h \in b.papers /\ h.kind = "hesi" /\ NamedOa(b, h) = {p}
    BY DEF Heirs, StandsFor
<1>2. p.kind = "oa"
    BY <1>1 DEF NamedOa
<1>3. \A g : g \in Heirs(b, h) => h \in NamedOa(b, g)
    BY DEF Heirs, StandsFor
<1> QED BY <1>1, <1>2, <1>3 DEF NamedOa

LEMMA VouchersOfPaper ==
    ASSUME NEW b \in Books, NEW p \in b.papers
    PROVE  Vouchers(ExactLinks(b), p) = {v.number : v \in {w \in b.vouchers : Claimants(b, w) = {p}}}
<1>1. ASSUME NEW n \in Vouchers(ExactLinks(b), p)
      PROVE  \E v \in b.vouchers : Claimants(b, v) = {p} /\ n = v.number
  <2>1. PICK l \in ExactLinks(b) : l.kind = "BUSINESS_TO_SAP" /\ l.source = p.number /\ n = l.target
      BY DEF Vouchers
  <2>2. PICK v \in b.vouchers, q \in b.papers :
            Claimants(b, v) = {q} /\ l = Link("BUSINESS_TO_SAP", q.number, v.number)
    <3>1. l \in VoucherLinks(b)
        BY <2>1, LinkKinds
    <3> QED BY <3>1, LinksAre
  <2>3. q = p
      BY <2>1, <2>2, EntertainmentAssumption DEF Link
  <2> QED BY <2>1, <2>2, <2>3 DEF Link
<1>2. ASSUME NEW v \in b.vouchers, Claimants(b, v) = {p} PROVE v.number \in Vouchers(ExactLinks(b), p)
  <2>1. Link("BUSINESS_TO_SAP", p.number, v.number) \in ExactLinks(b)
      BY <1>2, LinksAre DEF ExactLinks
  <2>2. /\ Link("BUSINESS_TO_SAP", p.number, v.number).kind = "BUSINESS_TO_SAP"
        /\ Link("BUSINESS_TO_SAP", p.number, v.number).source = p.number
        /\ Link("BUSINESS_TO_SAP", p.number, v.number).target = v.number
      BY DEF Link
  <2> QED BY <2>1, <2>2 DEF Vouchers
<1> QED BY <1>1, <1>2

LEMMA LinkedVoucher ==
    ASSUME NEW b \in Books, NEW v \in b.vouchers
    PROVE  Linked(ExactLinks(b), v) <=> \E p \in b.papers : Claimants(b, v) = {p}
<1>1. ASSUME NEW l \in ExactLinks(b), l.kind = "BUSINESS_TO_SAP", l.target = v.number
      PROVE  \E p \in b.papers : Claimants(b, v) = {p}
  <2>1. PICK w \in b.vouchers, q \in b.papers :
            Claimants(b, w) = {q} /\ l = Link("BUSINESS_TO_SAP", q.number, w.number)
      BY <1>1, LinkKinds, LinksAre
  <2>2. w = v
      BY <1>1, <2>1, EntertainmentAssumption DEF Link
  <2> QED BY <2>1, <2>2
<1>2. ASSUME NEW p \in b.papers, Claimants(b, v) = {p}
      PROVE  \E l \in ExactLinks(b) : l.kind = "BUSINESS_TO_SAP" /\ l.target = v.number
  <2>1. Link("BUSINESS_TO_SAP", p.number, v.number) \in ExactLinks(b)
      BY <1>2, LinksAre DEF ExactLinks
  <2> QED BY <2>1 DEF Link
<1> QED BY <1>1, <1>2 DEF Linked

ItemOf(b, p) == Evaluation(ExactLinks(b), p)

LEMMA EvaluationsAre ==
    ASSUME NEW b \in Books
    PROVE  /\ \A e \in EvaluationsOf(b, ExactLinks(b)) :
                  \E p \in Canonicals(b) : Heirs(b, p) = {} /\ e = ItemOf(b, p)
           /\ \A p \in Canonicals(b) : Heirs(b, p) = {} => ItemOf(b, p) \in EvaluationsOf(b, ExactLinks(b))
           /\ \A p : ItemOf(b, p).paper = p.number
<1>1. \A p \in Canonicals(b) : Suppressed(ExactLinks(b), p) <=> Heirs(b, p) # {}
    BY SuppressedByHeir DEF Canonicals
<1> QED BY <1>1 DEF EvaluationsOf, ItemOf, Evaluation

LEMMA EveryIsFinite == books \in Books => IsFiniteSet(Every) /\ \A e \in Every : e.paper \in Nat
<1> SUFFICES ASSUME books \in Books PROVE IsFiniteSet(Every) /\ \A e \in Every : e.paper \in Nat
    OBVIOUS
<1> DEFINE S == {q \in Canonicals(books) : ~Suppressed(ExactLinks(books), q)}
           f == [p \in S |-> Evaluation(ExactLinks(books), p)]
<1>1. S \in SUBSET books.papers /\ IsFiniteSet(books.papers)
    BY EntertainmentAssumption DEF Canonicals
<1>2. IsFiniteSet(S)
    BY <1>1, FS_Subset
<1>3. f \in Surjection(S, Every)
    BY DEF Surjection, Every, EvaluationsOf
<1>4. \A e \in Every : e.paper \in Nat
    BY <1>1, EntertainmentAssumption DEF Every, EvaluationsOf, Evaluation
<1> HIDE DEF S, f
<1> QED BY <1>2, <1>3, <1>4, FS_Surjection

LEMMA OneVoucher ==
    ASSUME NEW b \in Books, Buildable(b, ExactLinks(b)), NEW p \in b.papers,
           NEW v \in b.vouchers, Claimants(b, v) = {p}
    PROVE  ItemOf(b, p).voucher = v.number
<1> DEFINE S == {w \in b.vouchers : Claimants(b, w) = {p}}
           N == Vouchers(ExactLinks(b), p)
           f == [w \in S |-> w.number]
<1>1. S \in SUBSET b.vouchers /\ IsFiniteSet(b.vouchers)
    BY EntertainmentAssumption
<1>2. IsFiniteSet(S)
    BY <1>1, FS_Subset
<1>3. N = {w.number : w \in S}
    BY VouchersOfPaper
<1>4. v.number \in N
    BY <1>3
<1>5. IsFiniteSet(N)
  <2>1. f \in Surjection(S, N)
      BY <1>3 DEF Surjection
  <2> HIDE DEF S, N, f
  <2> QED BY <1>2, <2>1, FS_Surjection
<1>6. Cardinality(N) <= 1
    BY DEF Buildable
<1>7. \A n \in N : n = v.number
  <2> HIDE DEF S, N, f
  <2> SUFFICES ASSUME NEW n \in N, n # v.number PROVE FALSE
      OBVIOUS
  <2>1. IsFiniteSet(N \ {n}) /\ Cardinality(N \ {n}) = Cardinality(N) - 1
      BY <1>5, FS_RemoveElement
  <2>2. Cardinality(N) \in Nat /\ Cardinality(N \ {n}) \in Nat
      BY <1>5, <2>1, FS_CardinalityType
  <2>3. Cardinality(N \ {n}) = 0
      BY <1>6, <2>1, <2>2
  <2>4. N \ {n} = {}
      BY <2>1, <2>3, FS_EmptySet
  <2> QED BY <1>4, <2>4
<1>8. N # {} /\ ItemOf(b, p).voucher = IF N = {} THEN NoRef ELSE CHOOSE n \in N : TRUE
    BY <1>4 DEF ItemOf, Evaluation
<1> HIDE DEF N
<1> QED BY <1>7, <1>8

LEMMA VoucherIsLinked ==
    ASSUME NEW b \in Books, NEW p \in b.papers, ItemOf(b, p).voucher # NoRef
    PROVE  \E v \in b.vouchers : Claimants(b, v) = {p} /\ v.number = ItemOf(b, p).voucher
<1> DEFINE N == Vouchers(ExactLinks(b), p)
<1>1. ItemOf(b, p).voucher = IF N = {} THEN NoRef ELSE CHOOSE n \in N : TRUE
    BY DEF ItemOf, Evaluation
<1>2. N = {w.number : w \in {w \in b.vouchers : Claimants(b, w) = {p}}}
    BY VouchersOfPaper
<1>3. ItemOf(b, p).voucher \in N
  <2> HIDE DEF N
  <2> QED BY <1>1
<1> QED BY <1>2, <1>3

LEMMA PapersOnce == EntertainmentInv => EveryPaperOnce
<1> SUFFICES ASSUME EntertainmentInv, evaluations # {} PROVE EveryPaperOnce
    BY DEF EveryPaperOnce
<1>1. books \in Books /\ evaluations = EvaluationsOf(books, ExactLinks(books))
    BY DEF EntertainmentInv, AllPersisted, Every
<1>2. \A p, q \in books.papers : p.number = q.number => p = q
    BY <1>1, EntertainmentAssumption
<1>3. Canonicals(books) \subseteq books.papers
    BY DEF Canonicals
<1>4. ASSUME NEW p \in books.papers
      PROVE  Evaluated(p) <=> p \in Canonicals(books) /\ Heirs(books, p) = {}
  <2>1. ASSUME Evaluated(p) PROVE p \in Canonicals(books) /\ Heirs(books, p) = {}
    <3>1. PICK e \in evaluations : e.paper = p.number
        BY <2>1 DEF Evaluated
    <3>2. PICK q \in Canonicals(books) : Heirs(books, q) = {} /\ e = ItemOf(books, q)
        BY <1>1, <3>1, EvaluationsAre
    <3>3. q.number = p.number
        BY <1>1, <3>1, <3>2, EvaluationsAre
    <3> QED BY <1>2, <1>3, <3>2, <3>3
  <2>2. ASSUME p \in Canonicals(books), Heirs(books, p) = {} PROVE Evaluated(p)
      BY <1>1, <2>2, EvaluationsAre DEF Evaluated
  <2> QED BY <2>1, <2>2
<1>5. ASSUME NEW p \in Canonicals(books)
      PROVE  Heirs(books, p) # {} <=> \E h \in books.papers :
                 /\ h.kind = "hesi" /\ p.kind = "oa" /\ Evaluated(h)
                 /\ Named(books, h.oa) \ {q \in books.papers : q.kind # "oa"} = {p}
  <2>1. \A h \in books.papers : Named(books, h.oa) \ {q \in books.papers : q.kind # "oa"} = NamedOa(books, h)
      BY DEF Named, NamedOa
  <2>2. ASSUME NEW h \in Heirs(books, p)
        PROVE  /\ h \in books.papers /\ h.kind = "hesi" /\ p.kind = "oa" /\ Evaluated(h)
               /\ NamedOa(books, h) = {p}
    <3>1. h \in books.papers /\ h.kind = "hesi" /\ p.kind = "oa" /\ NamedOa(books, h) = {p} /\ Heirs(books, h) = {}
        BY HeirsAreHesi
    <3> QED BY <1>4, <3>1 DEF Canonicals
  <2>3. ASSUME NEW h \in books.papers, h.kind = "hesi", NamedOa(books, h) = {p} PROVE h \in Heirs(books, p)
      BY <2>3 DEF Heirs, StandsFor, NamedOa, Named
  <2> QED BY <2>1, <2>2, <2>3
<1>6. ASSUME NEW e \in evaluations, NEW o \in evaluations, e.paper = o.paper PROVE e = o
  <2>1. PICK p \in Canonicals(books), q \in Canonicals(books) :
            e = ItemOf(books, p) /\ o = ItemOf(books, q)
      BY <1>1, EvaluationsAre
  <2>2. p.number = q.number
      BY <1>1, <1>6, <2>1, EvaluationsAre
  <2> QED BY <1>2, <1>3, <2>1, <2>2
<1> QED BY <1>3, <1>4, <1>5, <1>6 DEF EveryPaperOnce

LEMMA CoveragesAre ==
    ASSUME NEW b \in Books, NEW c \in CoveragesOf(b, ExactLinks(b))
    PROVE  /\ c = [voucher |-> c.voucher, linked |-> c.linked] /\ c.linked \in BOOLEAN
           /\ \E v \in b.vouchers : c.voucher = v.number /\ c.linked = Linked(ExactLinks(b), v)
<1>1. PICK v \in b.vouchers : c = [voucher |-> v.number, linked |-> Linked(ExactLinks(b), v)]
    BY Zenon DEF CoveragesOf
<1>2. PICK linked : linked = Linked(ExactLinks(b), v)
    OBVIOUS
<1>3. linked \in BOOLEAN
    BY Zenon, <1>2 DEF Linked
<1>4. c = [voucher |-> v.number, linked |-> linked]
    BY <1>1, <1>2
<1> QED BY <1>2, <1>3, <1>4

LEMMA EachIsCovered ==
    ASSUME NEW b, NEW v \in b.vouchers
    PROVE  \E c \in CoveragesOf(b, ExactLinks(b)) : c.voucher = v.number
<1>1. [voucher |-> v.number, linked |-> Linked(ExactLinks(b), v)] \in CoveragesOf(b, ExactLinks(b))
    BY Zenon DEF CoveragesOf
<1> QED BY <1>1

LEMMA VouchersOnce == EntertainmentInv => VouchersAccounted
<1> SUFFICES ASSUME EntertainmentInv, evaluations # {} PROVE VouchersAccounted
    BY DEF VouchersAccounted
<1>1. /\ books \in Books /\ links = ExactLinks(books) /\ Buildable(books, ExactLinks(books))
      /\ evaluations = EvaluationsOf(books, ExactLinks(books))
      /\ coverages = CoveragesOf(books, ExactLinks(books))
    BY DEF EntertainmentInv, AllPersisted, Every
<1>2. /\ \A v \in books.vouchers : \E c \in coverages : c.voucher = v.number
      /\ \A c \in coverages : \E v \in books.vouchers : c.voucher = v.number
      /\ \A c \in coverages, v \in books.vouchers : c.voucher = v.number =>
             (c.linked <=> \E p \in books.papers : Claimants(books, v) = {p})
  <2>1. \A c \in coverages : \E v \in books.vouchers :
            /\ c.voucher = v.number
            /\ c.linked = Linked(ExactLinks(books), v)
      BY <1>1, CoveragesAre
  <2>2. \A v \in books.vouchers : \E c \in coverages : c.voucher = v.number
      BY <1>1, EachIsCovered
  <2> QED BY <1>1, <2>1, <2>2, LinkedVoucher, EntertainmentAssumption
<1>3. {c.voucher : c \in coverages} = {v.number : v \in books.vouchers}
    BY <1>2
<1>4. \A c \in coverages : c = [voucher |-> c.voucher, linked |-> c.linked] /\ c.linked \in BOOLEAN
    BY <1>1, CoveragesAre
<1>5. ASSUME NEW c \in coverages, NEW o \in coverages, c.voucher = o.voucher PROVE c = o
  <2>1. c.linked = o.linked
      BY <1>2, <1>4, <1>5
  <2> QED BY <1>4, <1>5, <2>1
<1>6. ASSUME NEW e \in evaluations, e.voucher # NoRef
      PROVE  /\ [voucher |-> e.voucher, linked |-> TRUE] \in coverages
             /\ \A o \in evaluations : o.voucher = e.voucher => o = e
  <2>1. PICK p \in books.papers : e = ItemOf(books, p)
      BY <1>1, EvaluationsAre DEF Canonicals
  <2>2. PICK v \in books.vouchers : Claimants(books, v) = {p} /\ v.number = e.voucher
      BY <1>1, <1>6, <2>1, VoucherIsLinked
  <2>3. PICK c \in coverages : c.voucher = e.voucher
      BY <1>2, <2>2
  <2>4. c.linked = TRUE
      BY <1>2, <1>4, <2>2, <2>3
  <2>5. ASSUME NEW o \in evaluations, o.voucher = e.voucher PROVE o = e
    <3>1. PICK q \in books.papers : o = ItemOf(books, q)
        BY <1>1, EvaluationsAre DEF Canonicals
    <3>2. PICK w \in books.vouchers : Claimants(books, w) = {q} /\ w.number = o.voucher
        BY <1>1, <1>6, <2>5, <3>1, VoucherIsLinked
    <3>3. w = v
        BY <1>1, <2>2, <2>5, <3>2, EntertainmentAssumption
    <3> QED BY <2>1, <2>2, <3>1, <3>2, <3>3
  <2> QED BY <1>4, <2>3, <2>4, <2>5
<1>7. ASSUME NEW c \in coverages, c.linked, \A p \in books.papers : p.voucher # c.voucher
      PROVE  \E e \in evaluations : e.voucher = c.voucher
  <2>1. PICK v \in books.vouchers : c.voucher = v.number
      BY <1>2
  <2>2. PICK p \in books.papers : Claimants(books, v) = {p}
      BY <1>2, <1>7, <2>1
  <2>3. /\ {q \in books.papers : q.voucher = v.number} = {}
        /\ p.kind # "child"
        /\ \E q \in Named(books, v.assignment) \cup Named(books, v.reference) : p = Canonical(books, q)
    <3>1. {q \in books.papers : q.voucher = v.number} = {}
        BY <1>7, <2>1
    <3>2. p \in Claimants(books, v)
        BY <2>2
    <3> QED BY <3>1, <3>2 DEF Claimants
  <2>4. PICK q : p = Canonical(books, q)
      BY <2>3
  <2>5. Heirs(books, p) = {}
    <3>1. CASE Heirs(books, q) = {}
        BY <1>1, <2>4, <3>1, CanonicalIsHeir
    <3>2. CASE Heirs(books, q) # {}
      <4>1. p \in Heirs(books, q)
          BY <1>1, <2>4, <3>2, CanonicalIsHeir
      <4> QED BY <4>1, HeirsAreHesi
    <3> QED BY <3>1, <3>2
  <2>6. ItemOf(books, p) \in evaluations
      BY <1>1, <2>3, <2>5, EvaluationsAre DEF Canonicals
  <2>7. ItemOf(books, p).voucher = v.number
      BY <1>1, <2>2, OneVoucher
  <2> QED BY <2>1, <2>6, <2>7
<1> QED BY <1>3, <1>5, <1>6, <1>7 DEF VouchersAccounted

-----------------------------------------------------------------------------
(* What the steps do.                                                      *)

\* Nothing persisted is taken back, and what is added is all of it.
Forward ==
    /\ books' = books
    /\ links' \in {links, ExactLinks(books)}
    /\ AllPersisted' \/ (evaluations' = evaluations /\ coverages' = coverages)
    /\ DOMAIN detections' \subseteq evaluations'
    /\ \A e \in DOMAIN detections : e \in DOMAIN detections' /\ detections'[e] = detections[e]

LEMMA UnchangedIsForward ==
    EntertainmentInv /\ UNCHANGED <<books, links, evaluations, coverages, detections>> => Forward
BY DEF EntertainmentInv, Forward

LEMMA PersistedStays == EntertainmentInv /\ Forward /\ AllPersisted => AllPersisted'
<1> SUFFICES ASSUME EntertainmentInv, Forward, AllPersisted, ~AllPersisted' PROVE FALSE
    OBVIOUS
<1>1. books' = books /\ links' = links /\ evaluations' = evaluations /\ coverages' = coverages
    BY DEF Forward, AllPersisted
<1> QED BY <1>1 DEF AllPersisted, Every

LEMMA OthersStayInformed ==
    ASSUME EntertainmentInv, Forward, NEW o \in Attempt, attempts'[o] = attempts[o]
    PROVE  Informed(o)'
<1>1. Informed(o)
    BY DEF EntertainmentInv
<1>2. books' = books /\ Every' = Every /\ ExactLinks(books)' = ExactLinks(books)
    BY DEF Forward, Every
<1>3. links = ExactLinks(books) => links' = ExactLinks(books)
    BY DEF Forward
<1>4. AllPersisted => AllPersisted'
    BY PersistedStays
<1>5. \A e \in DOMAIN detections : e \in DOMAIN detections' /\ detections'[e] = detections[e]
    BY DEF Forward
<1> QED BY <1>1, <1>2, <1>3, <1>4, <1>5 DEF Informed

\* A step that only goes forward, of an attempt that stays informed.
LEMMA KeptByForward ==
    ASSUME EntertainmentInv, Forward, NEW a \in Attempt, NEW row \in AttemptState,
           attempts' = [attempts EXCEPT ![a] = row], Informed(a)'
    PROVE  EntertainmentInv'
<1>1. books' = books /\ Every' = Every /\ ExactLinks(books)' = ExactLinks(books) /\ AttemptState' = AttemptState
    BY DEF Forward, Every, AttemptState
<1>2. attempts' \in [Attempt -> AttemptState]
    BY DEF EntertainmentInv
<1>3. ASSUME NEW o \in Attempt PROVE Informed(o)'
  <2>1. CASE o = a
      BY <2>1
  <2>2. CASE o # a
    <3>1. attempts'[o] = attempts[o]
        BY <2>2 DEF EntertainmentInv
    <3> QED BY <3>1, OthersStayInformed
  <2> QED BY <2>1, <2>2
<1>4. links' \in {{}, ExactLinks(books)}
    BY DEF EntertainmentInv, Forward
<1>5. AllPersisted' \/ (evaluations' = {} /\ coverages' = {})
    BY PersistedStays DEF EntertainmentInv, Forward
<1> QED BY <1>1, <1>2, <1>3, <1>4, <1>5 DEF EntertainmentInv, Forward

LEMMA RowIsAttempt ==
    ASSUME EntertainmentInv, NEW a \in Attempt
    PROVE  attempts[a] \in AttemptState /\ attempts[a].tries \in 0 .. MaxTaskRetries
BY DEF EntertainmentInv, AttemptState

LEMMA SentIsAttempt ==
    ASSUME NEW t \in 0 .. MaxTaskRetries, NEW pc \in Ended \cup {"ready", "link", "persist", "evaluate", "route"}
    PROVE  /\ [Sent EXCEPT !.tries = t] \in AttemptState
           /\ [Sent EXCEPT !.pc = pc] \in AttemptState
<1>1. 0 \in 0 .. MaxTaskRetries
    BY EntertainmentAssumption
<1>2. PICK none : none = [e \in {} |-> "none"]
    OBVIOUS
<1>3. none \in UNION {[S -> books.labels] : S \in SUBSET Every}
  <2>1. none \in [{} -> books.labels]
      BY <1>2
  <2> QED BY <2>1
<1>4. Sent = [pc |-> "ready", tries |-> 0, items |-> {}, judged |-> none, routed |-> {}]
    BY <1>2 DEF Sent
<1>5. PICK sent : sent = Sent
    OBVIOUS
<1>6. /\ [sent EXCEPT !.tries = t] = [pc |-> "ready", tries |-> t, items |-> {}, judged |-> none, routed |-> {}]
      /\ [sent EXCEPT !.pc = pc] = [pc |-> pc, tries |-> 0, items |-> {}, judged |-> none, routed |-> {}]
    BY <1>4, <1>5
<1>7. [sent EXCEPT !.tries = t] \in AttemptState /\ [sent EXCEPT !.pc = pc] \in AttemptState
    BY <1>1, <1>3, <1>6 DEF AttemptState
<1> QED BY <1>5, <1>7

\* An attempt that starts again or is blocked knows nothing.
LEMMA FinishKeeps ==
    ASSUME EntertainmentInv, Forward, NEW a \in Attempt, NEW s \in {"BLOCKED", "FAILED"}, Finish(a, s)
    PROVE  EntertainmentInv'
<1>1. PICK row : row = [Sent EXCEPT !.pc = s]
    OBVIOUS
<1>2. 0 \in 0 .. MaxTaskRetries
    BY EntertainmentAssumption
<1>3. row \in AttemptState
    BY <1>1, <1>2, SentIsAttempt DEF Ended
<1>4. row.pc = s
    BY <1>1 DEF Sent
<1>5. attempts' = [attempts EXCEPT ![a] = row]
    BY <1>1 DEF Finish
<1>6. attempts'[a].pc = s
    BY <1>4, <1>5 DEF EntertainmentInv
<1>7. Informed(a)'
    BY <1>6 DEF Informed
<1> QED BY <1>3, <1>5, <1>7, KeptByForward

LEMMA BeginKeeps ==
    ASSUME EntertainmentInv, Forward, NEW a \in Attempt, NEW t \in 0 .. MaxTaskRetries, Begin(a, t)
    PROVE  EntertainmentInv'
<1>1. PICK row : row = [Sent EXCEPT !.tries = t]
    OBVIOUS
<1>2. row \in AttemptState
    BY <1>1, SentIsAttempt
<1>3. row.pc = "ready" /\ row.routed = {}
    BY <1>1 DEF Sent
<1>4. attempts' = [attempts EXCEPT ![a] = row]
    BY <1>1 DEF Begin
<1>5. attempts'[a].pc = "ready" /\ attempts'[a].routed = {}
    BY <1>3, <1>4 DEF EntertainmentInv
<1>6. Informed(a)'
    BY <1>5 DEF Informed
<1> QED BY <1>2, <1>4, <1>6, KeptByForward

LEMMA RetryOrFailKeeps ==
    ASSUME EntertainmentInv, Forward, NEW a \in Attempt, RetryOrFail(a)
    PROVE  EntertainmentInv'
<1>1. CASE MayRetry(a)
  <2>1. attempts[a].tries + 1 \in 0 .. MaxTaskRetries
      BY <1>1, RowIsAttempt, EntertainmentAssumption DEF MayRetry
  <2> QED BY <1>1, <2>1, BeginKeeps DEF RetryOrFail
<1>2. CASE ~MayRetry(a)
    BY <1>2, FinishKeeps DEF RetryOrFail
<1> QED BY <1>1, <1>2

LEMMA EnteredRow ==
    ASSUME EntertainmentInv, NEW a \in Attempt,
           NEW pc \in Ended \cup {"ready", "link", "persist", "evaluate", "route"}, Enter(a, pc)
    PROVE  \E row \in AttemptState :
               /\ attempts' = [attempts EXCEPT ![a] = row] /\ attempts'[a] = row /\ row.pc = pc
               /\ row.items = attempts[a].items /\ row.judged = attempts[a].judged /\ row.routed = attempts[a].routed
<1>1. PICK row : row = [attempts[a] EXCEPT !.pc = pc]
    OBVIOUS
<1>2. attempts[a] \in AttemptState
    BY RowIsAttempt
<1>3. row \in AttemptState /\ row.pc = pc /\ row.items = attempts[a].items
      /\ row.judged = attempts[a].judged /\ row.routed = attempts[a].routed
    BY <1>1, <1>2 DEF AttemptState
<1>4. attempts' = [attempts EXCEPT ![a] = row]
    BY <1>1 DEF Enter
<1>5. attempts'[a] = row
    BY <1>4 DEF EntertainmentInv
<1> QED BY <1>3, <1>4, <1>5

LEMMA LoadKeeps == ASSUME EntertainmentInv, NEW a \in Attempt, Load(a) PROVE EntertainmentInv'
<1>1. Forward
    BY UnchangedIsForward DEF Load
<1>2. CASE Enter(a, "link")
  <2>1. PICK row \in AttemptState : /\ attempts' = [attempts EXCEPT ![a] = row] /\ attempts'[a] = row
                                    /\ row.pc = "link" /\ row.routed = attempts[a].routed
      BY <1>2, EnteredRow
  <2> attempts[a].routed = {}
      BY DEF Load, At, EntertainmentInv, Informed
  <2>2. Informed(a)'
      BY <2>1 DEF Informed
  <2> QED BY <1>1, <2>1, <2>2, KeptByForward
<1>3. CASE Finish(a, "BLOCKED")
    BY <1>1, <1>3, FinishKeeps
<1> QED BY <1>2, <1>3 DEF Load

LEMMA GateClosesKeeps == ASSUME EntertainmentInv, NEW a \in Attempt, GateCloses(a) PROVE EntertainmentInv'
<1>1. Forward
    BY UnchangedIsForward DEF GateCloses
<1> QED BY <1>1, FinishKeeps DEF GateCloses

LEMMA LinkInputKeeps == ASSUME EntertainmentInv, NEW a \in Attempt, LinkInput(a) PROVE EntertainmentInv'
<1>1. links' = ExactLinks(books)
    BY DEF LinkInput, KeptLinks, EntertainmentInv
<1>2. Forward
    BY <1>1 DEF LinkInput, Forward, EntertainmentInv
<1>3. CASE RetryOrFail(a)
    BY <1>2, <1>3, RetryOrFailKeeps
<1>4. CASE /\ Buildable(books, links')
           /\ attempts' = [attempts EXCEPT ![a] = [@ EXCEPT !.pc = "persist",
                                                          !.items = EvaluationsOf(books, links')]]
  <2>1. PICK row : row = [attempts[a] EXCEPT !.pc = "persist", !.items = Every]
      OBVIOUS
  <2>2. attempts[a] \in AttemptState
      BY RowIsAttempt
  <2>3. row \in AttemptState /\ row.pc = "persist" /\ row.items = Every
      /\ row.routed = attempts[a].routed
      BY <2>1, <2>2 DEF AttemptState
  <2> attempts[a].routed = {}
      BY DEF LinkInput, At, EntertainmentInv, Informed
  <2>4. attempts' = [attempts EXCEPT ![a] = row]
      BY <1>1, <1>4, <2>1 DEF Every
  <2>5. attempts'[a] = row
      BY <2>4 DEF EntertainmentInv
  <2>6. books' = books /\ Every' = Every
      BY <1>2 DEF Forward, Every
  <2>7. Informed(a)'
      BY <1>1, <1>4, <2>3, <2>5, <2>6 DEF Informed
  <2> QED BY <1>2, <2>3, <2>4, <2>7, KeptByForward
<1> QED BY <1>3, <1>4 DEF LinkInput

LEMMA PersistKeeps == ASSUME EntertainmentInv, NEW a \in Attempt, Persist(a) PROVE EntertainmentInv'
<1>1. attempts[a].items = Every /\ links = ExactLinks(books) /\ Buildable(books, links)
      /\ attempts[a].routed = {}
    BY DEF Persist, At, EntertainmentInv, Informed
<1>2. coverages' = CoveragesOf(books, links) /\ evaluations' = Every
    BY <1>1 DEF Persist, KeptCoverages, KeptEvaluations, EntertainmentInv, AllPersisted
<1>3. books' = books /\ links' = links /\ detections' = detections /\ Every' = Every
    BY DEF Persist, Every
<1>4. AllPersisted'
    BY <1>1, <1>2, <1>3 DEF AllPersisted
<1>5. DOMAIN detections \subseteq Every
    BY DEF EntertainmentInv, AllPersisted
<1>6. Forward
    BY <1>2, <1>3, <1>4, <1>5 DEF Forward
<1>7. CASE Enter(a, "evaluate")
  <2>1. PICK row \in AttemptState : /\ attempts' = [attempts EXCEPT ![a] = row] /\ attempts'[a] = row
                                    /\ row.pc = "evaluate" /\ row.items = attempts[a].items
                                    /\ row.routed = attempts[a].routed
      BY <1>7, EnteredRow
  <2>2. Informed(a)'
      BY <1>1, <1>3, <1>4, <2>1 DEF Informed
  <2> QED BY <1>6, <2>1, <2>2, KeptByForward
<1>8. CASE Finish(a, "BLOCKED")
    BY <1>6, <1>8, FinishKeeps
<1> QED BY <1>7, <1>8 DEF Persist

LEMMA JudgeKeeps == ASSUME EntertainmentInv, NEW a \in Attempt, Judge(a) PROVE EntertainmentInv'
<1>1. Forward
    BY UnchangedIsForward DEF Judge
<1>2. attempts[a].items = Every /\ links = ExactLinks(books) /\ Buildable(books, links) /\ AllPersisted
      /\ attempts[a].routed = {}
    BY DEF Judge, At, EntertainmentInv, Informed
<1>3. PICK judged \in [attempts[a].items -> books.labels] :
          attempts' = [attempts EXCEPT ![a] = [@ EXCEPT !.pc = "route", !.judged = judged]]
    BY DEF Judge
<1>4. PICK row : row = [attempts[a] EXCEPT !.pc = "route", !.judged = judged]
    OBVIOUS
<1>5. attempts[a] \in AttemptState
    BY RowIsAttempt
<1>6. judged \in UNION {[S -> books.labels] : S \in SUBSET Every} /\ DOMAIN judged = Every
    BY <1>2
<1>7. row \in AttemptState /\ row.pc = "route" /\ row.items = Every /\ row.judged = judged
      /\ row.routed = {}
    BY <1>2, <1>4, <1>5, <1>6 DEF AttemptState
<1>8. attempts' = [attempts EXCEPT ![a] = row]
    BY <1>3, <1>4
<1>9. attempts'[a] = row
    BY <1>8 DEF EntertainmentInv
<1>10. books' = books /\ Every' = Every /\ links' = links /\ AllPersisted'
  <2>1. books' = books /\ links' = links
      BY DEF Judge
  <2>2. AllPersisted'
      BY <1>1, <1>2, PersistedStays
  <2> QED BY <2>1, <2>2 DEF Every
<1>11. Informed(a)'
    BY <1>2, <1>6, <1>7, <1>9, <1>10 DEF Informed
<1> QED BY <1>1, <1>7, <1>8, <1>11, KeptByForward

LEMMA AnswerRejectedKeeps == ASSUME EntertainmentInv, NEW a \in Attempt, AnswerRejected(a) PROVE EntertainmentInv'
<1>1. Forward
    BY UnchangedIsForward DEF AnswerRejected
<1> QED BY <1>1, FinishKeeps DEF AnswerRejected

\* There is a next evaluation, since there are finitely many in an order.
LEMMA NextUpIsUnrouted ==
    ASSUME EntertainmentInv, NEW a \in Attempt, DOMAIN attempts[a].judged = Every, Unrouted(a) # {}
    PROVE  NextUp(a) \in Unrouted(a)
<1> DEFINE U == Unrouted(a)
           R == {r \in U \X U : Before(r[1], r[2])}
<1>1. IsFiniteSet(Every) /\ \A e \in Every : e.paper \in Nat
    BY EveryIsFinite DEF EntertainmentInv
<1>2. U \in SUBSET Every /\ U # {}
    BY DEF Unrouted
<1>3. IsFiniteSet(U)
    BY <1>1, <1>2, FS_Subset
<1>4. \A x, y \in U : <<x, y>> \in R <=> Before(x, y)
    OBVIOUS
<1>5. \A x, y \in U : Before(x, y) \/ Before(y, x)
    BY <1>1, <1>2 DEF Before
<1>6. \A x, y, z \in U : Before(x, y) /\ Before(y, z) => Before(x, z)
    BY <1>1, <1>2 DEF Before
<1> HIDE DEF U, R
<1>7. PICK first \in U : \A o \in U : <<first, o>> \in R
  <2>1. \A x, y \in U : <<x, y>> \in R \/ <<y, x>> \in R
      BY <1>4, <1>5
  <2>2. \A x, y, z \in U : <<x, y>> \in R /\ <<y, z>> \in R => <<x, z>> \in R
      BY <1>4, <1>6
  <2> QED BY <1>2, <1>3, <2>1, <2>2, FiniteHasFirst
<1>8. \E e \in U : \A o \in U : Before(e, o)
    BY <1>4, <1>7
<1>9. NextUp(a) = CHOOSE e \in U : \A o \in U : Before(e, o)
    BY DEF NextUp, U
<1> QED BY <1>8, <1>9 DEF U

LEMMA Route1Keeps == ASSUME EntertainmentInv, NEW a \in Attempt, Route1(a) PROVE EntertainmentInv'
<1>1. /\ attempts[a].pc = "route" /\ attempts[a].items = Every /\ AllPersisted
      /\ links = ExactLinks(books) /\ Buildable(books, links) /\ DOMAIN attempts[a].judged = Every
      /\ \A e \in attempts[a].routed : e \in DOMAIN detections /\ detections[e] = attempts[a].judged[e]
    BY DEF Route1, At, EntertainmentInv, Informed
<1>2. PICK next : next = NextUp(a)
    OBVIOUS
<1>3. next \in Every \ attempts[a].routed
  <2>1. NextUp(a) \in Unrouted(a)
      BY <1>1, NextUpIsUnrouted DEF Route1
  <2> QED BY <1>1, <1>2, <2>1 DEF Unrouted
<1>4. UNCHANGED <<books, links, evaluations, coverages>> /\ evaluations = Every
    BY <1>1 DEF Route1, AllPersisted
<1>5. CASE Finish(a, "BLOCKED") /\ UNCHANGED detections
  <2>1. Forward
      BY <1>4, <1>5, UnchangedIsForward
  <2> QED BY <1>5, <2>1, FinishKeeps
<1>6. CASE /\ Replays(a, next)
           /\ detections' = Extend(detections, next, attempts[a].judged[next])
           /\ attempts' = [attempts EXCEPT ![a].routed = @ \cup {next}]
  <2>1. /\ DOMAIN detections' = DOMAIN detections \cup {next}
        /\ \A o \in DOMAIN detections : detections'[o] = detections[o]
        /\ detections'[next] = attempts[a].judged[next]
      BY <1>6 DEF Extend, Replays
  <2>2. DOMAIN detections \subseteq Every
      BY <1>4 DEF EntertainmentInv
  <2>3. Forward
      BY <1>3, <1>4, <2>1, <2>2 DEF Forward
  <2>4. attempts[a] \in AttemptState
      BY RowIsAttempt
  <2>5. PICK row : row = [attempts[a] EXCEPT !.routed = @ \cup {next}]
      OBVIOUS
  <2>6. row \in AttemptState /\ row.pc = "route" /\ row.items = Every
        /\ row.judged = attempts[a].judged /\ row.routed = attempts[a].routed \cup {next}
      BY <1>1, <1>3, <2>4, <2>5 DEF AttemptState
  <2>7. attempts' = [attempts EXCEPT ![a] = row]
      BY <1>6, <2>5
  <2>8. attempts'[a] = row
      BY <2>7 DEF EntertainmentInv
  <2>9. Every' = Every /\ AllPersisted'
      BY <1>1, <1>4, <2>3, PersistedStays DEF Every
  <2>10. Informed(a)'
      BY <1>1, <1>4, <2>1, <2>6, <2>8, <2>9 DEF Informed
  <2> QED BY <2>3, <2>6, <2>7, <2>10, KeptByForward
<1>7. \/ Finish(a, "BLOCKED") /\ UNCHANGED detections
      \/ /\ Replays(a, next)
         /\ detections' = Extend(detections, next, attempts[a].judged[next])
         /\ attempts' = [attempts EXCEPT ![a].routed = @ \cup {next}]
    BY <1>2 DEF Route1
<1> QED BY <1>5, <1>6, <1>7

LEMMA SucceedKeeps == ASSUME EntertainmentInv, NEW a \in Attempt, Succeed(a) PROVE EntertainmentInv'
<1>1. Forward
    BY UnchangedIsForward DEF Succeed
<1>2. /\ attempts[a].items = Every /\ AllPersisted
      /\ links = ExactLinks(books) /\ Buildable(books, links) /\ DOMAIN attempts[a].judged = Every
      /\ \A e \in attempts[a].routed : e \in DOMAIN detections /\ detections[e] = attempts[a].judged[e]
    BY DEF Succeed, At, EntertainmentInv, Informed
<1>3. attempts[a].routed = Every
    BY <1>2, RowIsAttempt DEF Succeed, AllRouted, Unrouted, AttemptState
<1>4. PICK row \in AttemptState :
          /\ attempts' = [attempts EXCEPT ![a] = row] /\ attempts'[a] = row /\ row.pc = "SUCCEEDED"
          /\ row.items = attempts[a].items /\ row.judged = attempts[a].judged /\ row.routed = attempts[a].routed
    BY EnteredRow DEF Succeed, Ended
<1>5. books' = books /\ links' = links /\ detections' = detections /\ Every' = Every
    BY DEF Succeed, Every
<1>6. AllPersisted'
    BY <1>1, <1>2, PersistedStays
<1>7. Informed(a)'
    BY <1>2, <1>3, <1>4, <1>5, <1>6 DEF Informed
<1> QED BY <1>1, <1>4, <1>7, KeptByForward

LEMMA TaskFailsKeeps == ASSUME EntertainmentInv, NEW a \in Attempt, TaskFails(a) PROVE EntertainmentInv'
<1>1. Forward
    BY UnchangedIsForward DEF TaskFails
<1> QED BY <1>1, RetryOrFailKeeps DEF TaskFails

LEMMA WorkerStopsKeeps == ASSUME EntertainmentInv, NEW a \in Attempt, WorkerStops(a) PROVE EntertainmentInv'
<1>1. Forward
    BY UnchangedIsForward DEF WorkerStops
<1> QED BY <1>1, RowIsAttempt, BeginKeeps DEF WorkerStops

\* A step that leaves all the tables and attempts alone.
LEMMA NothingKeeps ==
    ASSUME EntertainmentInv, UNCHANGED <<books, links, evaluations, coverages, detections, attempts>>
    PROVE  EntertainmentInv'
<1>1. Forward
    BY UnchangedIsForward
<1>2. \A o \in Attempt : Informed(o)'
    BY <1>1, OthersStayInformed
<1>3. Every' = Every /\ AttemptState' = AttemptState /\ AllPersisted' = AllPersisted
    BY DEF Every, AttemptState, AllPersisted
<1> QED BY <1>2, <1>3 DEF EntertainmentInv

LEMMA EntertainmentInitially == EntertainmentInit => EntertainmentInv
<1> SUFFICES ASSUME EntertainmentInit PROVE EntertainmentInv
    OBVIOUS
<1>1. Sent \in AttemptState
  <2>1. 0 \in 0 .. MaxTaskRetries
      BY EntertainmentAssumption
  <2>2. [Sent EXCEPT !.tries = 0] \in AttemptState
      BY <2>1, SentIsAttempt
  <2>3. [Sent EXCEPT !.tries = 0] = Sent
      BY DEF Sent
  <2> QED BY <2>2, <2>3
<1>2. Sent.pc = "ready" /\ Sent.routed = {}
    BY DEF Sent
<1>3. attempts \in [Attempt -> AttemptState] /\ \A a \in Attempt : attempts[a] = Sent
    BY <1>1 DEF EntertainmentInit
<1>4. \A a \in Attempt : Informed(a)
    BY <1>2, <1>3 DEF Informed
<1>5. DOMAIN detections = {}
    BY DEF EntertainmentInit
<1> QED BY <1>3, <1>4, <1>5 DEF EntertainmentInit, EntertainmentInv

LEMMA EntertainmentStep == EntertainmentInv /\ [EntertainmentNext]_entertainmentVars => EntertainmentInv'
<1> SUFFICES ASSUME EntertainmentInv, [EntertainmentNext]_entertainmentVars PROVE EntertainmentInv'
    OBVIOUS
<1>1. CASE UNCHANGED entertainmentVars
    BY <1>1, NothingKeeps DEF entertainmentVars
<1>2. CASE CompanyLeaves
    BY <1>2, NothingKeeps DEF CompanyLeaves
<1>3. ASSUME NEW a \in Attempt, TaskStep(a) PROVE EntertainmentInv'
    BY <1>3, LoadKeeps, LinkInputKeeps, PersistKeeps, JudgeKeeps, Route1Keeps, SucceedKeeps DEF TaskStep
<1>4. ASSUME NEW a \in Attempt, GateCloses(a) \/ AnswerRejected(a) \/ TaskFails(a) \/ WorkerStops(a)
      PROVE  EntertainmentInv'
    BY <1>4, GateClosesKeeps, AnswerRejectedKeeps, TaskFailsKeeps, WorkerStopsKeeps
<1> QED BY <1>1, <1>2, <1>3, <1>4 DEF EntertainmentNext

LEMMA EntertainmentTyped == EntertainmentInv => EntertainmentTypeOK
<1> SUFFICES ASSUME EntertainmentInv PROVE EntertainmentTypeOK
    OBVIOUS
<1>1. \A l \in links : l.kind \in {"HESI_TO_OA", "CHILD_TO_PARENT", "BUSINESS_TO_SAP"}
    BY LinkKinds DEF EntertainmentInv
<1>2. \A a \in Attempt : /\ attempts[a].pc \in Ended \cup {"ready", "link", "persist", "evaluate", "route"}
                          /\ attempts[a].tries \in 0 .. MaxTaskRetries
    BY DEF EntertainmentInv, AttemptState
<1> QED BY <1>1, <1>2 DEF EntertainmentInv, EntertainmentTypeOK

LEMMA SuccessesAreOwn == EntertainmentInv => SuccessIsOwn
<1> SUFFICES ASSUME EntertainmentInv, NEW a \in Attempt, At(a, "SUCCEEDED")
             PROVE  DOMAIN detections = evaluations /\ \A e \in evaluations : detections[e] = attempts[a].judged[e]
    BY DEF SuccessIsOwn
<1>1. evaluations = Every /\ attempts[a].routed = Every /\ DOMAIN detections \subseteq evaluations
      /\ \A e \in attempts[a].routed : e \in DOMAIN detections /\ detections[e] = attempts[a].judged[e]
    BY DEF EntertainmentInv, Informed, At, AllPersisted
<1> QED BY <1>1

LEMMA StepKeepsJudgments ==
    [EntertainmentNext]_entertainmentVars =>
        /\ links \subseteq links' /\ evaluations \subseteq evaluations' /\ coverages \subseteq coverages'
        /\ \A e \in DOMAIN detections : e \in DOMAIN detections' /\ detections'[e] = detections[e]
<1> DEFINE Stay == /\ links \subseteq links' /\ evaluations \subseteq evaluations' /\ coverages \subseteq coverages'
                   /\ \A e \in DOMAIN detections : e \in DOMAIN detections' /\ detections'[e] = detections[e]
<1> SUFFICES ASSUME [EntertainmentNext]_entertainmentVars PROVE Stay
    OBVIOUS
<1>1. CASE UNCHANGED <<links, evaluations, coverages, detections>>
    BY <1>1
<1>2. ASSUME NEW a \in Attempt, LinkInput(a) PROVE Stay
    BY <1>2 DEF LinkInput, KeptLinks
<1>3. ASSUME NEW a \in Attempt, Persist(a) PROVE Stay
    BY <1>3 DEF Persist, KeptCoverages, KeptEvaluations
<1>4. ASSUME NEW a \in Attempt, Route1(a) PROVE Stay
  <2>1. \/ UNCHANGED detections
        \/ \E e, x : detections' = Extend(detections, e, x)
      BY <1>4 DEF Route1
  <2>2. UNCHANGED <<links, evaluations, coverages>>
      BY <1>4 DEF Route1
  <2> QED BY <2>1, <2>2 DEF Extend
<1> HIDE DEF Stay
<1>5. ASSUME NEW a \in Attempt,
             \/ Load(a) \/ Judge(a) \/ Succeed(a)
             \/ GateCloses(a) \/ AnswerRejected(a) \/ TaskFails(a) \/ WorkerStops(a)
      PROVE  UNCHANGED <<links, evaluations, coverages, detections>>
    BY <1>5 DEF Load, Judge, Succeed, GateCloses, AnswerRejected, TaskFails, WorkerStops
<1>6. CompanyLeaves => UNCHANGED <<links, evaluations, coverages, detections>>
    BY DEF CompanyLeaves
<1>7. UNCHANGED entertainmentVars => UNCHANGED <<links, evaluations, coverages, detections>>
    BY DEF entertainmentVars
<1> QED BY <1>1, <1>2, <1>3, <1>4, <1>5, <1>6, <1>7 DEF EntertainmentNext, TaskStep

\* Every document is evaluated once and no voucher counts twice, however attempts
\* overlap, fail and start again; a task that succeeds has routed its own labels,
\* and a label that was routed stays.
THEOREM EntertainmentIsSound == EntertainmentSpec => EntertainmentSound
<1>1. EntertainmentSpec => []EntertainmentInv
    BY EntertainmentInitially, EntertainmentStep, PTL DEF EntertainmentSpec
<1>2. EntertainmentInv => EntertainmentTypeOK /\ EveryPaperOnce /\ VouchersAccounted /\ SuccessIsOwn
    BY EntertainmentTyped, PapersOnce, VouchersOnce, SuccessesAreOwn
<1>3. EntertainmentSpec => JudgmentStays
  <2>1. [EntertainmentNext]_entertainmentVars =>
            [<<links, evaluations, coverages, detections>>' # <<links, evaluations, coverages, detections>> =>
                /\ links \subseteq links' /\ evaluations \subseteq evaluations' /\ coverages \subseteq coverages'
                /\ \A e \in DOMAIN detections : e \in DOMAIN detections' /\ detections'[e] = detections[e]]_entertainmentVars
      BY StepKeepsJudgments
  <2> QED BY <2>1, PTL DEF EntertainmentSpec, JudgmentStays
<1> QED BY <1>1, <1>2, <1>3, PTL DEF EntertainmentSound
=============================================================================
