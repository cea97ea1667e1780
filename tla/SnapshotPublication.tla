------------------------ MODULE SnapshotPublication ------------------------
(* The controlled data a monitoring run starts from: companies, ingest      *)
(* batches, tax masters, accounting snapshots and published snapshot sets   *)
(* (application/ingest.py, master_data.py and snapshots.py).  Requests run  *)
(* as transactions of concurrent clients: a transaction takes its advisory  *)
(* and row locks, reads and decides under them, and writes when it commits. *)
EXTENDS Naturals, FiniteSets

CONSTANTS Company,    \* company codes
          Period,     \* reporting periods, in order
          Batch,      \* ingest batches (source, source_batch_key)
          DatasetOf,  \* the dataset a batch is created for
          PeriodOf,   \* the period a batch is created for
          FilesOf,    \* the files a client may upload for a batch
          Metrics,    \* the required metrics of each snapshot profile
          Master,     \* tax master versions
          MasterOf,   \* their company, effective periods, company name, workbook
          Event,      \* rows of company master files
          SetKey,     \* keys of snapshot sets
          MinMembers, \* least number of companies of a set (100 in the code)
          Client,     \* concurrent requests
          Unknown,    \* the company of a rejected row that names none
          NoItem,     \* the metric of a rejected row that names none
          None        \* no name, no file, no superseded set

ASSUME SnapshotAssumption ==
  /\ Period \subseteq Nat /\ MinMembers \in Nat \ {0}
  /\ Unknown \notin Company /\ None \notin SetKey
  /\ DatasetOf \in [Batch -> {"quarterly_metric", "monthly_metric", "sap_detail", "entertainment"}]
  /\ PeriodOf \in [Batch -> Period]
  /\ \A v \in Master : MasterOf[v].company \in Company /\ MasterOf[v].periods \subseteq Period
  /\ \A u, v \in Master : u # v /\ MasterOf[u].workbook = MasterOf[v].workbook =>
       MasterOf[u].company # MasterOf[v].company \/ MasterOf[u].periods \cap MasterOf[v].periods = {}
  /\ \A e \in Event : e.company \in Company /\ e.at \in Nat \ {0} /\ e.active \in BOOLEAN

VARIABLES company, batch, master, snapshots, published, sets, projection, tx

vars == <<company, batch, master, snapshots, published, sets, projection, tx>>

Terminal == {"SUCCEEDED", "PARTIAL", "FAILED"}

Profile == {"QUARTERLY", "MONTHLY_SEMANTIC"}

\* The datasets a profile may select.
Allowed(profile) == IF profile = "QUARTERLY" THEN {"quarterly_metric"}
                                             ELSE {"monthly_metric", "sap_detail"}

----------------------------------------------------------------------------
(* Locks: a transaction holds some resources exclusively and some shared    *)
(* until it commits or rolls back.                                          *)

Idle == [x |-> {}, s |-> {}, write |-> [kind |-> "none"]]

BatchLock(B) == {<<"batch", b>> : b \in B}
CompanyLock(C) == {<<"company", c>> : c \in C}
ScopeLock(S) == {<<"scope", s.company, s.period>> : s \in S}

Available(x, s) == \A t \in Client : /\ x \cap (tx[t].x \cup tx[t].s) = {}
                                     /\ s \cap tx[t].x = {}

\* Client t holds its locks and will do write when it commits.
Begin(t, x, s, write) ==
  /\ tx[t] = Idle
  /\ Available(x, s)
  /\ tx' = [tx EXCEPT ![t] = [x |-> x, s |-> s, write |-> write]]
  /\ UNCHANGED <<company, batch, master, snapshots, published, sets, projection>>

Finish(t) == tx' = [tx EXCEPT ![t] = Idle]

\* The request is cut off, or a check under the locks refuses it.
Abort(t) ==
  /\ tx[t] # Idle
  /\ Finish(t)
  /\ UNCHANGED <<company, batch, master, snapshots, published, sets, projection>>

----------------------------------------------------------------------------
(* Companies and ingest batches.                                            *)

\* A row of a company master file: older and equal event times change nothing.
ApplyEvent(e) ==
  /\ Available(CompanyLock({e.company}), {})
  /\ e.at > company[e.company].at
  /\ company' = [company EXCEPT ![e.company] =
                   [active |-> e.active, name |-> e.name, at |-> e.at]]
  /\ UNCHANGED <<batch, master, snapshots, published, sets, projection, tx>>

Accepted(f) == {r \in f.good : company[r.company].active}

\* A rejected detail row keeps its company in the error, a metric row also its metric.
Rejected(b, f) ==
  f.bad \cup {[company |-> r.company,
               item |-> IF DatasetOf[b] \in {"sap_detail", "entertainment"} THEN NoItem ELSE r.item] :
              r \in f.good \ Accepted(f)}

\* Mutant: a file with a bad header leaves its batch in validation.
MutResult(b, f) ==
  [status |-> IF ~f.readable THEN "VALIDATING" ELSE IF Rejected(b, f) = {} THEN "SUCCEEDED" ELSE "PARTIAL",
   file |-> f, rows |-> Accepted(f), errors |-> Rejected(b, f)]

Result(b, f) ==
  IF ~f.readable
  THEN [status |-> "FAILED", file |-> f, rows |-> {}, errors |-> {[company |-> Unknown, item |-> NoItem]}]
  ELSE [status |-> IF Accepted(f) = {} THEN "FAILED"
                   ELSE IF Rejected(b, f) = {} THEN "SUCCEEDED" ELSE "PARTIAL",
        file |-> f, rows |-> Accepted(f), errors |-> Rejected(b, f)]

BeginIngest(t, b, f) ==
  /\ batch[b].status = "RECEIVED"
  /\ Begin(t, BatchLock({b}), CompanyLock({r.company : r \in f.good}),
           [kind |-> "ingest", batch |-> b, result |-> Result(b, f)])

CommitIngest(t) ==
  /\ tx[t].write.kind = "ingest"
  /\ batch' = [batch EXCEPT ![tx[t].write.batch] = tx[t].write.result]
  /\ Finish(t)
  /\ UNCHANGED <<company, master, snapshots, published, sets, projection>>

\* Processing raises: the file's transaction is rolled back, and a second
\* transaction is to mark the batch.
ProcessingFails(t) ==
  /\ tx[t].write.kind = "ingest"
  /\ tx' = [tx EXCEPT ![t] = [x |-> {}, s |-> {},
                              write |-> [kind |-> "audit", batch |-> tx[t].write.batch]]]
  /\ UNCHANGED <<company, batch, master, snapshots, published, sets, projection>>

\* Mutant: the second transaction does not look at the batch again.
MutAudited(s) == [s EXCEPT !.status = "FAILED"]

\* What the second transaction makes of a batch.
Audited(s) == IF s.status \in Terminal THEN s ELSE [s EXCEPT !.status = "FAILED"]

AuditFailure(t) ==
  /\ tx[t].write.kind = "audit"
  /\ LET b == tx[t].write.batch
     IN /\ Available(BatchLock({b}), {})
        /\ batch' = [batch EXCEPT ![b] = Audited(batch[b])]
  /\ Finish(t)
  /\ UNCHANGED <<company, master, snapshots, published, sets, projection>>

----------------------------------------------------------------------------
(* Tax masters.                                                             *)

\* A workbook is imported whole or not at all, and its outcome is kept.
ImportMasters(w) ==
  LET versions == {v \in Master : MasterOf[v].workbook = w}
      fits(v) == LET c == company[MasterOf[v].company] IN c.active /\ c.name = MasterOf[v].name
  IN /\ \A v \in versions : master[v] = "ABSENT"
     /\ Available({}, CompanyLock({MasterOf[v].company : v \in versions}))
     /\ master' = [v \in Master |->
                     IF v \notin versions THEN master[v]
                     ELSE IF \A u \in versions : fits(u) THEN "DRAFT" ELSE "FAILED"]
     /\ UNCHANGED <<company, batch, snapshots, published, sets, projection, tx>>

Overlap(u, v) == /\ MasterOf[u].company = MasterOf[v].company
                 /\ MasterOf[u].periods \cap MasterOf[v].periods # {}

\* Mutant: an approval takes the company lock shared.
MutApproveLock(v) == [x |-> {}, s |-> CompanyLock({MasterOf[v].company})]

\* The company lock of an approval, exclusive.
ApproveLock(v) == [x |-> CompanyLock({MasterOf[v].company}), s |-> {}]

BeginApprove(t, v) ==
  /\ master[v] = "DRAFT"
  /\ company[MasterOf[v].company].active
  /\ company[MasterOf[v].company].name = MasterOf[v].name
  /\ ~ \E u \in Master : master[u] = "PUBLISHED" /\ Overlap(u, v)
  /\ Begin(t, ApproveLock(v).x \cup {<<"master", v>>}, ApproveLock(v).s,
           [kind |-> "approve", master |-> v])

CommitApprove(t) ==
  /\ tx[t].write.kind = "approve"
  /\ master' = [master EXCEPT ![tx[t].write.master] = "PUBLISHED"]
  /\ Finish(t)
  /\ UNCHANGED <<company, batch, snapshots, published, sets, projection>>

\* The published versions of a company that are effective in a period.
Effective(c, p) == {v \in Master : /\ master[v] = "PUBLISHED"
                                   /\ MasterOf[v].company = c
                                   /\ p \in MasterOf[v].periods}

----------------------------------------------------------------------------
(* Snapshots.                                                               *)

\* The rows of a batch that count for a company under a profile.
Contribution(b, c, profile) ==
  {r \in batch[b].rows : /\ r.company = c
                         /\ r.item \in Metrics[profile] \/ profile = "MONTHLY_SEMANTIC"}

\* Mutant: rejected rows without a company are taken for another company's.
MutSafe(b, c, profile) ==
  \A e \in batch[b].errors : e.company # c \/ e.item \notin Metrics[profile] \cup {NoItem}

\* Every rejected row belongs to another company or to a metric nobody requires.
Safe(b, c, profile) ==
  \A e \in batch[b].errors : \/ e.company \in Company \ {c}
                             \/ e.company = c /\ e.item \notin Metrics[profile] \cup {NoItem}

Ready(b, c, p, profile) ==
  /\ DatasetOf[b] \in Allowed(profile)
  /\ PeriodOf[b] = p
  /\ \/ batch[b].status = "SUCCEEDED"
     \/ batch[b].status = "PARTIAL" /\ Safe(b, c, profile)
  /\ Contribution(b, c, profile) # {}

RowsOf(c, profile, B) == UNION {{<<b, r>> : r \in Contribution(b, c, profile)} : b \in B}

Quality(c, p, profile, B) ==
  /\ company[c].active
  /\ B # {} /\ \A b \in B : Ready(b, c, p, profile)
  /\ \A m \in Metrics[profile] :
       Cardinality({br \in RowsOf(c, profile, B) : br[2].item = m}) = 1
  /\ Cardinality(Effective(c, p)) = 1

\* What is frozen of a company, a period and a choice of batches.
Freeze(c, p, profile, B) ==
  [company |-> c, period |-> p, profile |-> profile, sources |-> B,
   rows |-> RowsOf(c, profile, B), master |-> CHOOSE v \in Effective(c, p) : TRUE,
   name |-> company[c].name]

\* The identity of a snapshot: its source version set; the name is not part of it.
SameVersions(s, u) == [s EXCEPT !.name = None] = [u EXCEPT !.name = None]

\* The snapshot still is what its sources, master and company give now.
Unchanged(s) ==
  /\ Quality(s.company, s.period, s.profile, s.sources)
  /\ Freeze(s.company, s.period, s.profile, s.sources) = s

BeginValidate(t, c, p, profile, B) ==
  /\ Quality(c, p, profile, B)
  /\ LET s == Freeze(c, p, profile, B)
     IN /\ ~ \E u \in snapshots : SameVersions(s, u)
        /\ Begin(t, BatchLock(B) \cup ScopeLock({s}), CompanyLock({c}),
                 [kind |-> "validate", snapshot |-> s])

CommitValidate(t) ==
  /\ tx[t].write.kind = "validate"
  /\ snapshots' = snapshots \cup {tx[t].write.snapshot}
  /\ Finish(t)
  /\ UNCHANGED <<company, batch, master, published, sets, projection>>

BeginPublish(t, s) ==
  /\ s \in snapshots \ published
  /\ Unchanged(s)
  /\ Begin(t, BatchLock(s.sources) \cup ScopeLock({s}), CompanyLock({s.company}),
           [kind |-> "publish", snapshot |-> s])

CommitPublish(t) ==
  /\ tx[t].write.kind = "publish"
  /\ published' = published \cup {tx[t].write.snapshot}
  /\ Finish(t)
  /\ UNCHANGED <<company, batch, master, snapshots, sets, projection>>

----------------------------------------------------------------------------
(* Snapshot sets.                                                           *)

\* A key that has no set yet.
NoSet == [period |-> None, members |-> {}, supersedes |-> None]

Used(k) == sets[k] # NoSet

\* Mutant: a snapshot counts as published once it has a projection.
MutAlreadyPublished(s) == \E so \in projection : so[1] = s

\* A snapshot that appeared in a published set keeps its projections.
AlreadyPublished(s) == \E k \in SetKey : Used(k) /\ s \in sets[k].members

\* The SAP observations a snapshot is given: a monthly one those of its own
\* detail batches, a quarterly one every entertainment voucher of the year to date.
Observations(s) ==
  UNION {{<<b, r>> : r \in {r \in batch[b].rows : r.company = s.company}} :
         b \in IF s.profile = "MONTHLY_SEMANTIC"
               THEN {b \in s.sources : DatasetOf[b] = "sap_detail"}
               ELSE {b \in Batch : DatasetOf[b] = "entertainment" /\ PeriodOf[b] <= s.period}}

\* Mutant: a set publication leaves the companies unlocked.
MutSetCompanies(M) == {}

\* The companies a set publication keeps under a shared lock.
SetCompanies(M) == {s.company : s \in M}

BeginPublishSet(t, k, p, M, old) ==
  /\ ~Used(k)
  /\ Cardinality(M) >= MinMembers
  /\ \A s, u \in M : s.company = u.company => s = u
  /\ \A s \in M : s \in published /\ s.period = p /\ Unchanged(s)
  /\ old # None => Used(old) /\ sets[old].period = p
  /\ Begin(t, {<<"set", k>>} \cup ScopeLock(M) \cup BatchLock(UNION {s.sources : s \in M}),
           CompanyLock(SetCompanies(M)),
           [kind |-> "publish_set", key |-> k,
            set |-> [period |-> p, members |-> M, supersedes |-> old],
            projects |-> UNION {{s} \X Observations(s) : s \in {s \in M : ~AlreadyPublished(s)}}])

CommitPublishSet(t) ==
  /\ tx[t].write.kind = "publish_set"
  /\ sets' = [sets EXCEPT ![tx[t].write.key] = tx[t].write.set]
  /\ projection' = projection \cup tx[t].write.projects
  /\ Finish(t)
  /\ UNCHANGED <<company, batch, master, snapshots, published>>

----------------------------------------------------------------------------

\* create_batch is idempotent on the source key and reads nothing: every batch is created.
Init ==
  /\ company = [c \in Company |-> [active |-> FALSE, name |-> None, at |-> 0]]
  /\ batch = [b \in Batch |-> [status |-> "RECEIVED", file |-> None, rows |-> {}, errors |-> {}]]
  /\ master = [v \in Master |-> "ABSENT"]
  /\ snapshots = {} /\ published = {}
  /\ sets = [k \in SetKey |-> NoSet]
  /\ projection = {}
  /\ tx = [t \in Client |-> Idle]

\* A client takes up a request.
Request(t) ==
  /\ tx[t] = Idle
  /\ \/ \E b \in Batch : \E f \in FilesOf[b] : BeginIngest(t, b, f)
     \/ \E v \in Master : BeginApprove(t, v)
     \/ \E c \in Company, p \in Period, profile \in Profile :
          \E B \in SUBSET {b \in Batch : Ready(b, c, p, profile)} : BeginValidate(t, c, p, profile, B)
     \/ \E s \in snapshots : BeginPublish(t, s)
     \/ \E k \in SetKey, p \in Period, M \in SUBSET published, old \in SetKey \cup {None} :
          BeginPublishSet(t, k, p, M, old)

Next ==
  \/ \E e \in Event : ApplyEvent(e)
  \/ \E v \in Master : ImportMasters(MasterOf[v].workbook)
  \/ \E t \in Client :
       \/ Request(t)
       \/ CommitIngest(t) \/ ProcessingFails(t) \/ AuditFailure(t)
       \/ CommitApprove(t) \/ CommitValidate(t) \/ CommitPublish(t) \/ CommitPublishSet(t)
       \/ Abort(t)

Spec == Init /\ [][Next]_vars

----------------------------------------------------------------------------
(* Properties.                                                              *)

\* The state is well formed: a batch ends with one file's rows and errors, a
\* published snapshot is a validated one, a set has distinct companies of one
\* period, and only members of sets have projections.
TypeOK ==
  /\ \A c \in Company : company[c].active \in BOOLEAN /\ company[c].at \in Nat
  /\ \A b \in Batch : /\ batch[b].status \in Terminal \cup {"RECEIVED"}
                      /\ batch[b].rows # {} => batch[b].file \in FilesOf[b]
  /\ master \in [Master -> {"ABSENT", "DRAFT", "PUBLISHED", "FAILED"}]
  /\ published \subseteq snapshots
  /\ \A k \in SetKey : Used(k) =>
       /\ sets[k].period \in Period /\ sets[k].supersedes \in SetKey \cup {None}
       /\ Cardinality({s.company : s \in sets[k].members}) = Cardinality(sets[k].members)
  /\ \A so \in projection : \E k \in SetKey : Used(k) /\ so[1] \in sets[k].members

\* master_data.py approve: published versions of a company never overlap,
\* whoever approves what at the same time.
MastersDisjoint ==
  \A u, v \in Master : u # v /\ master[u] = "PUBLISHED" /\ master[v] = "PUBLISHED" => ~Overlap(u, v)

\* ingest.py: once a batch is terminal, no upload, retry or failure report of
\* another request changes its status, its rows or its errors.
BatchFinal ==
  [][\A b \in Batch : batch[b].status \in Terminal => batch'[b] = batch[b]]_vars

\* snapshots.py validate: a snapshot counts every row of its sources' files that
\* may be one of its company's required metrics, read or rejected, each metric
\* once; a row that was rejected for whatever reason is never silently missing.
SnapshotsBacked ==
  \A s \in snapshots :
    /\ \A m \in Metrics[s.profile] : Cardinality({br \in s.rows : br[2].item = m}) = 1
    /\ \A b \in s.sources :
         /\ \A r \in batch[b].file.good :
              r.company = s.company /\ r.item \in Metrics[s.profile] => <<b, r>> \in s.rows
         /\ \A e \in batch[b].file.bad :
              e.company # Unknown /\ (e.company = s.company => e.item \notin Metrics[s.profile] \cup {NoItem})

\* snapshots.py publish_set: at the moment a set appears, each member is
\* published and its company is active under the name the snapshot froze, with
\* the frozen master as its only effective one, whatever ran since the checks.
SetMembersControlled ==
  [][\A k \in SetKey : ~Used(k) /\ sets'[k] # NoSet =>
       \A s \in sets'[k].members :
         /\ s \in published
         /\ company[s.company].active /\ company[s.company].name = s.name
         /\ Effective(s.company, s.period) = {s.master}]_vars

\* snapshots.py publish_set: a snapshot of a published set gains no observation
\* afterwards, by no later set and whatever is ingested, superseded or not.
ProjectionFrozen ==
  [][\A k \in SetKey : Used(k) =>
       \A s \in sets[k].members :
         {so \in projection' : so[1] = s} = {so \in projection : so[1] = s}]_vars

\* What is published rests on sources and masters that agree, whoever publishes
\* what at the same time.
PublicationSound == TypeOK /\ MastersDisjoint /\ SnapshotsBacked

\* What is terminal or published stays what it was, and a set is published on
\* what holds at that moment.
PublishedStays == BatchFinal /\ SetMembersControlled /\ ProjectionFrozen
=============================================================================
