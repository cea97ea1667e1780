--------------------- MODULE SnapshotPublicationProofs ---------------------
(***************************************************************************)
(* Proofs about SnapshotPublication, for any companies, periods, batches   *)
(* and files, masters, set keys and number of concurrent clients; and      *)
(* about MasterWorkbook, for any files, limits, people and companies.      *)
(***************************************************************************)
EXTENDS SnapshotPublication, MasterWorkbook, FiniteSetTheorems, WellFoundedInduction, TLAPS

-----------------------------------------------------------------------------
(* The inductive invariant.  The state is sound as it stands, and what a    *)
(* transaction decided is still true when it writes: the locks it holds     *)
(* keep everybody away who could make it false.                             *)

PublishedMasters == {v \in Master : master[v] = "PUBLISHED"}

\* A batch row: what is neither read nor rejected is in no file.
Accounted(r) ==
  r.status \in {"SUCCEEDED", "PARTIAL"} =>
    /\ r.file.bad \subseteq r.errors
    /\ \A g \in r.file.good \ r.rows :
         \E e \in r.errors : e.company = g.company /\ e.item \in {g.item, NoItem}
    /\ r.status = "SUCCEEDED" => r.errors = {}

BatchRowOK(b, r) ==
  /\ r = [status |-> r.status, file |-> r.file, rows |-> r.rows, errors |-> r.errors]
  /\ r.status \in Terminal \cup {"RECEIVED"}
  /\ r.rows # {} => r.file \in FilesOf[b]
  /\ Accounted(r)

\* A snapshot counts all that its terminal sources have for it.
Backed(s) ==
  /\ \A m \in Metrics[s.profile] : Cardinality({br \in s.rows : br[2].item = m}) = 1
  /\ \A b \in s.sources :
       /\ \A r \in batch[b].file.good :
            r.company = s.company /\ r.item \in Metrics[s.profile] => <<b, r>> \in s.rows
       /\ \A e \in batch[b].file.bad :
            e.company # Unknown /\ (e.company = s.company => e.item \notin Metrics[s.profile] \cup {NoItem})

SnapshotOK(s) ==
  /\ s.company \in Company
  /\ \A b \in s.sources : b \in Batch /\ batch[b].status \in Terminal
  /\ Backed(s)

\* A member of a set as its publication checks it.
Current(s) ==
  /\ company[s.company].active /\ company[s.company].name = s.name
  /\ Effective(s.company, s.period) = {s.master}

SetOK(set) ==
  /\ set # NoSet
  /\ set.period \in Period /\ set.supersedes \in SetKey \cup {None}
  /\ Cardinality({s.company : s \in set.members}) = Cardinality(set.members)

\* What a write rests on, given the locks its transaction holds.
IngestReady(x, w) ==
  /\ w.batch \in Batch /\ <<"batch", w.batch>> \in x
  /\ batch[w.batch].status = "RECEIVED"
  /\ BatchRowOK(w.batch, w.result)

ApproveReady(x, w) ==
  /\ w.master \in Master /\ <<"company", MasterOf[w.master].company>> \in x
  /\ \A u \in Master : master[u] = "PUBLISHED" => ~Overlap(u, w.master)

SetReady(x, s, w) ==
  /\ w.key \in SetKey /\ <<"set", w.key>> \in x /\ ~Used(w.key)
  /\ SetOK(w.set) /\ w.set.members \subseteq published
  /\ \A m \in w.set.members :
       /\ <<"company", m.company>> \in s /\ <<"scope", m.company, m.period>> \in x
       /\ Current(m)
  /\ \A so \in w.projects : so[1] \in w.set.members /\ ~AlreadyPublished(so[1])

WriteReady(x, s, w) ==
  /\ w.kind = "ingest" => IngestReady(x, w)
  /\ w.kind = "audit" => w.batch \in Batch
  /\ w.kind = "approve" => ApproveReady(x, w)
  /\ w.kind = "validate" => SnapshotOK(w.snapshot)
  /\ w.kind = "publish" => w.snapshot \in snapshots
  /\ w.kind = "publish_set" => SetReady(x, s, w)

Shape ==
  /\ tx = [t \in Client |-> tx[t]] /\ company = [c \in Company |-> company[c]]
  /\ batch = [b \in Batch |-> batch[b]] /\ sets = [k \in SetKey |-> sets[k]]
  /\ master \in [Master -> {"ABSENT", "DRAFT", "PUBLISHED", "FAILED"}]
  /\ IsFiniteSet(PublishedMasters) /\ IsFiniteSet(published)

CompaniesOK == \A c \in Company : company[c].active \in BOOLEAN /\ company[c].at \in Nat

BatchesOK == \A b \in Batch : BatchRowOK(b, batch[b])

SnapshotsOK == published \subseteq snapshots /\ \A s \in snapshots : SnapshotOK(s)

SetsOK == /\ \A k \in SetKey : Used(k) => SetOK(sets[k])
          /\ \A so \in projection : AlreadyPublished(so[1])

LocksExclusive == \A t, u \in Client : t # u => tx[t].x \cap (tx[u].x \cup tx[u].s) = {}

WritesReady == \A t \in Client : WriteReady(tx[t].x, tx[t].s, tx[t].write)

State == Shape /\ CompaniesOK /\ BatchesOK /\ MastersDisjoint /\ SnapshotsOK /\ SetsOK

IInv == State /\ LocksExclusive /\ WritesReady

-----------------------------------------------------------------------------
(* Facts about the operators.                                              *)

\* A step of one client leaves the other transactions as they are.
LEMMA OneClient ==
  ASSUME Shape, NEW t \in Client, NEW e, tx' = [tx EXCEPT ![t] = e]
  PROVE  /\ tx' = [u \in Client |-> tx'[u]] /\ tx'[t] = e
         /\ \A u \in Client : u # t => tx'[u] = tx[u]
  BY DEF Shape

\* Overlapping is mutual.
LEMMA OverlapMutual == ASSUME NEW u, NEW v, Overlap(u, v) PROVE Overlap(v, u)
  BY DEF Overlap

\* The sound state does not depend on who holds which lock.
LEMMA StateKept ==
  ASSUME State, tx' = [u \in Client |-> tx'[u]],
         UNCHANGED <<company, batch, master, snapshots, published, sets, projection>>
  PROVE  State'
<1>1. Shape'
  BY DEF State, Shape, PublishedMasters
<1>2. CompaniesOK' /\ BatchesOK' /\ MastersDisjoint'
  BY DEF State, CompaniesOK, BatchesOK, MastersDisjoint
<1>3. SnapshotsOK'
  BY DEF State, SnapshotsOK, SnapshotOK, Backed
<1>4. SetsOK'
  BY DEF State, SetsOK, SetOK, Used, AlreadyPublished
<1> QED
  BY <1>1, <1>2, <1>3, <1>4 DEF State

-----------------------------------------------------------------------------
(* How transactions begin and end.                                         *)

\* A transaction that starts with a decision that holds, under locks nobody
\* else has, leaves the invariant true.
LEMMA Begins ==
  ASSUME IInv, NEW t \in Client, NEW x, NEW s, NEW w, Begin(t, x, s, w), WriteReady(x, s, w)
  PROVE  IInv'
<1>1. /\ tx' = [u \in Client |-> tx'[u]] /\ tx'[t] = [x |-> x, s |-> s, write |-> w]
      /\ \A u \in Client : u # t => tx'[u] = tx[u]
  BY OneClient DEF IInv, State, Begin
<1>2. UNCHANGED <<company, batch, master, snapshots, published, sets, projection>>
  BY DEF Begin
<1>3. State'
  BY <1>1, <1>2, StateKept DEF IInv
<1>4. LocksExclusive'
  BY <1>1 DEF IInv, LocksExclusive, Begin, Available
<1>5. ASSUME NEW y, NEW r, NEW v, WriteReady(y, r, v) PROVE WriteReady(y, r, v)'
  BY <1>2, <1>5 DEF WriteReady, IngestReady, BatchRowOK, Accounted, ApproveReady, SnapshotOK, Backed, SetReady,
     SetOK, Used, AlreadyPublished, Current, Effective
<1>6. ASSUME NEW u \in Client, u # t PROVE WriteReady(tx[u].x, tx[u].s, tx[u].write)'
  <2>1. WriteReady(tx[u].x, tx[u].s, tx[u].write) /\ tx'[u] = tx[u]
    BY <1>1, <1>6 DEF IInv, WritesReady
  <2> QED
    BY <2>1, <1>5
<1> QED
  BY <1>1, <1>3, <1>4, <1>5, <1>6 DEF IInv, WritesReady

\* The step leaves alone what a write rests on.
Undisturbed(w) ==
  /\ w.kind = "ingest" => batch'[w.batch] = batch[w.batch]
  /\ w.kind = "approve" => \A v \in Master :
       master'[v] = "PUBLISHED" => master[v] = "PUBLISHED" \/ ~Overlap(v, w.master)
  /\ w.kind = "publish_set" =>
       /\ sets'[w.key] = sets[w.key]
       /\ \A m \in w.set.members : Current(m)'
       /\ \A so \in w.projects : ~AlreadyPublished(so[1])'

\* What is undisturbed is ready afterwards, if the rest only grows.
LEMMA ReadyKept ==
  ASSUME IInv, NEW u \in Client, tx'[u] = tx[u], Undisturbed(tx[u].write),
         \A b \in Batch : batch[b].status \in Terminal => batch'[b] = batch[b],
         snapshots \subseteq snapshots', published \subseteq published'
  PROVE  WriteReady(tx[u].x, tx[u].s, tx[u].write)'
<1>1. WriteReady(tx[u].x, tx[u].s, tx[u].write)
  BY DEF IInv, WritesReady
<1>2. tx[u].write.kind = "ingest" => IngestReady(tx[u].x, tx[u].write)'
  BY <1>1 DEF Undisturbed, WriteReady, IngestReady, BatchRowOK, Accounted
<1>3. tx[u].write.kind = "approve" => ApproveReady(tx[u].x, tx[u].write)'
  BY <1>1 DEF Undisturbed, WriteReady, ApproveReady, Overlap
<1>4. tx[u].write.kind = "validate" => SnapshotOK(tx[u].write.snapshot)'
  <2>1. \A y : SnapshotOK(y) => SnapshotOK(y)'
    BY DEF SnapshotOK, Backed
  <2> QED
    BY <1>1, <2>1 DEF WriteReady
<1>5. tx[u].write.kind = "publish_set" => SetReady(tx[u].x, tx[u].s, tx[u].write)'
  BY <1>1 DEF Undisturbed, WriteReady, SetReady, SetOK, Used
<1> QED
  BY <1>1, <1>2, <1>3, <1>4, <1>5 DEF WriteReady

\* The transaction of t ends, or goes on as the one that audits.
EndsOrAudits(t) ==
  /\ tx'[t].x = {} /\ tx'[t].s = {} /\ tx'[t].write.kind \in {"none", "audit"}
  /\ tx'[t].write.kind = "audit" => tx'[t].write.batch \in Batch
  /\ \A u \in Client : u # t => tx'[u] = tx[u]

LEMMA Finishes ==
  ASSUME Shape, NEW t \in Client, Finish(t)
  PROVE  tx' = [u \in Client |-> tx'[u]] /\ EndsOrAudits(t)
<1> DEFINE e == [x |-> {}, s |-> {}, write |-> [kind |-> "none"]]
<1>1. tx' = [tx EXCEPT ![t] = e]
  BY DEF Finish, Idle
<1>2. e.x = {} /\ e.s = {} /\ e.write.kind = "none"
  OBVIOUS
<1> HIDE DEF e
<1>3. /\ tx' = [u \in Client |-> tx'[u]] /\ tx'[t] = e
      /\ \A u \in Client : u # t => tx'[u] = tx[u]
  BY <1>1, OneClient
<1> QED
  BY <1>2, <1>3 DEF EndsOrAudits

\* A transaction ends, or goes on as the one that audits: its locks are gone,
\* and what the others decided is not touched.
LEMMA Ends ==
  ASSUME IInv, State', NEW t \in Client, EndsOrAudits(t),
         \A b \in Batch : batch[b].status \in Terminal => batch'[b] = batch[b],
         snapshots \subseteq snapshots', published \subseteq published',
         \A u \in Client : u # t => Undisturbed(tx[u].write)
  PROVE  IInv'
<1>1. /\ tx'[t].x = {} /\ tx'[t].s = {} /\ tx'[t].write.kind \in {"none", "audit"}
      /\ tx'[t].write.kind = "audit" => tx'[t].write.batch \in Batch
      /\ \A u \in Client : u # t => tx'[u] = tx[u]
  BY DEF EndsOrAudits
<1>2. LocksExclusive'
  BY <1>1 DEF IInv, LocksExclusive
<1>3. WriteReady(tx[t].x, tx[t].s, tx[t].write)'
  BY <1>1 DEF WriteReady
<1>4. \A u \in Client : u # t => WriteReady(tx[u].x, tx[u].s, tx[u].write)'
  BY <1>1, ReadyKept
<1>5. WritesReady'
  BY <1>3, <1>4 DEF WritesReady
<1> QED
  BY <1>2, <1>5 DEF IInv

-----------------------------------------------------------------------------
(* What is decided under the locks.                                        *)

\* An upload accounts for every row of its file.
LEMMA ResultAccounts ==
  ASSUME NEW b \in Batch, NEW f \in FilesOf[b]
  PROVE  BatchRowOK(b, Result(b, f))
<1>1. CASE ~f.readable
  BY <1>1 DEF BatchRowOK, Accounted, Result, Terminal
<1>2. CASE f.readable
  <2>1. ASSUME NEW g \in f.good \ Accepted(f)
        PROVE  \E e \in Rejected(b, f) : e.company = g.company /\ e.item \in {g.item, NoItem}
    <3> DEFINE e == [company |-> g.company,
                     item |-> IF DatasetOf[b] \in {"sap_detail", "entertainment"} THEN NoItem ELSE g.item]
    <3>1. e \in Rejected(b, f)
      BY DEF Rejected
    <3>2. e.company = g.company /\ e.item \in {g.item, NoItem}
      OBVIOUS
    <3> HIDE DEF e
    <3> QED
      BY <3>1, <3>2
  <2>2. f.bad \subseteq Rejected(b, f)
    BY DEF Rejected
  <2> QED
    BY <1>2, <2>1, <2>2 DEF BatchRowOK, Accounted, Result, Terminal
<1> QED
  BY <1>1, <1>2

\* A snapshot of ready batches counts all rows that could be its company's.
LEMMA FreezeBacked ==
  ASSUME BatchesOK, NEW c \in Company, NEW p, NEW profile, NEW B \in SUBSET Batch,
         Quality(c, p, profile, B)
  PROVE  SnapshotOK(Freeze(c, p, profile, B))
<1> DEFINE s == Freeze(c, p, profile, B)
<1>1. s.company = c /\ s.profile = profile /\ s.sources = B /\ s.rows = RowsOf(c, profile, B)
  BY DEF Freeze
<1>2. \A m \in Metrics[profile] : Cardinality({br \in RowsOf(c, profile, B) : br[2].item = m}) = 1
  BY DEF Quality
<1>3. ASSUME NEW b \in B
      PROVE  /\ batch[b].status \in Terminal
             /\ \A r \in batch[b].file.good :
                  r.company = c /\ r.item \in Metrics[profile] => <<b, r>> \in RowsOf(c, profile, B)
             /\ \A e \in batch[b].file.bad :
                  e.company # Unknown /\ (e.company = c => e.item \notin Metrics[profile] \cup {NoItem})
  <2>1. /\ batch[b].status \in {"SUCCEEDED", "PARTIAL"}
        /\ batch[b].status = "PARTIAL" => Safe(b, c, profile)
    BY DEF Quality, Ready
  <2>2. Accounted(batch[b])
    BY DEF BatchesOK, BatchRowOK
  <2>3. \A e \in batch[b].errors :
          e.company # Unknown /\ (e.company = c => e.item \notin Metrics[profile] \cup {NoItem})
    BY <2>1, <2>2, SnapshotAssumption DEF Accounted, Safe
  <2>4. ASSUME NEW r \in batch[b].file.good, r.company = c, r.item \in Metrics[profile]
        PROVE  <<b, r>> \in RowsOf(c, profile, B)
    <3>1. r \in batch[b].rows
      BY <2>1, <2>2, <2>3, <2>4 DEF Accounted
    <3> QED
      BY <3>1, <2>4 DEF RowsOf, Contribution
  <2> QED
    BY <2>1, <2>2, <2>3, <2>4 DEF Accounted, Terminal
<1> HIDE DEF s
<1> QED
  BY <1>1, <1>2, <1>3 DEF SnapshotOK, Backed, s

\* A snapshot that is unchanged has the only effective master, and its company's name.
LEMMA UnchangedIsCurrent ==
  ASSUME IsFiniteSet(PublishedMasters), NEW s, Unchanged(s)
  PROVE  Current(s)
<1> DEFINE E == Effective(s.company, s.period)
<1>1. Cardinality(E) = 1 /\ company[s.company].active
  BY DEF Unchanged, Quality
<1>2. IsFiniteSet(E)
  <2>1. E \in SUBSET PublishedMasters
    BY DEF Effective, PublishedMasters
  <2> QED
    BY <2>1, FS_Subset
<1>3. s.name = company[s.company].name /\ s.master = CHOOSE v \in E : TRUE
  BY DEF Unchanged, Freeze
<1> HIDE DEF E
<1>4. PICK v : E = {v}
  BY <1>1, <1>2, FS_Singleton
<1>5. E = {s.master}
  BY <1>3, <1>4
<1> QED
  BY <1>1, <1>3, <1>5 DEF Current, E

-----------------------------------------------------------------------------
(* Every step keeps the invariant: requests.                               *)

LEMMA RequestStep == ASSUME IInv, NEW t \in Client, Request(t) PROVE IInv'
<1>1. ASSUME NEW b \in Batch, NEW f \in FilesOf[b], BeginIngest(t, b, f) PROVE IInv'
  <2> DEFINE x == BatchLock({b})
             s == CompanyLock({r.company : r \in f.good})
             w == [kind |-> "ingest", batch |-> b, result |-> Result(b, f)]
  <2>1. Begin(t, x, s, w)
    BY <1>1 DEF BeginIngest
  <2>2. IngestReady(x, w)
    BY <1>1, ResultAccounts DEF BeginIngest, IngestReady, BatchLock
  <2>3. w.kind = "ingest"
    OBVIOUS
  <2> HIDE DEF x, s, w
  <2>4. WriteReady(x, s, w)
    BY <2>2, <2>3 DEF WriteReady
  <2> QED
    BY <2>1, <2>4, Begins
<1>2. ASSUME NEW v \in Master, BeginApprove(t, v) PROVE IInv'
  <2> DEFINE x == ApproveLock(v).x \cup {<<"master", v>>}
             s == ApproveLock(v).s
             w == [kind |-> "approve", master |-> v]
  <2>1. Begin(t, x, s, w)
    BY <1>2 DEF BeginApprove
  <2>2. ApproveReady(x, w)
    BY <1>2 DEF BeginApprove, ApproveReady, ApproveLock, CompanyLock
  <2>3. w.kind = "approve"
    OBVIOUS
  <2> HIDE DEF x, s, w
  <2>4. WriteReady(x, s, w)
    BY <2>2, <2>3 DEF WriteReady
  <2> QED
    BY <2>1, <2>4, Begins
<1>3. ASSUME NEW c \in Company, NEW p \in Period, NEW profile \in Profile,
             NEW B \in SUBSET Batch, BeginValidate(t, c, p, profile, B)
      PROVE  IInv'
  <2> DEFINE snapshot == Freeze(c, p, profile, B)
             x == BatchLock(B) \cup ScopeLock({snapshot})
             s == CompanyLock({c})
             w == [kind |-> "validate", snapshot |-> snapshot]
  <2>1. Begin(t, x, s, w)
    BY <1>3 DEF BeginValidate
  <2>2. SnapshotOK(snapshot)
    BY <1>3, FreezeBacked DEF BeginValidate, IInv, State
  <2> HIDE DEF snapshot
  <2>3. w.kind = "validate" /\ w.snapshot = snapshot
    OBVIOUS
  <2> HIDE DEF x, s, w
  <2>4. WriteReady(x, s, w)
    BY <2>2, <2>3 DEF WriteReady
  <2> QED
    BY <2>1, <2>4, Begins
<1>4. ASSUME NEW snapshot \in snapshots, BeginPublish(t, snapshot) PROVE IInv'
  <2> DEFINE x == BatchLock(snapshot.sources) \cup ScopeLock({snapshot})
             s == CompanyLock({snapshot.company})
             w == [kind |-> "publish", snapshot |-> snapshot]
  <2>1. Begin(t, x, s, w)
    BY <1>4 DEF BeginPublish
  <2>2. w.kind = "publish" /\ w.snapshot \in snapshots
    OBVIOUS
  <2> HIDE DEF x, s, w
  <2>3. WriteReady(x, s, w)
    BY <2>2 DEF WriteReady
  <2> QED
    BY <2>1, <2>3, Begins
<1>5. ASSUME NEW k \in SetKey, NEW p \in Period, NEW M \in SUBSET published,
             NEW old \in SetKey \cup {None}, BeginPublishSet(t, k, p, M, old)
      PROVE  IInv'
  <2> DEFINE x == {<<"set", k>>} \cup ScopeLock(M) \cup BatchLock(UNION {m.sources : m \in M})
             s == CompanyLock(SetCompanies(M))
             set == [period |-> p, members |-> M, supersedes |-> old]
             projects == UNION {{m} \X Observations(m) : m \in {m \in M : ~AlreadyPublished(m)}}
             w == [kind |-> "publish_set", key |-> k, set |-> set, projects |-> projects]
  <2>1. Begin(t, x, s, w)
    BY <1>5 DEF BeginPublishSet
  <2>2. \A m \in M : Current(m)
    BY <1>5, UnchangedIsCurrent DEF BeginPublishSet, IInv, State, Shape
  <2>3. SetOK(set)
    <3>1. M # {}
      <4>1. Cardinality(M) >= MinMembers
        BY <1>5 DEF BeginPublishSet
      <4>2. M = {} => Cardinality(M) = 0
        BY FS_EmptySet
      <4> QED
        BY <4>1, <4>2, SnapshotAssumption
    <3>2. Cardinality({m.company : m \in M}) = Cardinality(M)
      <4> DEFINE f == [m \in M |-> m.company]
      <4>1. IsFiniteSet(M)
        BY FS_Subset DEF IInv, State, Shape
      <4>2. \A m, n \in M : m.company = n.company => m = n
        BY <1>5 DEF BeginPublishSet
      <4>3. f \in Bijection(M, {m.company : m \in M})
        BY <4>2 DEF Bijection, Injection, IsInjective, Surjection
      <4> QED
        BY <4>1, <4>3, FS_Bijection DEF ExistsBijection
    <3> QED
      BY <3>1, <3>2 DEF SetOK, NoSet
  <2>4. /\ <<"set", k>> \in x
        /\ \A m \in M : <<"company", m.company>> \in s /\ <<"scope", m.company, m.period>> \in x
    BY DEF CompanyLock, SetCompanies, ScopeLock
  <2>5. \A so \in projects : so[1] \in M /\ ~AlreadyPublished(so[1])
    OBVIOUS
  <2>6. set.members = M
    OBVIOUS
  <2> HIDE DEF x, s, set, projects
  <2>7. w.kind = "publish_set" /\ w.key = k /\ w.set = set /\ w.projects = projects
    OBVIOUS
  <2> HIDE DEF w
  <2>8. SetReady(x, s, w)
    BY <1>5, <2>2, <2>3, <2>4, <2>5, <2>6, <2>7 DEF SetReady, BeginPublishSet
  <2>9. WriteReady(x, s, w)
    BY <2>7, <2>8 DEF WriteReady
  <2> QED
    BY <2>1, <2>9, Begins
<1> QED
  BY <1>1, <1>2, <1>3, <1>4, <1>5 DEF Request

-----------------------------------------------------------------------------
(* Every step keeps the invariant: writes.                                 *)

\* Two transactions never hold the same lock, one of them exclusively.
LEMMA NoSharing ==
  ASSUME LocksExclusive, NEW t \in Client, NEW u \in Client, u # t, NEW lock, lock \in tx[t].x
  PROVE  lock \notin tx[u].x /\ lock \notin tx[u].s
  BY DEF LocksExclusive

\* A step that leaves masters, sets, snapshots and companies alone, and
\* gives one batch that is not terminal another good row.
LEMMA BatchWrite ==
  ASSUME State, NEW b \in Batch, NEW r, BatchRowOK(b, r), batch' = [batch EXCEPT ![b] = r],
         batch[b].status \in Terminal => r = batch[b],
         tx' = [u \in Client |-> tx'[u]],
         UNCHANGED <<company, master, snapshots, published, sets, projection>>
  PROVE  /\ State'
         /\ \A a \in Batch : batch[a].status \in Terminal => batch'[a] = batch[a]
         /\ \A a \in Batch : a # b => batch'[a] = batch[a]
<1>1. /\ batch' = [a \in Batch |-> batch'[a]] /\ batch'[b] = r
      /\ \A a \in Batch : a # b => batch'[a] = batch[a]
  BY DEF State, Shape
<1>2. \A a \in Batch : batch[a].status \in Terminal => batch'[a] = batch[a]
  BY <1>1
<1>3. Shape'
  BY <1>1 DEF State, Shape, PublishedMasters
<1>4. CompaniesOK' /\ MastersDisjoint'
  BY DEF State, CompaniesOK, MastersDisjoint
<1>5. BatchesOK'
  <2>1. ASSUME NEW a \in Batch PROVE BatchRowOK(a, batch'[a])
    <3>1. CASE a = b
      BY <1>1, <3>1
    <3>2. CASE a # b
      BY <1>1, <3>2 DEF State, BatchesOK
    <3> QED
      BY <3>1, <3>2
  <2> QED
    BY <2>1 DEF BatchesOK, BatchRowOK, Accounted
<1>6. SnapshotsOK'
  <2>1. \A s : SnapshotOK(s) => SnapshotOK(s)'
    BY <1>2 DEF SnapshotOK, Backed
  <2> QED
    BY <2>1 DEF State, SnapshotsOK
<1>7. SetsOK'
  BY DEF State, SetsOK, SetOK, Used, AlreadyPublished
<1> QED
  BY <1>1, <1>2, <1>3, <1>4, <1>5, <1>6, <1>7 DEF State

\* A step that leaves companies, masters and sets alone disturbs no other
\* approval and no other set publication.
LEMMA OthersStay ==
  ASSUME IInv, UNCHANGED <<company, master, sets>>
  PROVE  \A u \in Client :
           (tx[u].write.kind = "ingest" => batch'[tx[u].write.batch] = batch[tx[u].write.batch])
             => Undisturbed(tx[u].write)
<1>1. \A m : Current(m) => Current(m)'
  BY DEF Current, Effective
<1>2. \A s : ~AlreadyPublished(s) => ~AlreadyPublished(s)'
  BY DEF AlreadyPublished, Used
<1> QED
  BY <1>1, <1>2 DEF Undisturbed, IInv, WritesReady, WriteReady, SetReady

LEMMA CommitIngestStep == ASSUME IInv, NEW t \in Client, CommitIngest(t) PROVE IInv'
<1> DEFINE b == tx[t].write.batch
           r == tx[t].write.result
<1>1. /\ b \in Batch /\ <<"batch", b>> \in tx[t].x
      /\ batch[b].status = "RECEIVED" /\ BatchRowOK(b, r)
  BY DEF CommitIngest, IInv, WritesReady, WriteReady, IngestReady
<1>2. tx' = [u \in Client |-> tx'[u]] /\ EndsOrAudits(t)
  BY Finishes DEF CommitIngest, IInv, State
<1>4. batch' = [batch EXCEPT ![b] = r] /\ UNCHANGED <<company, master, snapshots, published, sets, projection>>
  BY DEF CommitIngest
<1> HIDE DEF b, r
<1>5. /\ State'
      /\ \A a \in Batch : batch[a].status \in Terminal => batch'[a] = batch[a]
      /\ \A a \in Batch : a # b => batch'[a] = batch[a]
  <2>1. batch[b].status \in Terminal => r = batch[b]
    BY <1>1 DEF Terminal
  <2> QED
    BY <1>1, <1>2, <1>4, <2>1, BatchWrite DEF IInv
<1>6. ASSUME NEW u \in Client, u # t, tx[u].write.kind = "ingest"
      PROVE  batch'[tx[u].write.batch] = batch[tx[u].write.batch]
  <2>1. tx[u].write.batch \in Batch /\ <<"batch", tx[u].write.batch>> \in tx[u].x
    BY <1>6 DEF IInv, WritesReady, WriteReady, IngestReady
  <2>2. <<"batch", b>> \notin tx[u].x
    BY <1>1, <1>6, NoSharing DEF IInv
  <2> QED
    BY <1>5, <2>1, <2>2
<1>7. \A u \in Client : u # t => Undisturbed(tx[u].write)
  BY <1>4, <1>6, OthersStay
<1> QED
  BY <1>2, <1>4, <1>5, <1>7, Ends

LEMMA ProcessingFailsStep == ASSUME IInv, NEW t \in Client, ProcessingFails(t) PROVE IInv'
<1> DEFINE e == [x |-> {}, s |-> {}, write |-> [kind |-> "audit", batch |-> tx[t].write.batch]]
<1>1. tx' = [tx EXCEPT ![t] = e]
  BY DEF ProcessingFails
<1>2. UNCHANGED <<company, batch, master, snapshots, published, sets, projection>>
  BY DEF ProcessingFails
<1>3. e.x = {} /\ e.s = {} /\ e.write.kind = "audit" /\ e.write.batch \in Batch
  BY DEF ProcessingFails, IInv, WritesReady, WriteReady, IngestReady
<1> HIDE DEF e
<1>4. tx' = [u \in Client |-> tx'[u]] /\ EndsOrAudits(t)
  BY <1>1, <1>3, OneClient DEF EndsOrAudits, IInv, State
<1>5. State'
  BY <1>2, <1>4, StateKept DEF IInv
<1>6. \A u \in Client : u # t => Undisturbed(tx[u].write)
  BY <1>2, OthersStay
<1> QED
  BY <1>2, <1>4, <1>5, <1>6, Ends

LEMMA AbortStep == ASSUME IInv, NEW t \in Client, Abort(t) PROVE IInv'
<1>1. tx' = [u \in Client |-> tx'[u]] /\ EndsOrAudits(t)
  BY Finishes DEF Abort, IInv, State
<1>2. UNCHANGED <<company, batch, master, snapshots, published, sets, projection>>
  BY DEF Abort
<1>3. State'
  BY <1>1, <1>2, StateKept DEF IInv
<1>4. \A u \in Client : u # t => Undisturbed(tx[u].write)
  BY <1>2, OthersStay
<1> QED
  BY <1>1, <1>2, <1>3, <1>4, Ends

LEMMA AuditFailureStep == ASSUME IInv, NEW t \in Client, AuditFailure(t) PROVE IInv'
<1> DEFINE b == tx[t].write.batch
           r == Audited(batch[b])
<1>1. b \in Batch
  BY DEF AuditFailure, IInv, WritesReady, WriteReady
<1>2. Available(BatchLock({b}), {}) /\ batch' = [batch EXCEPT ![b] = r]
  BY DEF AuditFailure
<1>3. tx' = [u \in Client |-> tx'[u]] /\ EndsOrAudits(t)
  BY Finishes DEF AuditFailure, IInv, State
<1>4. UNCHANGED <<company, master, snapshots, published, sets, projection>>
  BY DEF AuditFailure
<1>5. BatchRowOK(b, r) /\ (batch[b].status \in Terminal => r = batch[b])
  <2>1. BatchRowOK(b, batch[b])
    BY <1>1 DEF IInv, State, BatchesOK
  <2>2. CASE batch[b].status \in Terminal
    BY <2>1, <2>2 DEF Audited
  <2>3. CASE batch[b].status \notin Terminal
    <3>1. /\ r = [status |-> r.status, file |-> r.file, rows |-> r.rows, errors |-> r.errors]
          /\ r.status = "FAILED" /\ r.file = batch[b].file /\ r.rows = batch[b].rows
      BY <2>1, <2>3 DEF Audited, BatchRowOK
    <3> QED
      BY <2>1, <2>3, <3>1 DEF BatchRowOK, Accounted, Terminal
  <2> QED
    BY <2>2, <2>3
<1> HIDE DEF b, r
<1>7. /\ State'
      /\ \A a \in Batch : batch[a].status \in Terminal => batch'[a] = batch[a]
      /\ \A a \in Batch : a # b => batch'[a] = batch[a]
  BY <1>1, <1>2, <1>3, <1>4, <1>5, BatchWrite DEF IInv
<1>8. ASSUME NEW u \in Client, u # t, tx[u].write.kind = "ingest"
      PROVE  batch'[tx[u].write.batch] = batch[tx[u].write.batch]
  <2>1. tx[u].write.batch \in Batch /\ <<"batch", tx[u].write.batch>> \in tx[u].x
    BY <1>8 DEF IInv, WritesReady, WriteReady, IngestReady
  <2>2. <<"batch", b>> \notin tx[u].x
    BY <1>2 DEF Available, BatchLock
  <2> QED
    BY <1>7, <2>1, <2>2
<1>9. \A u \in Client : u # t => Undisturbed(tx[u].write)
  BY <1>4, <1>8, OthersStay
<1> QED
  BY <1>3, <1>4, <1>7, <1>9, Ends

LEMMA CommitApproveStep == ASSUME IInv, NEW t \in Client, CommitApprove(t) PROVE IInv'
<1> DEFINE v == tx[t].write.master
<1>1. /\ v \in Master /\ <<"company", MasterOf[v].company>> \in tx[t].x
      /\ \A u \in Master : master[u] = "PUBLISHED" => ~Overlap(u, v)
  BY DEF CommitApprove, IInv, WritesReady, WriteReady, ApproveReady
<1>2. tx' = [u \in Client |-> tx'[u]] /\ EndsOrAudits(t)
  BY Finishes DEF CommitApprove, IInv, State
<1>3. /\ master' = [master EXCEPT ![v] = "PUBLISHED"]
      /\ UNCHANGED <<company, batch, snapshots, published, sets, projection>>
  BY DEF CommitApprove
<1> HIDE DEF v
<1>4. /\ master' \in [Master -> {"ABSENT", "DRAFT", "PUBLISHED", "FAILED"}]
      /\ master'[v] = "PUBLISHED" /\ \A u \in Master : u # v => master'[u] = master[u]
  BY <1>1, <1>3 DEF IInv, State, Shape
<1>5. State'
  <2>1. PublishedMasters' = PublishedMasters \cup {v}
    BY <1>1, <1>4 DEF PublishedMasters
  <2>2. IsFiniteSet(PublishedMasters \cup {v})
    BY FS_AddElement DEF IInv, State, Shape
  <2>3. Shape'
    BY <1>2, <1>3, <1>4, <2>1, <2>2 DEF IInv, State, Shape
  <2>4. MastersDisjoint'
    BY <1>1, <1>4, OverlapMutual DEF IInv, State, MastersDisjoint, Overlap
  <2>5. CompaniesOK' /\ BatchesOK'
    BY <1>3 DEF IInv, State, CompaniesOK, BatchesOK
  <2>6. SnapshotsOK'
    BY <1>3 DEF IInv, State, SnapshotsOK, SnapshotOK, Backed
  <2>7. SetsOK'
    BY <1>3 DEF IInv, State, SetsOK, SetOK, Used, AlreadyPublished
  <2> QED
    BY <2>3, <2>4, <2>5, <2>6, <2>7 DEF State
<1>6. ASSUME NEW u \in Client, u # t PROVE Undisturbed(tx[u].write)
  <2>1. WriteReady(tx[u].x, tx[u].s, tx[u].write)
    BY DEF IInv, WritesReady
  <2>2. <<"company", MasterOf[v].company>> \notin tx[u].x /\ <<"company", MasterOf[v].company>> \notin tx[u].s
    BY <1>1, <1>6, NoSharing DEF IInv
  <2>3. ASSUME tx[u].write.kind = "approve", NEW a \in Master, master'[a] = "PUBLISHED"
        PROVE  master[a] = "PUBLISHED" \/ ~Overlap(a, tx[u].write.master)
    <3>1. CASE a = v
      BY <2>1, <2>2, <2>3, <3>1 DEF WriteReady, ApproveReady, Overlap
    <3>2. CASE a # v
      BY <1>4, <2>3, <3>2
    <3> QED
      BY <3>1, <3>2
  <2>4. ASSUME tx[u].write.kind = "publish_set"
        PROVE  /\ sets'[tx[u].write.key] = sets[tx[u].write.key]
               /\ \A m \in tx[u].write.set.members : Current(m)'
               /\ \A so \in tx[u].write.projects : ~AlreadyPublished(so[1])'
    <3>1. SetReady(tx[u].x, tx[u].s, tx[u].write)
      BY <2>1, <2>4 DEF WriteReady
    <3>2. ASSUME NEW m \in tx[u].write.set.members PROVE Current(m)'
      <4>1. Current(m) /\ MasterOf[v].company # m.company
        BY <2>2, <3>1 DEF SetReady
      <4>2. Effective(m.company, m.period)' = Effective(m.company, m.period)
        BY <1>1, <1>4, <4>1 DEF Effective
      <4> QED
        BY <1>3, <4>1, <4>2 DEF Current
    <3>3. \A s : ~AlreadyPublished(s) => ~AlreadyPublished(s)'
      BY <1>3 DEF AlreadyPublished, Used
    <3> QED
      BY <1>3, <3>1, <3>2, <3>3 DEF SetReady
  <2> QED
    BY <1>3, <2>3, <2>4 DEF Undisturbed
<1> QED
  BY <1>2, <1>3, <1>5, <1>6, Ends

LEMMA CommitValidateStep == ASSUME IInv, NEW t \in Client, CommitValidate(t) PROVE IInv'
<1> DEFINE s == tx[t].write.snapshot
<1>1. SnapshotOK(s)
  BY DEF CommitValidate, IInv, WritesReady, WriteReady
<1>2. tx' = [u \in Client |-> tx'[u]] /\ EndsOrAudits(t)
  BY Finishes DEF CommitValidate, IInv, State
<1>3. /\ snapshots' = snapshots \cup {s}
      /\ UNCHANGED <<company, batch, master, published, sets, projection>>
  BY DEF CommitValidate
<1> HIDE DEF s
<1>4. State'
  <2>1. Shape' /\ CompaniesOK' /\ BatchesOK' /\ MastersDisjoint'
    BY <1>2, <1>3 DEF IInv, State, Shape, PublishedMasters, CompaniesOK, BatchesOK, MastersDisjoint
  <2>2. SnapshotsOK'
    <3>1. \A y : SnapshotOK(y) => SnapshotOK(y)'
      BY <1>3 DEF SnapshotOK, Backed
    <3> QED
      BY <1>1, <1>3, <3>1 DEF IInv, State, SnapshotsOK
  <2>3. SetsOK'
    BY <1>3 DEF IInv, State, SetsOK, SetOK, Used, AlreadyPublished
  <2> QED
    BY <2>1, <2>2, <2>3 DEF State
<1>5. \A u \in Client : u # t => Undisturbed(tx[u].write)
  BY <1>3, OthersStay
<1> QED
  BY <1>2, <1>3, <1>4, <1>5, Ends

LEMMA CommitPublishStep == ASSUME IInv, NEW t \in Client, CommitPublish(t) PROVE IInv'
<1> DEFINE s == tx[t].write.snapshot
<1>1. s \in snapshots
  BY DEF CommitPublish, IInv, WritesReady, WriteReady
<1>2. tx' = [u \in Client |-> tx'[u]] /\ EndsOrAudits(t)
  BY Finishes DEF CommitPublish, IInv, State
<1>3. /\ published' = published \cup {s}
      /\ UNCHANGED <<company, batch, master, snapshots, sets, projection>>
  BY DEF CommitPublish
<1> HIDE DEF s
<1>4. State'
  <2>1. IsFiniteSet(published \cup {s})
    BY FS_AddElement DEF IInv, State, Shape
  <2>2. Shape' /\ CompaniesOK' /\ BatchesOK' /\ MastersDisjoint'
    BY <1>2, <1>3, <2>1 DEF IInv, State, Shape, PublishedMasters, CompaniesOK, BatchesOK, MastersDisjoint
  <2>3. SnapshotsOK'
    <3>1. \A y : SnapshotOK(y) => SnapshotOK(y)'
      BY <1>3 DEF SnapshotOK, Backed
    <3> QED
      BY <1>1, <1>3, <3>1 DEF IInv, State, SnapshotsOK
  <2>4. SetsOK'
    BY <1>3 DEF IInv, State, SetsOK, SetOK, Used, AlreadyPublished
  <2> QED
    BY <2>2, <2>3, <2>4 DEF State
<1>5. \A u \in Client : u # t => Undisturbed(tx[u].write)
  BY <1>3, OthersStay
<1> QED
  BY <1>2, <1>3, <1>4, <1>5, Ends

\* A set that appears makes only its own members published, and no other
\* publication that is under way shares a member with it.
LEMMA CommitPublishSetStep ==
  ASSUME IInv, NEW t \in Client, CommitPublishSet(t)
  PROVE  /\ IInv'
         /\ \A k \in SetKey : Used(k) => sets'[k] = sets[k]
<1> DEFINE k == tx[t].write.key
           set == tx[t].write.set
           projects == tx[t].write.projects
<1>1. SetReady(tx[t].x, tx[t].s, tx[t].write)
  BY DEF CommitPublishSet, IInv, WritesReady, WriteReady
<1>2. /\ k \in SetKey /\ <<"set", k>> \in tx[t].x /\ ~Used(k) /\ SetOK(set)
      /\ \A m \in set.members : <<"scope", m.company, m.period>> \in tx[t].x
      /\ \A so \in projects : so[1] \in set.members
  BY <1>1 DEF SetReady
<1>3. tx' = [u \in Client |-> tx'[u]] /\ EndsOrAudits(t)
  BY Finishes DEF CommitPublishSet, IInv, State
<1>4. /\ sets' = [sets EXCEPT ![k] = set] /\ projection' = projection \cup projects
      /\ UNCHANGED <<company, batch, master, snapshots, published>>
  BY DEF CommitPublishSet
<1> HIDE DEF k, set, projects
<1>5. /\ sets' = [j \in SetKey |-> sets'[j]] /\ sets'[k] = set
      /\ \A j \in SetKey : j # k => sets'[j] = sets[j]
  BY <1>2, <1>4 DEF IInv, State, Shape
<1>6. \A j \in SetKey : Used(j) => sets'[j] = sets[j]
  BY <1>2, <1>5
<1>7. State'
  <2>1. Shape' /\ CompaniesOK' /\ BatchesOK' /\ MastersDisjoint'
    BY <1>3, <1>4, <1>5 DEF IInv, State, Shape, PublishedMasters, CompaniesOK, BatchesOK, MastersDisjoint
  <2>2. SnapshotsOK'
    BY <1>4 DEF IInv, State, SnapshotsOK, SnapshotOK, Backed
  <2>3. ASSUME NEW j \in SetKey, Used(j)' PROVE SetOK(sets'[j])
    <3>1. CASE j = k
      BY <1>2, <1>5, <3>1
    <3>2. CASE j # k
      BY <1>5, <2>3, <3>2 DEF IInv, State, SetsOK, Used
    <3> QED
      BY <3>1, <3>2
  <2>4. ASSUME NEW so \in projection' PROVE AlreadyPublished(so[1])'
    <3>1. CASE so \in projection
      BY <1>6, <3>1 DEF IInv, State, SetsOK, AlreadyPublished, Used
    <3>2. CASE so \in projects
      BY <1>2, <1>5, <3>2 DEF SetOK, AlreadyPublished, Used
    <3> QED
      BY <1>4, <3>1, <3>2
  <2>5. SetsOK'
    BY <2>3, <2>4 DEF SetsOK, SetOK
  <2> QED
    BY <2>1, <2>2, <2>5 DEF State
<1>8. ASSUME NEW u \in Client, u # t PROVE Undisturbed(tx[u].write)
  <2>1. WriteReady(tx[u].x, tx[u].s, tx[u].write)
    BY DEF IInv, WritesReady
  <2>2. ASSUME tx[u].write.kind = "publish_set"
        PROVE  /\ sets'[tx[u].write.key] = sets[tx[u].write.key]
               /\ \A m \in tx[u].write.set.members : Current(m)'
               /\ \A so \in tx[u].write.projects : ~AlreadyPublished(so[1])'
    <3>1. SetReady(tx[u].x, tx[u].s, tx[u].write)
      BY <2>1, <2>2 DEF WriteReady
    <3>2. tx[u].write.key # k
      BY <1>2, <1>8, <3>1, NoSharing DEF IInv, SetReady
    <3>3. \A m : Current(m) => Current(m)'
      BY <1>4 DEF Current, Effective
    <3>4. ASSUME NEW so \in tx[u].write.projects PROVE ~AlreadyPublished(so[1])'
      <4>1. /\ <<"scope", so[1].company, so[1].period>> \in tx[u].x
            /\ ~AlreadyPublished(so[1])
        BY <3>1 DEF SetReady
      <4>2. so[1] \notin set.members
        BY <1>2, <1>8, <4>1, NoSharing DEF IInv
      <4> QED
        BY <1>5, <4>1, <4>2 DEF AlreadyPublished, Used
    <3> QED
      BY <1>5, <3>1, <3>2, <3>3, <3>4 DEF SetReady
  <2> QED
    BY <1>4, <2>1, <2>2 DEF Undisturbed
<1> QED
  BY <1>3, <1>4, <1>6, <1>7, <1>8, Ends

\* A step outside the transactions.
LEMMA Outside ==
  ASSUME IInv, State', UNCHANGED <<tx, batch, snapshots, published>>,
         \A u \in Client : Undisturbed(tx[u].write)
  PROVE  IInv'
<1>1. \A u \in Client : WriteReady(tx[u].x, tx[u].s, tx[u].write)'
  BY ReadyKept
<1> QED
  BY <1>1 DEF IInv, WritesReady, LocksExclusive

LEMMA ApplyEventStep == ASSUME IInv, NEW e \in Event, ApplyEvent(e) PROVE IInv'
<1> DEFINE c == e.company
           row == [active |-> e.active, name |-> e.name, at |-> e.at]
<1>1. c \in Company /\ row.active \in BOOLEAN /\ row.at \in Nat
  BY SnapshotAssumption
<1>2. /\ company' = [company EXCEPT ![c] = row] /\ Available(CompanyLock({c}), {})
      /\ UNCHANGED <<batch, master, snapshots, published, sets, projection, tx>>
  BY DEF ApplyEvent
<1> HIDE DEF c, row
<1>3. /\ company' = [a \in Company |-> company'[a]] /\ company'[c] = row
      /\ \A a \in Company : a # c => company'[a] = company[a]
  BY <1>1, <1>2 DEF IInv, State, Shape
<1>4. State'
  <2>1. Shape' /\ BatchesOK' /\ MastersDisjoint'
    BY <1>2, <1>3 DEF IInv, State, Shape, PublishedMasters, BatchesOK, MastersDisjoint
  <2>2. CompaniesOK'
    BY <1>1, <1>3 DEF IInv, State, CompaniesOK
  <2>3. SnapshotsOK'
    BY <1>2 DEF IInv, State, SnapshotsOK, SnapshotOK, Backed
  <2>4. SetsOK'
    BY <1>2 DEF IInv, State, SetsOK, SetOK, Used, AlreadyPublished
  <2> QED
    BY <2>1, <2>2, <2>3, <2>4 DEF State
<1>5. ASSUME NEW u \in Client PROVE Undisturbed(tx[u].write)
  <2>1. WriteReady(tx[u].x, tx[u].s, tx[u].write)
    BY DEF IInv, WritesReady
  <2>2. <<"company", c>> \notin tx[u].s
    BY <1>2 DEF Available, CompanyLock
  <2>3. ASSUME tx[u].write.kind = "publish_set", NEW m \in tx[u].write.set.members PROVE Current(m)'
    <3>1. Current(m) /\ m.company # c /\ m \in published
      BY <2>1, <2>2, <2>3 DEF WriteReady, SetReady
    <3>2. m.company \in Company
      BY <3>1 DEF IInv, State, SnapshotsOK, SnapshotOK
    <3> QED
      BY <1>2, <1>3, <3>1, <3>2 DEF Current, Effective
  <2>4. tx[u].write.kind = "publish_set" => \A so \in tx[u].write.projects : ~AlreadyPublished(so[1])'
    BY <1>2, <2>1 DEF WriteReady, SetReady, AlreadyPublished, Used
  <2> QED
    BY <1>2, <2>3, <2>4 DEF Undisturbed
<1> QED
  BY <1>2, <1>4, <1>5, Outside

LEMMA ImportMastersStep == ASSUME IInv, NEW w, ImportMasters(w) PROVE IInv'
<1> DEFINE versions == {v \in Master : MasterOf[v].workbook = w}
<1>1. /\ \A v \in versions : master[v] = "ABSENT" /\ master'[v] \in {"DRAFT", "FAILED"}
      /\ \A v \in Master \ versions : master'[v] = master[v]
      /\ master' = [v \in Master |-> master'[v]]
      /\ UNCHANGED <<company, batch, snapshots, published, sets, projection, tx>>
  BY DEF ImportMasters
<1> HIDE DEF versions
<1>2. \A v \in Master : master'[v] = "PUBLISHED" <=> master[v] = "PUBLISHED"
  BY <1>1
<1>3. State'
  <2>1. PublishedMasters' = PublishedMasters
    BY <1>2 DEF PublishedMasters
  <2>2. master' \in [Master -> {"ABSENT", "DRAFT", "PUBLISHED", "FAILED"}]
    BY <1>1 DEF IInv, State, Shape
  <2>3. Shape' /\ CompaniesOK' /\ BatchesOK'
    BY <1>1, <2>1, <2>2 DEF IInv, State, Shape, CompaniesOK, BatchesOK
  <2>4. MastersDisjoint'
    BY <1>2 DEF IInv, State, MastersDisjoint, Overlap
  <2>5. SnapshotsOK'
    BY <1>1 DEF IInv, State, SnapshotsOK, SnapshotOK, Backed
  <2>6. SetsOK'
    BY <1>1 DEF IInv, State, SetsOK, SetOK, Used, AlreadyPublished
  <2> QED
    BY <2>3, <2>4, <2>5, <2>6 DEF State
<1>4. ASSUME NEW u \in Client PROVE Undisturbed(tx[u].write)
  <2>1. WriteReady(tx[u].x, tx[u].s, tx[u].write)
    BY DEF IInv, WritesReady
  <2>2. \A m : Current(m) => Current(m)'
    BY <1>1, <1>2 DEF Current, Effective
  <2>3. \A s : ~AlreadyPublished(s) => ~AlreadyPublished(s)'
    BY <1>1 DEF AlreadyPublished, Used
  <2> QED
    BY <1>1, <1>2, <2>1, <2>2, <2>3 DEF Undisturbed, WriteReady, SetReady
<1> QED
  BY <1>1, <1>3, <1>4, Outside

-----------------------------------------------------------------------------
(* The invariant holds initially and is kept by every step.                *)

LEMMA InitIInv == ASSUME Init PROVE IInv
<1>1. PublishedMasters = {}
  BY DEF Init, PublishedMasters
<1>2. Shape
  BY <1>1, FS_EmptySet DEF Init, Shape
<1>3. CompaniesOK /\ MastersDisjoint /\ SnapshotsOK /\ SetsOK
  BY DEF Init, CompaniesOK, MastersDisjoint, SnapshotsOK, SetsOK, Used
<1>4. BatchesOK
  BY DEF Init, BatchesOK, BatchRowOK, Accounted
<1>5. LocksExclusive /\ WritesReady
  BY DEF Init, Idle, LocksExclusive, WritesReady, WriteReady
<1> QED
  BY <1>2, <1>3, <1>4, <1>5 DEF IInv, State

LEMMA StutterStep == ASSUME IInv, UNCHANGED vars PROVE IInv'
<1>1. State'
  BY StateKept DEF vars, IInv, State, Shape
<1>2. \A u \in Client : Undisturbed(tx[u].write)
  BY OthersStay DEF vars
<1> QED
  BY <1>1, <1>2, Outside DEF vars

LEMMA NextIInv == ASSUME IInv, [Next]_vars PROVE IInv'
<1>1. ASSUME NEW e \in Event, ApplyEvent(e) PROVE IInv'
  BY <1>1, ApplyEventStep
<1>2. ASSUME NEW v \in Master, ImportMasters(MasterOf[v].workbook) PROVE IInv'
  BY <1>2, ImportMastersStep
<1>3. ASSUME NEW t \in Client,
             \/ Request(t) \/ CommitIngest(t) \/ ProcessingFails(t) \/ AuditFailure(t)
             \/ CommitApprove(t) \/ CommitValidate(t) \/ CommitPublish(t) \/ CommitPublishSet(t)
             \/ Abort(t)
      PROVE  IInv'
  BY <1>3, RequestStep, CommitIngestStep, ProcessingFailsStep, AuditFailureStep, CommitApproveStep,
     CommitValidateStep, CommitPublishStep, CommitPublishSetStep, AbortStep
<1> QED
  BY <1>1, <1>2, <1>3, StutterStep DEF Next

LEMMA Inductive == Spec => []IInv
<1>1. Init => IInv
  BY InitIInv
<1>2. IInv /\ [Next]_vars => IInv'
  BY NextIInv
<1> QED
  BY <1>1, <1>2, PTL DEF Spec

-----------------------------------------------------------------------------
(* What the invariant gives.                                               *)

LEMMA InvariantIsSound == ASSUME IInv PROVE PublicationSound
<1>1. TypeOK
  <2>1. \A c \in Company : company[c].active \in BOOLEAN /\ company[c].at \in Nat
    BY DEF IInv, State, CompaniesOK
  <2>2. \A b \in Batch : /\ batch[b].status \in Terminal \cup {"RECEIVED"}
                         /\ batch[b].rows # {} => batch[b].file \in FilesOf[b]
    BY DEF IInv, State, BatchesOK, BatchRowOK
  <2>3. master \in [Master -> {"ABSENT", "DRAFT", "PUBLISHED", "FAILED"}] /\ published \subseteq snapshots
    BY DEF IInv, State, Shape, SnapshotsOK
  <2>4. \A k \in SetKey : Used(k) =>
          /\ sets[k].period \in Period /\ sets[k].supersedes \in SetKey \cup {None}
          /\ Cardinality({s.company : s \in sets[k].members}) = Cardinality(sets[k].members)
    BY DEF IInv, State, SetsOK, SetOK
  <2>5. \A so \in projection : \E k \in SetKey : Used(k) /\ so[1] \in sets[k].members
    BY DEF IInv, State, SetsOK, AlreadyPublished
  <2> QED
    BY <2>1, <2>2, <2>3, <2>4, <2>5 DEF TypeOK
<1>2. MastersDisjoint
  BY DEF IInv, State
<1>3. SnapshotsBacked
  BY DEF IInv, State, SnapshotsOK, SnapshotOK, Backed, SnapshotsBacked
<1> QED
  BY <1>1, <1>2, <1>3 DEF PublicationSound

\* Only an upload and the audit of a failed one write a batch, and neither a terminal one.
LEMMA TerminalBatchStays ==
  ASSUME IInv, [Next]_vars, NEW b \in Batch, batch[b].status \in Terminal
  PROVE  batch'[b] = batch[b]
<1>1. ASSUME NEW t \in Client, CommitIngest(t) PROVE batch'[b] = batch[b]
  <2>1. tx[t].write.batch \in Batch /\ batch[tx[t].write.batch].status = "RECEIVED"
    BY <1>1 DEF CommitIngest, IInv, WritesReady, WriteReady, IngestReady
  <2>2. tx[t].write.batch # b
    BY <2>1 DEF Terminal
  <2> QED
    BY <1>1, <2>1, <2>2 DEF CommitIngest, IInv, State, Shape
<1>2. ASSUME NEW t \in Client, AuditFailure(t) PROVE batch'[b] = batch[b]
  BY <1>2 DEF AuditFailure, Audited, IInv, State, Shape
<1>3. ASSUME NEW t \in Client, Request(t) PROVE batch' = batch
  BY <1>3, ZenonT(30) DEF Request, BeginIngest, BeginApprove, BeginValidate, BeginPublish, BeginPublishSet, Begin
<1> QED
  BY <1>1, <1>2, <1>3 DEF Next, vars, ApplyEvent, ImportMasters, ProcessingFails, CommitApprove,
     CommitValidate, CommitPublish, CommitPublishSet, Abort

\* Only the publication of a set writes sets and projections.
LEMMA SetsWrittenOnce ==
  ASSUME IInv, [Next]_vars
  PROVE  \/ UNCHANGED <<sets, projection>>
         \/ \E t \in Client : CommitPublishSet(t)
<1>1. ASSUME NEW t \in Client, Request(t) PROVE UNCHANGED <<sets, projection>>
  BY <1>1, ZenonT(30) DEF Request, BeginIngest, BeginApprove, BeginValidate, BeginPublish, BeginPublishSet, Begin
<1> QED
  BY <1>1 DEF Next, vars, ApplyEvent, ImportMasters, CommitIngest, ProcessingFails, AuditFailure,
     CommitApprove, CommitValidate, CommitPublish, Abort

\* The set that a publication writes.
LEMMA SetWritten ==
  ASSUME IInv, NEW t \in Client, CommitPublishSet(t)
  PROVE  /\ SetReady(tx[t].x, tx[t].s, tx[t].write)
         /\ \A k \in SetKey : sets'[k] = IF k = tx[t].write.key THEN tx[t].write.set ELSE sets[k]
         /\ projection' = projection \cup tx[t].write.projects
  BY DEF CommitPublishSet, IInv, WritesReady, WriteReady, SetReady, State, Shape

\* A set that appears has members that hold as they were checked.
LEMMA NewSetIsControlled ==
  ASSUME IInv, [Next]_vars, NEW k \in SetKey, ~Used(k), sets'[k] # NoSet,
         NEW s \in sets'[k].members
  PROVE  /\ s \in published
         /\ company[s.company].active /\ company[s.company].name = s.name
         /\ Effective(s.company, s.period) = {s.master}
<1>1. PICK t \in Client : CommitPublishSet(t)
  BY SetsWrittenOnce DEF Used
<1>2. s \in tx[t].write.set.members /\ SetReady(tx[t].x, tx[t].s, tx[t].write)
  BY <1>1, SetWritten DEF Used
<1> QED
  BY <1>2 DEF SetReady, Current

\* A snapshot of a set that exists is given nothing more.
LEMMA PublishedKeepsProjection ==
  ASSUME IInv, [Next]_vars, NEW k \in SetKey, Used(k), NEW s \in sets[k].members
  PROVE  {so \in projection' : so[1] = s} = {so \in projection : so[1] = s}
<1>1. CASE UNCHANGED <<sets, projection>>
  BY <1>1
<1>2. ASSUME NEW t \in Client, CommitPublishSet(t)
      PROVE  {so \in projection' : so[1] = s} = {so \in projection : so[1] = s}
  <2>1. AlreadyPublished(s)
    BY DEF AlreadyPublished
  <2>2. \A so \in tx[t].write.projects : so[1] # s
    BY <1>2, <2>1, SetWritten DEF SetReady
  <2> QED
    BY <1>2, <2>2, SetWritten
<1> QED
  BY <1>1, <1>2, SetsWrittenOnce

-----------------------------------------------------------------------------
(* The theorems.                                                           *)

\* Published masters of a company never overlap, and every snapshot counts all
\* rows of its sources' files that may be its company's, whoever ingests,
\* approves and validates what at the same time.
THEOREM PublicationsAreSound == Spec => []PublicationSound
  BY Inductive, InvariantIsSound, PTL

\* A terminal batch stays what it is, a set appears only with members that
\* hold at that moment, and a published snapshot is given nothing more.
THEOREM PublicationsStay == Spec => PublishedStays
<1>1. IInv /\ [Next]_vars =>
        [\A b \in Batch : batch[b].status \in Terminal => batch'[b] = batch[b]]_vars
  BY TerminalBatchStays
<1>2. IInv /\ [Next]_vars =>
        [\A k \in SetKey : ~Used(k) /\ sets'[k] # NoSet =>
           \A s \in sets'[k].members :
             /\ s \in published
             /\ company[s.company].active /\ company[s.company].name = s.name
             /\ Effective(s.company, s.period) = {s.master}]_vars
  BY NewSetIsControlled
<1>3. IInv /\ [Next]_vars =>
        [\A k \in SetKey : Used(k) =>
           \A s \in sets[k].members :
             {so \in projection' : so[1] = s} = {so \in projection : so[1] = s}]_vars
  BY PublishedKeepsProjection
<1>4. Spec => BatchFinal
  BY <1>1, Inductive, PTL DEF Spec, BatchFinal
<1>5. Spec => SetMembersControlled
  BY <1>2, Inductive, PTL DEF Spec, SetMembersControlled
<1>6. Spec => ProjectionFrozen
  BY <1>3, Inductive, PTL DEF Spec, ProjectionFrozen
<1> QED
  BY <1>4, <1>5, <1>6 DEF PublishedStays

-----------------------------------------------------------------------------
(* Facts about finite sets that stand in for an induction.                 *)

\* Of the subsets of a finite set that are not good a smallest would lose one
\* element and be good.
LEMMA SubsetsByAddition ==
    ASSUME NEW S, IsFiniteSet(S), NEW Good, {} \in Good,
           \A T \in SUBSET S : T # {} /\ (\A x \in T : T \ {x} \in Good) => T \in Good
    PROVE  \A T \in SUBSET S : T \in Good
<1> DEFINE Bad == (SUBSET S) \ Good
<1> SUFFICES ASSUME Bad # {} PROVE FALSE
    OBVIOUS
<1>1. PICK T \in Bad : \A U \in Bad : ~(<<U, T>> \in StrictSubsetOrdering(S))
  <2>1. IsWellFoundedOn(StrictSubsetOrdering(S), SUBSET S)
    <3>1. IsWellFoundedOn(StrictSubsetOrdering(S), FiniteSubsetsOf(S))
        BY ONLY FS_StrictSubsetOrderingWellFounded
    <3>2. FiniteSubsetsOf(S) = SUBSET S
        BY ONLY FS_FiniteSubsetsOfFinite, IsFiniteSet(S)
    <3> QED BY ONLY <3>1, <3>2
  <2>2. Bad \subseteq SUBSET S
      OBVIOUS
  <2> HIDE DEF Bad
  <2> QED BY <2>1, <2>2, WFMin
<1>2. T \in SUBSET S /\ T \notin Good
    OBVIOUS
<1>3. ASSUME NEW x \in T PROVE T \ {x} \in Good
  <2>1. <<T \ {x}, T>> \in StrictSubsetOrdering(S)
      BY <1>2 DEF StrictSubsetOrdering
  <2> QED BY <1>1, <1>2, <2>1
<1> QED BY <1>2, <1>3

\* A finite set of numbers has a greatest.
LEMMA FiniteHasMax ==
    ASSUME NEW S \in SUBSET Int, IsFiniteSet(S), S # {}
    PROVE  Max(S) \in S /\ \A y \in S : Max(S) >= y
<1> DEFINE Good == {T \in SUBSET S : T = {} \/ \E x \in T : \A y \in T : x >= y}
<1>1. {} \in Good
    OBVIOUS
<1>2. ASSUME NEW T \in SUBSET S, T # {}, \A x \in T : T \ {x} \in Good
      PROVE  T \in Good
  <2> PICK x \in T : TRUE
      BY <1>2
  <2>1. CASE T \ {x} = {}
    <3>1. \A y \in T : x >= y
        BY <2>1
    <3> QED BY <3>1
  <2>2. CASE T \ {x} # {}
    <3>1. PICK z \in T \ {x} : \A y \in T \ {x} : z >= y
        BY <1>2, <2>2
    <3>2. CASE z >= x
      <4>1. \A y \in T : z >= y
          BY <3>1, <3>2
      <4> QED BY <4>1
    <3>3. CASE ~(z >= x)
      <4>1. \A y \in T : x >= y
          BY <3>1, <3>3
      <4> QED BY <4>1
    <3> QED BY <3>2, <3>3
  <2> QED BY <2>1, <2>2
<1>3. S \in Good
  <2> HIDE DEF Good
  <2>1. \A T \in SUBSET S : T # {} /\ (\A x \in T : T \ {x} \in Good) => T \in Good
      BY <1>2
  <2>2. \A T \in SUBSET S : T \in Good
      BY ONLY <1>1, <2>1, IsFiniteSet(S), SubsetsByAddition
  <2> QED BY <2>2
<1>4. \E x \in S : \A y \in S : x >= y
    BY <1>3
<1> QED BY <1>4 DEF Max

\* A finite set of numbers from 1 on without a gap is an interval.
LEMMA WithoutGap ==
    ASSUME NEW n \in Nat, NEW S \in SUBSET (1 .. n),
           \A i \in S : \A j \in 1 .. i : j \in S
    PROVE  IsFiniteSet(S) /\ S = 1 .. Cardinality(S)
<1>1. IsFiniteSet(1 .. n) /\ IsFiniteSet(S)
  <2>1. IsFiniteSet(1 .. n)
      BY ONLY n \in Nat, 1 \in Int, n \in Int, FS_Interval
  <2> QED BY <2>1, FS_Subset
<1>2. CASE S = {}
    BY <1>2, FS_EmptySet
<1>3. CASE S # {}
  <2>1. Max(S) \in S /\ \A y \in S : Max(S) >= y
    <3>1. S \in SUBSET Int
        OBVIOUS
    <3> QED BY ONLY <1>1, <1>3, <3>1, FiniteHasMax
  <2>2. S = 1 .. Max(S) /\ Max(S) \in Nat \ {0}
    <3> DEFINE top == Max(S)
    <3>1. top \in 1 .. n /\ \A y \in S : y \in 1 .. top
      <4> HIDE DEF top
      <4>1. top \in S /\ \A y \in S : top >= y
          BY <2>1 DEF top
      <4> QED BY <4>1
    <3>2. \A y \in 1 .. top : y \in S
        BY <2>1
    <3> HIDE DEF top
    <3>3. \A y : y \in S <=> y \in 1 .. top
        BY <3>1, <3>2
    <3>4. S = 1 .. top
        BY ONLY <3>3
    <3>5. top \in Nat \ {0}
        BY <3>1
    <3> QED BY <3>4, <3>5 DEF top
  <2>3. Cardinality(1 .. Max(S)) = Max(S)
      BY <2>2, FS_Interval
  <2> QED BY <1>1, <2>2, <2>3
<1> QED BY <1>2, <1>3
-----------------------------------------------------------------------------
(* Sums.  The function that a fold over a set is taken from exists, and so  *)
(* has the value that its equation gives.                                   *)

SumStep(F, f, T) == IF T = {} THEN 0 ELSE F[CHOOSE x \in T : TRUE] + f[T \ {CHOOSE x \in T : TRUE}]

IsSum(f, F, D) == f = [T \in D |-> SumStep(F, f, T)]

Upto(S, k) == {T \in SUBSET S : Cardinality(T) <= k}

\* One element more.
LEMMA SumExtends ==
    ASSUME NEW S, IsFiniteSet(S), NEW F, NEW k \in Nat \ {0}, NEW g, IsSum(g, F, Upto(S, k - 1))
    PROVE  \E f : IsSum(f, F, Upto(S, k))
<1> DEFINE f == [T \in Upto(S, k) |-> SumStep(F, g, T)]
<1>1. ASSUME NEW T \in Upto(S, k), T # {}, NEW x \in T
      PROVE  T \ {x} \in Upto(S, k - 1) /\ T \ {x} \in Upto(S, k)
  <2>1. T \in SUBSET S /\ IsFiniteSet(T) /\ Cardinality(T) \in Nat /\ Cardinality(T) <= k
      BY FS_Subset, FS_CardinalityType DEF Upto
  <2>2. Cardinality(T \ {x}) = Cardinality(T) - 1
      BY <2>1, FS_RemoveElement
  <2> QED BY <2>1, <2>2 DEF Upto
<1>2. ASSUME NEW T \in Upto(S, k)
      PROVE  SumStep(F, g, T) = SumStep(F, f, T)
  <2>1. CASE T = {}
      BY <2>1 DEF SumStep
  <2>2. CASE T # {}
    <3> DEFINE x == CHOOSE x \in T : TRUE
               U == T \ {x}
    <3>1. x \in T
        BY <2>2
    <3>2. U \in Upto(S, k - 1) /\ U \in Upto(S, k)
        BY <1>1, <2>2, <3>1
    <3>3. g[U] = SumStep(F, g, U) /\ f[U] = SumStep(F, g, U)
      <4> HIDE DEF U
      <4> QED BY <3>2 DEF IsSum
    <3> HIDE DEF f
    <3> QED BY <2>2, <3>3 DEF SumStep
  <2> QED BY <2>1, <2>2
<1>3. f = [T \in Upto(S, k) |-> SumStep(F, f, T)]
  <2> DEFINE h == f
  <2>1. f = [T \in Upto(S, k) |-> SumStep(F, h, T)]
      BY <1>2
  <2> QED BY <2>1
<1> QED BY <1>3 DEF IsSum

\* The function of all subsets that the equation describes.
LEMMA SumExists ==
    ASSUME NEW S, IsFiniteSet(S), NEW F
    PROVE  \E f : IsSum(f, F, SUBSET S)
<1> DEFINE Good == {T \in SUBSET S : \E f : IsSum(f, F, Upto(S, Cardinality(T)))}
<1>1. {} \in Good
  <2> DEFINE f == [T \in Upto(S, 0) |-> 0]
  <2>1. Cardinality({}) = 0 /\ \A T \in Upto(S, 0) : T = {}
    <3>1. \A T \in Upto(S, 0) : IsFiniteSet(T) /\ Cardinality(T) \in Nat /\ Cardinality(T) <= 0
        BY FS_Subset, FS_CardinalityType DEF Upto
    <3> QED BY <3>1, FS_EmptySet
  <2>2. \A T \in Upto(S, 0) : SumStep(F, f, T) = 0
      BY <2>1 DEF SumStep
  <2>3. IsSum(f, F, Upto(S, 0))
    <3> DEFINE h == f
    <3>1. f = [T \in Upto(S, 0) |-> SumStep(F, h, T)]
        BY <2>2
    <3> QED BY <3>1 DEF IsSum
  <2> QED BY <2>1, <2>3
<1>2. ASSUME NEW T \in SUBSET S, T # {}, \A x \in T : T \ {x} \in Good
      PROVE  T \in Good
  <2>1. PICK x \in T : TRUE
      BY <1>2
  <2>2. PICK g : IsSum(g, F, Upto(S, Cardinality(T \ {x})))
      BY <1>2
  <2>3. /\ Cardinality(T) \in Nat \ {0}
        /\ Cardinality(T \ {x}) = Cardinality(T) - 1
      BY <1>2, FS_Subset, FS_CardinalityType, FS_RemoveElement, FS_EmptySet
  <2>4. \E f : IsSum(f, F, Upto(S, Cardinality(T)))
      BY <2>2, <2>3, SumExtends
  <2> QED BY <2>4
<1>3. S \in Good
  <2> HIDE DEF Good
  <2>1. \A T \in SUBSET S : T # {} /\ (\A x \in T : T \ {x} \in Good) => T \in Good
      BY <1>2
  <2>2. \A T \in SUBSET S : T \in Good
      BY ONLY <1>1, <2>1, IsFiniteSet(S), SubsetsByAddition
  <2> QED BY <2>2
<1>4. Upto(S, Cardinality(S)) = SUBSET S
    BY FS_Subset DEF Upto
<1> QED BY <1>3, <1>4

\* A sum of so many numbers within a bound.
LEMMA SumBounded ==
    ASSUME NEW S, IsFiniteSet(S), NEW m \in Nat, NEW F, \A x \in S : F[x] \in 0 .. m,
           NEW f, IsSum(f, F, SUBSET S)
    PROVE  f[S] \in Nat /\ f[S] <= m * Cardinality(S)
<1> DEFINE Good == {T \in SUBSET S : f[T] \in Nat /\ f[T] <= m * Cardinality(T)}
<1>1. {} \in Good
    BY FS_EmptySet DEF IsSum, SumStep
<1>2. ASSUME NEW T \in SUBSET S, T # {}, \A x \in T : T \ {x} \in Good
      PROVE  T \in Good
  <2> DEFINE x == CHOOSE x \in T : TRUE
             n == Cardinality(T)
  <2>1. x \in T
      BY <1>2
  <2>2. n \in Nat \ {0} /\ Cardinality(T \ {x}) = n - 1
      BY <1>2, <2>1, FS_Subset, FS_CardinalityType, FS_RemoveElement, FS_EmptySet
  <2>3. f[T] = F[x] + f[T \ {x}]
      BY <1>2 DEF IsSum, SumStep
  <2> HIDE DEF x, n
  <2>4. f[T \ {x}] \in Nat /\ f[T \ {x}] <= m * (n - 1) /\ F[x] \in 0 .. m
      BY <1>2, <2>1, <2>2
  <2>5. m * (n - 1) = m * n - m /\ m * n \in Nat
      BY <2>2
  <2>6. f[T] \in Nat /\ f[T] <= m * n
      BY <2>3, <2>4, <2>5
  <2> QED BY <2>6 DEF n
<1>3. S \in Good
  <2> HIDE DEF Good
  <2>1. \A T \in SUBSET S : T # {} /\ (\A x \in T : T \ {x} \in Good) => T \in Good
      BY <1>2
  <2>2. \A T \in SUBSET S : T \in Good
      BY ONLY <1>1, <2>1, IsFiniteSet(S), SubsetsByAddition
  <2> QED BY <2>2
<1> QED BY <1>3
-----------------------------------------------------------------------------
(* What reading a sheet delivers.                                          *)

CellsInRow(s, n) == {c \in s.cells : c.row = n}
RowWidth(s, n) == Max({c.column : c \in CellsInRow(s, n)})
CellRows(s) == {c.row : c \in s.cells}

\* What is delivered is such a sum, of the widths of the rows that have a cell.
LEMMA DeliveredIsSum ==
    ASSUME NEW s, IsFiniteSet(CellRows(s))
    PROVE  \E f : /\ IsSum(f, [n \in CellRows(s) |-> RowWidth(s, n)], SUBSET CellRows(s))
                  /\ Delivered(s) = f[CellRows(s)]
<1> DEFINE S == CellRows(s)
           F == [n \in S |-> RowWidth(s, n)]
           Folds(f) == f = [T \in SUBSET S |-> IF T = {} THEN 0
                            ELSE LET n == CHOOSE x \in T : TRUE
                                 IN Max({c.column : c \in {c \in s.cells : c.row = n}}) + f[T \ {n}]]
<1>1. \A f : IsSum(f, F, SUBSET S) <=> Folds(f)
  <2> TAKE f
  <2>1. ASSUME NEW T \in SUBSET S, T # {}
        PROVE  SumStep(F, f, T) =
                   LET n == CHOOSE x \in T : TRUE
                   IN Max({c.column : c \in {c \in s.cells : c.row = n}}) + f[T \ {n}]
    <3>1. (CHOOSE x \in T : TRUE) \in S
        BY <2>1
    <3> HIDE DEF S
    <3> QED BY <2>1, <3>1 DEF SumStep, RowWidth, CellsInRow
  <2> HIDE DEF S, F
  <2> QED BY <2>1 DEF IsSum, SumStep
<1>2. \E f : Folds(f)
  <2>1. \E f : IsSum(f, F, SUBSET S)
    <3> HIDE DEF F
    <3> QED BY SumExists
  <2> HIDE DEF F, S, Folds
  <2> QED BY <1>1, <2>1
<1>3. Delivered(s) = (CHOOSE f : Folds(f))[S]
    BY DEF Delivered, MapThenSumSet, MapThenFoldSet, CellRows
<1> HIDE DEF F, S, Folds
<1>4. Folds(CHOOSE f : Folds(f))
    BY <1>2
<1> QED BY <1>1, <1>3, <1>4 DEF F, S
\* What a sheet's cells and rows reach, of which the reader multiplies the two.
LEMMA SheetReaches ==
    ASSUME NEW s, IsSheet(s)
    PROVE  /\ IsFiniteSet(CellRows(s)) /\ AllocatedRows(s) \in Nat
           /\ CellRows(s) \subseteq 1 .. AllocatedRows(s)
           /\ Max(Columns(s) \cup {0}) \in Nat
           /\ \A n \in CellRows(s) : RowWidth(s, n) \in 0 .. Max(Columns(s) \cup {0})
<1>1. /\ IsFiniteSet(s.cells) /\ s.rows \in Seq(Nat) /\ Len(s.rows) \in Nat
      /\ \A c \in s.cells : c.column \in Nat \ {0} /\ c.row \in Nat \ {0}
    BY DEF IsSheet
<1>2. IsFiniteSet(CellRows(s)) /\ CellRows(s) \subseteq Nat \ {0}
  <2>1. IsFiniteSet({c.row : c \in s.cells})
    <3> DEFINE f == [c \in s.cells |-> c.row]
    <3>2. f \in Surjection(s.cells, {c.row : c \in s.cells})
        BY DEF Surjection
    <3> HIDE DEF f
    <3> QED BY ONLY <1>1, <3>2, FS_Surjection
  <2> QED BY <1>1, <2>1 DEF CellRows
<1>3. /\ IsFiniteSet(Columns(s)) /\ Columns(s) \subseteq Nat \ {0}
      /\ \A n : IsFiniteSet({c.column : c \in CellsInRow(s, n)})
  <2>1. IsFiniteSet({c.column : c \in s.cells})
    <3> DEFINE f == [c \in s.cells |-> c.column]
    <3>2. f \in Surjection(s.cells, {c.column : c \in s.cells})
        BY DEF Surjection
    <3> HIDE DEF f
    <3> QED BY ONLY <1>1, <3>2, FS_Surjection
  <2>2. \A n : {c.column : c \in CellsInRow(s, n)} \in SUBSET {c.column : c \in s.cells}
      BY DEF CellsInRow
  <2>3. \A n : IsFiniteSet({c.column : c \in CellsInRow(s, n)})
      BY ONLY <2>1, <2>2, FS_Subset
  <2> QED BY <1>1, <2>1, <2>3 DEF Columns
<1>4. AllocatedRows(s) \in Nat /\ \A n \in CellRows(s) : n \in 1 .. AllocatedRows(s)
  <2> DEFINE I == {s.rows[i] : i \in DOMAIN s.rows}
             A == CellRows(s) \cup I \cup {Len(s.rows)}
  <2>1. IsFiniteSet(I) /\ I \subseteq Nat
    <3>1. /\ DOMAIN s.rows = 1 .. Len(s.rows)
          /\ \A i \in 1 .. Len(s.rows) : s.rows[i] \in Nat
        BY <1>1
    <3>2. IsFiniteSet(1 .. Len(s.rows))
      <4>1. 1 \in Int /\ Len(s.rows) \in Int
          BY <1>1
      <4> QED BY ONLY <4>1, FS_Interval
    <3> DEFINE f == [i \in 1 .. Len(s.rows) |-> s.rows[i]]
    <3>4. f \in Surjection(1 .. Len(s.rows), I)
        BY <3>1 DEF Surjection
    <3>5. IsFiniteSet(I)
      <4> HIDE DEF f, I
      <4> QED BY ONLY <3>2, <3>4, FS_Surjection
    <3> QED BY <3>1, <3>5
  <2>2. IsFiniteSet(A) /\ A \in SUBSET Nat /\ A # {} /\ CellRows(s) \subseteq A
    <3> HIDE DEF I
    <3>1. IsFiniteSet(CellRows(s) \cup I)
        BY ONLY <1>2, <2>1, FS_Union
    <3>2. IsFiniteSet(A)
        BY ONLY <3>1, FS_AddElement
    <3> QED BY <1>1, <1>2, <2>1, <3>2
  <2>3. AllocatedRows(s) = Max(A)
      BY DEF AllocatedRows, CellRows
  <2> HIDE DEF A
  <2>4. Max(A) \in A /\ \A y \in A : Max(A) >= y
    <3>1. A \in SUBSET Int
        BY <2>2
    <3> QED BY ONLY <2>2, <3>1, FiniteHasMax
  <2> DEFINE top == Max(A)
  <2>5. AllocatedRows(s) = top /\ top \in A /\ \A y \in A : top >= y
      BY <2>3, <2>4
  <2> HIDE DEF top
  <2>6. top \in Nat /\ \A n \in CellRows(s) : n \in A /\ n \in Nat \ {0} /\ top >= n
      BY <1>2, <2>2, <2>5
  <2> QED BY <2>5, <2>6
<1>5. /\ Max(Columns(s) \cup {0}) \in Nat
      /\ \A x \in Columns(s) : Max(Columns(s) \cup {0}) >= x
  <2> DEFINE A == Columns(s) \cup {0}
  <2>1. IsFiniteSet(A) /\ A \in SUBSET Nat /\ A # {}
      BY <1>3, FS_AddElement
  <2> HIDE DEF A
  <2>2. Max(A) \in A /\ \A y \in A : Max(A) >= y
    <3>1. A \in SUBSET Int
        BY <2>1
    <3> QED BY ONLY <2>1, <3>1, FiniteHasMax
  <2> QED BY <2>1, <2>2 DEF A
<1>6. ASSUME NEW n \in CellRows(s)
      PROVE  RowWidth(s, n) \in 0 .. Max(Columns(s) \cup {0})
  <2> DEFINE A == {c.column : c \in CellsInRow(s, n)}
  <2>1. A \subseteq Columns(s) /\ A # {}
      BY <1>6 DEF CellsInRow, Columns, CellRows
  <2>2. IsFiniteSet(A) /\ A \in SUBSET Nat
      BY <1>3, <2>1
  <2>3. RowWidth(s, n) = Max(A)
      BY DEF RowWidth
  <2> HIDE DEF A
  <2>4. Max(A) \in A
    <3>1. A \in SUBSET Int
        BY <2>2
    <3> QED BY ONLY <2>1, <2>2, <3>1, FiniteHasMax
  <2>5. Max(A) \in Columns(s) /\ Max(A) \in Nat
      BY <2>1, <2>2, <2>4
  <2> QED BY <1>5, <2>3, <2>5
<1> QED BY <1>2, <1>4, <1>5, <1>6

\* A file that passes the limits delivers no more than they allow: every row that
\* has a cell is allocated, and is as wide as the widest at most.
LEMMA PassedIsBounded ==
    ASSUME NEW s, IsSheet(s), ~SheetTooBig(s)
    PROVE  Delivered(s) <= MaxSheetCells
<1> DEFINE S == CellRows(s)
           a == AllocatedRows(s)
           m == Max(Columns(s) \cup {0})
           F == [n \in S |-> RowWidth(s, n)]
<1>1. /\ IsFiniteSet(S) /\ a \in Nat /\ S \subseteq 1 .. a /\ m \in Nat
      /\ \A n \in S : F[n] \in 0 .. m
    BY SheetReaches
<1>2. a * m <= MaxSheetCells /\ MaxSheetCells \in Nat
  <2>1. MaxSheetCells \in Nat /\ a * m \in Nat
      BY <1>1, WorkbookAssumption
  <2>2. ~(a * m > MaxSheetCells)
      BY DEF SheetTooBig
  <2> HIDE DEF a, m
  <2> QED BY <2>1, <2>2
<1>3. PICK f : IsSum(f, F, SUBSET S) /\ Delivered(s) = f[S]
    BY <1>1, DeliveredIsSum
<1> HIDE DEF S, a, m, F
<1>4. f[S] \in Nat /\ f[S] <= m * Cardinality(S)
    BY <1>1, <1>3, SumBounded
<1>5. Cardinality(S) \in Nat /\ Cardinality(S) <= a
  <2>1. IsFiniteSet(1 .. a) /\ Cardinality(1 .. a) = a
    <3>1. 1 \in Int /\ a \in Int
        BY <1>1
    <3>2. IsFiniteSet(1 .. a) /\ Cardinality(1 .. a) = IF 1 > a THEN 0 ELSE a - 1 + 1
        BY ONLY <3>1, FS_Interval
    <3> QED BY <1>1, <3>2
  <2>2. S \in SUBSET (1 .. a)
      BY <1>1
  <2>3. Cardinality(S) <= Cardinality(1 .. a)
      BY ONLY <2>1, <2>2, FS_Subset
  <2> QED BY <1>1, <2>1, <2>3, FS_CardinalityType
<1>6. m * Cardinality(S) <= a * m
  <2> DEFINE n == Cardinality(S)
  <2>1. n \in Nat /\ n <= a /\ a \in Nat /\ m \in Nat
      BY <1>1, <1>5
  <2> HIDE DEF n
  <2>2. m * n <= a * m
      BY ONLY <2>1
  <2> QED BY <2>2 DEF n
<1>7. m * Cardinality(S) \in Nat /\ a * m \in Nat
    BY <1>1, <1>5
<1> QED BY <1>2, <1>3, <1>4, <1>6, <1>7
-----------------------------------------------------------------------------
(* What is recorded for a workbook.                                        *)

\* A file without errors has a readable row wherever it has a row, from the
\* first on, and no two of a company on one day.
LEMMA FlawlessFile ==
    ASSUME NEW u, IsMasterUpload(u), FileErrors(u.book) = {}
    PROVE  /\ Parsed(u.book) = DataRows(u.book)
           /\ Parsed(u.book) = 1 .. Cardinality(Parsed(u.book))
           /\ \A i, j \in Parsed(u.book) : i # j =>
                  \/ u.book.rows[i].company # u.book.rows[j].company
                  \/ ~PeriodsMeet(u.book.rows[i], u.book.rows[j])
<1> DEFINE b == u.book
<1>1. /\ b.rows \in Seq({b.rows[i] : i \in DOMAIN b.rows}) /\ Len(b.rows) \in Nat
      /\ DOMAIN b.rows = 1 .. Len(b.rows)
      /\ \A i \in DOMAIN b.rows : IsDataRow(b.rows[i])
  <2>1. b.rows \in Seq({b.rows[i] : i \in DOMAIN b.rows})
      BY DEF IsMasterUpload
  <2> QED BY <2>1 DEF IsMasterUpload
<1>2. Stranded(b) = {} /\ DataRows(b) \ Parsed(b) = {} /\ Clashing(b) = {}
  <2>1. /\ {[row |-> i, code |-> "BLANK_ROW"] : i \in Stranded(b)} = {}
        /\ {[row |-> i, code |-> "INVALID"] : i \in DataRows(b) \ Parsed(b)} = {}
        /\ {[row |-> i, code |-> "PERIOD"] : i \in Clashing(b)} = {}
      BY DEF FileErrors
  <2> QED BY <2>1
<1>3. Parsed(b) = DataRows(b) /\ Parsed(b) \in SUBSET (1 .. Len(b.rows))
    BY <1>1, <1>2 DEF Parsed, DataRows
<1>4. \A i \in Parsed(b) : \A j \in 1 .. i : j \in Parsed(b)
  <2> SUFFICES ASSUME NEW i \in Parsed(b), NEW j \in 1 .. i PROVE j \in Parsed(b)
      OBVIOUS
  <2>1. i \in DataRows(b) /\ i \in 1 .. Len(b.rows) /\ j \in DOMAIN b.rows /\ j \in Int /\ i \in Int
      BY <1>1, <1>3
  <2>2. CASE j = i
      BY <2>2
  <2>3. CASE j # i
    <3>1. i > j
        BY <2>1, <2>3
    <3>2. b.rows[j].fault # "blank"
        BY <1>2, <2>1, <3>1 DEF Stranded
    <3> QED BY <1>3, <2>1, <3>2 DEF DataRows
  <2> QED BY <2>2, <2>3
<1>5. Parsed(b) = 1 .. Cardinality(Parsed(b))
    BY <1>1, <1>3, <1>4, WithoutGap
<1>6. ASSUME NEW i \in Parsed(b), NEW j \in Parsed(b), i # j,
             b.rows[i].company = b.rows[j].company
      PROVE  ~PeriodsMeet(b.rows[i], b.rows[j])
  <2>1. CASE i < j
      BY <1>2, <1>6, <2>1 DEF Clashing
  <2>2. CASE j < i
    <3>1. ~PeriodsMeet(b.rows[j], b.rows[i])
        BY <1>2, <1>6, <2>2 DEF Clashing
    <3> QED BY <3>1 DEF PeriodsMeet
  <2> QED BY <1>1, <1>3, <1>6, <2>1, <2>2
<1> QED BY <1>3, <1>5, <1>6

\* Rows that meet on a day have periods that meet.
LEMMA DayIsMet ==
    ASSUME NEW x, IsDataRow(x), NEW y, IsDataRow(y), NEW day \in 1 .. OpenEnd,
           x.from <= day, x.to = 0 \/ day <= x.to, y.from <= day, y.to = 0 \/ day <= y.to
    PROVE  PeriodsMeet(x, y)
BY WorkbookAssumption DEF IsDataRow, PeriodsMeet, End

\* A batch, what its drafts are and who may have published them.
BatchTrue(k, m, rows) ==
    /\ m.status \in {"SUCCEEDED", "FAILED"}
    /\ m.status = "FAILED" => rows = <<>> /\ m.errors # {}
    /\ m.status = "SUCCEEDED" =>
           /\ FileErrors(k.book) = {} /\ DOMAIN rows = Parsed(k.book)
           /\ m.accepted = Cardinality(DataRows(k.book))
    /\ m.total # 0 => m.total = LossTotal(k.book, DataRows(k.book))
    /\ DOMAIN rows \subseteq Parsed(k.book)
    /\ \A i \in DOMAIN rows :
           rows[i].status = "PUBLISHED" => SameSender[rows[i].reviewer] # SameSender[k.by]

\* A review under way is of a draft that is there, by somebody else.
ReviewTrue(review, drafts) ==
    review.pc = "publish" =>
        /\ review.key \in DOMAIN drafts /\ review.row \in DOMAIN drafts[review.key]
        /\ SameSender[review.who] # SameSender[review.key.by]

WorkbookInv ==
    /\ DOMAIN draft = Kept
    /\ \A k \in Kept : IsMasterUpload(k) /\ Key(k) = k /\ BatchTrue(k, masterBatch[k], draft[k])
    /\ clerks \in [Clerk -> [pc : {"idle", "record"}, upload : MasterUpload \cup {NoMasterUpload}]]
    /\ \A c \in Clerk : clerks[c].pc = "record" => clerks[c].upload \in MasterUpload
    /\ DOMAIN reviewers = Reviewer
    /\ \A r \in Reviewer : ReviewTrue(reviewers[r], draft)

\* A key is itself an upload, and its own key: names are normalised for good.
LEMMA KeyIs ==
    ASSUME NEW u, IsMasterUpload(u)
    PROVE  /\ IsMasterUpload(Key(u)) /\ Key(Key(u)) = Key(u)
           /\ Key(u) = [by |-> SameSender[u.by], name |-> u.name, book |-> u.book]
<1>1. Key(u) = [by |-> SameSender[u.by], name |-> u.name, book |-> u.book]
    BY DEF IsMasterUpload, Key
<1>2. SameSender[u.by] \in MasterSender /\ SameSender[SameSender[u.by]] = SameSender[u.by]
    BY WorkbookAssumption DEF IsMasterUpload
<1>3. Key(Key(u)) = Key(u)
    BY <1>1, <1>2 DEF Key
<1>4. IsMasterUpload(Key(u))
    BY <1>1, <1>2 DEF IsMasterUpload
<1> QED BY <1>1, <1>3, <1>4

LEMMA WorkbookInitially == WorkbookInit => WorkbookInv
BY DEF WorkbookInit, WorkbookInv, Kept, ReviewTrue

\* What the reader finds is what is recorded.
LEMMA NewBatchIsTrue ==
    ASSUME NEW k, NEW rows,
           rows = IF NewBatch(k.book).status = "FAILED" THEN <<>>
                  ELSE [i \in Parsed(k.book) |-> [status |-> "DRAFT", reviewer |-> "none"]]
    PROVE  BatchTrue(k, NewBatch(k.book), rows)
<1> DEFINE b == k.book
           m == NewBatch(b)
<1>1. /\ m.status = IF MasterErrors(b) = {} THEN "SUCCEEDED" ELSE "FAILED"
      /\ m.accepted = IF MasterErrors(b) = {} THEN Cardinality(DataRows(b)) ELSE 0
      /\ m.total = IF LossControl(b) >= LossLimit THEN 0 ELSE LossControl(b)
      /\ m.errors = MasterErrors(b)
    BY DEF NewBatch
<1>2. MasterErrors(b) = {} => FileErrors(b) = {}
    BY DEF MasterErrors
<1>3. m.total # 0 => m.total = LossTotal(b, DataRows(b))
    BY <1>1 DEF LossControl
<1>4. DOMAIN rows \subseteq Parsed(b) /\ \A i \in DOMAIN rows : rows[i].status # "PUBLISHED"
  <2>1. CASE rows = <<>>
      BY <2>1
  <2>2. CASE rows = [i \in Parsed(b) |-> [status |-> "DRAFT", reviewer |-> "none"]]
      BY <2>2
  <2> QED BY <2>1, <2>2
<1> HIDE DEF m
<1> QED BY <1>1, <1>2, <1>3, <1>4 DEF BatchTrue, m
-----------------------------------------------------------------------------
(* The steps.                                                              *)

\* Versions, now and after a step.
LEMMA VersionsAre ==
    ASSUME NEW status, NEW k, NEW i
    PROVE  /\ [key |-> k, row |-> i] \in VersionsIn(status) <=>
                  k \in Kept /\ i \in DOMAIN draft[k] /\ draft[k][i].status = status
           /\ ([key |-> k, row |-> i] \in VersionsIn(status))' <=>
                  k \in Kept' /\ i \in DOMAIN draft'[k] /\ draft'[k][i].status = status
<1> DEFINE v == [key |-> k, row |-> i]
<1>1. v \in VersionsIn(status) <=> k \in Kept /\ i \in DOMAIN draft[k] /\ draft[k][i].status = status
  <2> DEFINE Own(j) == {[key |-> j, row |-> n] : n \in {n \in DOMAIN draft[j] : draft[j][n].status = status}}
  <2>1. VersionsIn(status) = UNION {Own(j) : j \in Kept}
      BY DEF VersionsIn
  <2>2. \A j : v \in Own(j) <=> j = k /\ i \in DOMAIN draft[k] /\ draft[k][i].status = status
      OBVIOUS
  <2> HIDE DEF Own
  <2>3. v \in VersionsIn(status) <=> \E j \in Kept : v \in Own(j)
      BY <2>1
  <2> QED BY <2>2, <2>3
<1>2. (v \in VersionsIn(status))' <=>
          k \in Kept' /\ i \in DOMAIN draft'[k] /\ draft'[k][i].status = status
  <2> DEFINE Own(j) == {[key |-> j, row |-> n] : n \in {n \in DOMAIN draft'[j] : draft'[j][n].status = status}}
  <2>1. VersionsIn(status)' = UNION {Own(j) : j \in Kept'}
      BY DEF VersionsIn
  <2>2. \A j : v \in Own(j) <=> j = k /\ i \in DOMAIN draft'[k] /\ draft'[k][i].status = status
      OBVIOUS
  <2> HIDE DEF Own
  <2>3. v \in VersionsIn(status)' <=> \E j \in Kept' : v \in Own(j)
      BY <2>1
  <2> QED BY <2>2, <2>3
<1> QED BY <1>1, <1>2

LEMMA VersionShape ==
    ASSUME NEW status
    PROVE  /\ \A v \in VersionsIn(status) : v = [key |-> v.key, row |-> v.row]
           /\ \A v \in VersionsIn(status)' : v = [key |-> v.key, row |-> v.row]
BY DEF VersionsIn

LEMMA KeepsProbeReplay ==
    ASSUME WorkbookInv, NEW c \in Clerk, NEW u \in MasterUpload, ProbeReplay(c, u)
    PROVE  WorkbookInv'
<1>1. /\ UNCHANGED <<masterBatch, draft, reviewers>>
      /\ clerks' = [clerks EXCEPT ![c] = [pc |-> "record", upload |-> u]]
    BY DEF ProbeReplay, ClerkGoes
<1> QED BY <1>1 DEF WorkbookInv, Kept

LEMMA KeepsDropUpload ==
    ASSUME WorkbookInv, NEW c \in Clerk, DropUpload(c)
    PROVE  WorkbookInv'
<1>1. /\ UNCHANGED <<masterBatch, draft, reviewers>>
      /\ clerks' = [clerks EXCEPT ![c] = [pc |-> "idle", upload |-> NoMasterUpload]]
    BY DEF DropUpload, ClerkGoes
<1> QED BY <1>1 DEF WorkbookInv, Kept

\* A workbook is recorded under a key that has none, or changes nothing.
LEMMA RecordingIs ==
    ASSUME WorkbookInv, NEW c \in Clerk, RecordWorkbook(c)
    PROVE  \/ UNCHANGED <<masterBatch, draft>>
           \/ LET k == Key(clerks[c].upload)
                  rows == IF NewBatch(k.book).status = "FAILED" THEN <<>>
                          ELSE [i \in Parsed(k.book) |-> [status |-> "DRAFT", reviewer |-> "none"]]
              IN /\ IsMasterUpload(k) /\ Key(k) = k /\ k \notin Kept
                 /\ DOMAIN masterBatch' = Kept \cup {k} /\ DOMAIN draft' = Kept \cup {k}
                 /\ masterBatch'[k] = NewBatch(k.book) /\ draft'[k] = rows
                 /\ \A j \in Kept : masterBatch'[j] = masterBatch[j] /\ draft'[j] = draft[j]
<1> DEFINE u == clerks[c].upload
           k == Key(u)
           rows == IF NewBatch(k.book).status = "FAILED" THEN <<>>
                   ELSE [i \in Parsed(k.book) |-> [status |-> "DRAFT", reviewer |-> "none"]]
<1>1. IsMasterUpload(u)
    BY WorkbookAssumption DEF WorkbookInv, RecordWorkbook
<1>2. IsMasterUpload(k) /\ Key(k) = k /\ k.book = u.book
    BY <1>1, KeyIs
<1> SUFFICES ASSUME ~UNCHANGED <<masterBatch, draft>>
             PROVE  /\ k \notin Kept
                    /\ DOMAIN masterBatch' = Kept \cup {k} /\ DOMAIN draft' = Kept \cup {k}
                    /\ masterBatch'[k] = NewBatch(k.book) /\ draft'[k] = rows
                    /\ \A j \in Kept : masterBatch'[j] = masterBatch[j] /\ draft'[j] = draft[j]
    BY <1>2
<1>3. /\ k \notin Kept
      /\ masterBatch' = Under(k, NewBatch(u.book), masterBatch)
      /\ draft' = Under(k, IF NewBatch(u.book).status = "FAILED" THEN <<>>
                           ELSE [i \in Parsed(u.book) |-> [status |-> "DRAFT", reviewer |-> "none"]], draft)
    BY DEF RecordWorkbook, RecordedMeanwhile
<1>4. masterBatch' = Under(k, NewBatch(k.book), masterBatch) /\ draft' = Under(k, rows, draft)
    BY <1>2, <1>3
<1>5. DOMAIN draft = Kept /\ DOMAIN masterBatch = Kept
    BY DEF WorkbookInv, Kept
<1> HIDE DEF u, k, rows
<1> QED BY <1>3, <1>4, <1>5 DEF Under

LEMMA KeepsRecordWorkbook ==
    ASSUME WorkbookInv, NEW c \in Clerk, RecordWorkbook(c)
    PROVE  WorkbookInv'
<1>1. /\ clerks' = [clerks EXCEPT ![c] = [pc |-> "idle", upload |-> NoMasterUpload]]
      /\ reviewers' = reviewers
    BY DEF RecordWorkbook, ClerkGoes
<1>2. /\ clerks' \in [Clerk -> [pc : {"idle", "record"}, upload : MasterUpload \cup {NoMasterUpload}]]
      /\ \A d \in Clerk : clerks'[d].pc = "record" => clerks'[d].upload \in MasterUpload
    BY <1>1 DEF WorkbookInv
<1>3. CASE UNCHANGED <<masterBatch, draft>>
    BY <1>1, <1>2, <1>3 DEF WorkbookInv, Kept
<1>4. CASE ~UNCHANGED <<masterBatch, draft>>
  <2> DEFINE k == Key(clerks[c].upload)
             rows == IF NewBatch(k.book).status = "FAILED" THEN <<>>
                     ELSE [i \in Parsed(k.book) |-> [status |-> "DRAFT", reviewer |-> "none"]]
  <2>1. /\ IsMasterUpload(k) /\ Key(k) = k /\ k \notin Kept
        /\ DOMAIN masterBatch' = Kept \cup {k} /\ DOMAIN draft' = Kept \cup {k}
        /\ masterBatch'[k] = NewBatch(k.book) /\ draft'[k] = rows
        /\ \A j \in Kept : masterBatch'[j] = masterBatch[j] /\ draft'[j] = draft[j]
      BY <1>4, RecordingIs
  <2>2. BatchTrue(k, masterBatch'[k], draft'[k])
    <3>1. BatchTrue(k, NewBatch(k.book), rows)
      <4> HIDE DEF k
      <4> QED BY NewBatchIsTrue
    <3> HIDE DEF k, rows
    <3> QED BY <2>1, <3>1
  <2> HIDE DEF k, rows
  <2>3. Kept' = Kept \cup {k}
      BY <2>1 DEF Kept
  <2>4. \A j \in Kept' : IsMasterUpload(j) /\ Key(j) = j /\ BatchTrue(j, masterBatch'[j], draft'[j])
      BY <2>1, <2>2, <2>3 DEF WorkbookInv
  <2>5. \A r \in Reviewer : ReviewTrue(reviewers'[r], draft')
      BY <1>1, <2>1 DEF WorkbookInv, ReviewTrue
  <2> QED BY <1>1, <1>2, <2>1, <2>3, <2>4, <2>5 DEF WorkbookInv
<1> QED BY <1>3, <1>4

LEMMA KeepsOpenReview ==
    ASSUME WorkbookInv, NEW r \in Reviewer, NEW v \in VersionsIn("DRAFT"), NEW who \in MasterSender,
           OpenReview(r, v, who)
    PROVE  WorkbookInv'
<1> DEFINE review == [pc |-> "publish", key |-> v.key, row |-> v.row, who |-> SameSender[who]]
<1>1. UNCHANGED <<masterBatch, draft, clerks>> /\ reviewers' = [reviewers EXCEPT ![r] = review]
    BY DEF OpenReview
<1>2. v.key \in Kept /\ v.row \in DOMAIN draft[v.key]
    BY VersionShape, VersionsAre
<1>3. SameSender[SameSender[who]] # SameSender[v.key.by]
  <2>1. IsMasterUpload(v.key) /\ Key(v.key) = v.key
      BY <1>2 DEF WorkbookInv
  <2>2. SameSender[v.key.by] = v.key.by
      BY <2>1, KeyIs
  <2> QED BY <2>2, WorkbookAssumption DEF OpenReview, IsMaker
<1>4. ReviewTrue(review, draft)
    BY <1>2, <1>3 DEF ReviewTrue, WorkbookInv
<1> HIDE DEF review
<1>5. \A q \in Reviewer : ReviewTrue(reviewers'[q], draft')
    BY <1>1, <1>4 DEF WorkbookInv
<1>6. DOMAIN reviewers' = Reviewer
    BY <1>1 DEF WorkbookInv
<1> QED BY <1>1, <1>5, <1>6 DEF WorkbookInv, Kept

\* Publishing changes the version that is reviewed, which fits its company and
\* meets none of it that is published, or nothing.
LEMMA PublishingIs ==
    ASSUME WorkbookInv, NEW r \in Reviewer, Publish(r)
    PROVE  LET k == reviewers[r].key
               i == reviewers[r].row
               v == [key |-> k, row |-> i]
               after == [status |-> "PUBLISHED", reviewer |-> reviewers[r].who]
           IN \/ draft' = draft
              \/ /\ StillFits(v) /\ Overlapping(v) = {}
                 /\ k \in Kept /\ i \in DOMAIN draft[k] /\ SameSender[after.reviewer] # SameSender[k.by]
                 /\ DOMAIN draft' = DOMAIN draft /\ DOMAIN draft'[k] = DOMAIN draft[k]
                 /\ draft'[k][i] = after
                 /\ \A j \in DOMAIN draft[k] : j # i => draft'[k][j] = draft[k][j]
                 /\ \A j \in DOMAIN draft : j # k => draft'[j] = draft[j]
<1> DEFINE k == reviewers[r].key
           i == reviewers[r].row
           v == [key |-> k, row |-> i]
           after == [status |-> "PUBLISHED", reviewer |-> reviewers[r].who]
<1>1. reviewers[r].pc = "publish"
    BY DEF Publish
<1>2. k \in DOMAIN draft /\ i \in DOMAIN draft[k] /\ SameSender[after.reviewer] # SameSender[k.by]
    BY <1>1 DEF WorkbookInv, ReviewTrue
<1>3. CASE StillFits(v) /\ Overlapping(v) = {}
  <2>1. draft' = [draft EXCEPT ![k][i] = after]
      BY <1>3 DEF Publish
  <2> HIDE DEF k, i, v, after
  <2>2. /\ DOMAIN draft' = DOMAIN draft /\ draft'[k] = [draft[k] EXCEPT ![i] = after]
        /\ \A j \in DOMAIN draft : j # k => draft'[j] = draft[j]
      BY <1>2, <2>1
  <2>3. DOMAIN draft'[k] = DOMAIN draft[k] /\ draft'[k][i] = after
        /\ \A j \in DOMAIN draft[k] : j # i => draft'[k][j] = draft[k][j]
      BY <1>2, <2>2
  <2> QED BY <1>2, <1>3, <2>2, <2>3 DEF WorkbookInv, k, i, v, after
<1>4. CASE ~(StillFits(v) /\ Overlapping(v) = {})
    BY <1>4 DEF Publish
<1> QED BY <1>3, <1>4
LEMMA KeepsPublish ==
    ASSUME WorkbookInv, NEW r \in Reviewer, Publish(r)
    PROVE  WorkbookInv'
<1>1. /\ UNCHANGED <<masterBatch, clerks>>
      /\ DOMAIN reviewers' = Reviewer
      /\ \A q \in Reviewer : reviewers'[q].pc = "publish" => reviewers'[q] = reviewers[q]
    BY DEF Publish, WorkbookInv
<1> DEFINE k == reviewers[r].key
           i == reviewers[r].row
<1>2. /\ DOMAIN draft' = DOMAIN draft
      /\ \A j \in DOMAIN draft : DOMAIN draft'[j] = DOMAIN draft[j]
      /\ \A j \in DOMAIN draft : \A n \in DOMAIN draft[j] :
             \/ draft'[j][n] = draft[j][n]
             \/ SameSender[draft'[j][n].reviewer] # SameSender[j.by]
      /\ \A j \in DOMAIN draft : draft[j] = <<>> => draft'[j] = draft[j]
  <2>1. CASE draft' = draft
      BY <2>1
  <2>2. CASE draft' # draft
    <3> DEFINE after == [status |-> "PUBLISHED", reviewer |-> reviewers[r].who]
    <3>1. /\ k \in Kept /\ i \in DOMAIN draft[k] /\ SameSender[after.reviewer] # SameSender[k.by]
          /\ DOMAIN draft' = DOMAIN draft /\ DOMAIN draft'[k] = DOMAIN draft[k]
          /\ draft'[k][i] = after
          /\ \A j \in DOMAIN draft[k] : j # i => draft'[k][j] = draft[k][j]
          /\ \A j \in DOMAIN draft : j # k => draft'[j] = draft[j]
        BY <2>2, PublishingIs
    <3>2. DOMAIN <<>> = {}
        OBVIOUS
    <3> HIDE DEF k, i, after
    <3> QED BY <3>1, <3>2
  <2> QED BY <2>1, <2>2
<1>3. ASSUME NEW j \in Kept PROVE BatchTrue(j, masterBatch'[j], draft'[j])
  <2>1. BatchTrue(j, masterBatch[j], draft[j]) /\ j \in DOMAIN draft
      BY DEF WorkbookInv
  <2> QED BY <1>1, <1>2, <2>1 DEF BatchTrue
<1>4. \A q \in Reviewer : ReviewTrue(reviewers'[q], draft')
    BY <1>1, <1>2 DEF WorkbookInv, ReviewTrue
<1> QED BY <1>1, <1>2, <1>3, <1>4 DEF WorkbookInv, Kept

LEMMA WorkbookStep == WorkbookInv /\ [WorkbookNext]_workbookVars => WorkbookInv'
<1> SUFFICES ASSUME WorkbookInv, [WorkbookNext]_workbookVars PROVE WorkbookInv'
    OBVIOUS
<1>1. CASE \E c \in Clerk, u \in MasterUpload : ProbeReplay(c, u)
    BY <1>1, KeepsProbeReplay
<1>2. CASE \E c \in Clerk : RecordWorkbook(c)
    BY <1>2, KeepsRecordWorkbook
<1>3. CASE \E c \in Clerk : DropUpload(c)
    BY <1>3, KeepsDropUpload
<1>4. CASE \E r \in Reviewer, v \in VersionsIn("DRAFT"), who \in MasterSender : OpenReview(r, v, who)
    BY <1>4, KeepsOpenReview
<1>5. CASE \E r \in Reviewer : Publish(r)
    BY <1>5, KeepsPublish
<1>6. CASE \E c \in DOMAIN firm : \E state \in FirmState[c] : ChangeFirm(c, state)
    BY <1>6 DEF ChangeFirm, WorkbookInv, Kept
<1>7. CASE UNCHANGED workbookVars
    BY <1>7 DEF workbookVars, WorkbookInv, Kept
<1> QED BY <1>1, <1>2, <1>3, <1>4, <1>5, <1>6, <1>7 DEF WorkbookNext

-----------------------------------------------------------------------------
(* What a reader of the batches and of the lookup relies on.               *)

LEMMA WorkbooksShown ==
    WorkbookInv => /\ ReadingIsBounded /\ AllOrNothing /\ TotalOfEveryRow /\ MakerNeverReviews
                   /\ OneBatchPerUpload
<1> SUFFICES ASSUME WorkbookInv
             PROVE  /\ ReadingIsBounded /\ AllOrNothing /\ TotalOfEveryRow /\ MakerNeverReviews
                    /\ OneBatchPerUpload
    OBVIOUS
<1>1. \A k \in Kept : IsMasterUpload(k) /\ Key(k) = k /\ BatchTrue(k, masterBatch[k], draft[k])
    BY DEF WorkbookInv
<1>2. ReadingIsBounded
  <2> SUFFICES ASSUME NEW k \in Kept, Preflight(k.book) = "read", NEW p \in WorksheetParts(k.book)
               PROVE  Delivered(k.book.sheets[p]) <= MaxSheetCells
      BY DEF ReadingIsBounded
  <2>1. Coherent(k.book) /\ ~SheetTooBig(k.book.sheets[p])
      BY DEF Preflight
  <2>2. IsSheet(k.book.sheets[p])
      BY <1>1, <2>1 DEF Coherent, IsMasterUpload
  <2> QED BY <2>1, <2>2, PassedIsBounded
<1>3. AllOrNothing
  <2> SUFFICES ASSUME NEW k \in Kept
               PROVE  /\ masterBatch[k].status = "FAILED" => draft[k] = <<>> /\ masterBatch[k].errors # {}
                      /\ masterBatch[k].status = "SUCCEEDED" =>
                             /\ DOMAIN draft[k] = 1 .. Cardinality(DOMAIN draft[k])
                             /\ Cardinality(DOMAIN draft[k]) = masterBatch[k].accepted
                             /\ \A i, j \in DOMAIN draft[k] : i # j =>
                                    \/ k.book.rows[i].company # k.book.rows[j].company
                                    \/ \A day \in 1 .. OpenEnd :
                                           ~(/\ k.book.rows[i].from <= day
                                             /\ k.book.rows[i].to = 0 \/ day <= k.book.rows[i].to
                                             /\ k.book.rows[j].from <= day
                                             /\ k.book.rows[j].to = 0 \/ day <= k.book.rows[j].to)
      BY DEF AllOrNothing
  <2>1. masterBatch[k].status = "FAILED" => draft[k] = <<>> /\ masterBatch[k].errors # {}
      BY <1>1 DEF BatchTrue
  <2>2. ASSUME masterBatch[k].status = "SUCCEEDED"
        PROVE  /\ DOMAIN draft[k] = 1 .. Cardinality(DOMAIN draft[k])
               /\ Cardinality(DOMAIN draft[k]) = masterBatch[k].accepted
               /\ \A i, j \in DOMAIN draft[k] : i # j =>
                      \/ k.book.rows[i].company # k.book.rows[j].company
                      \/ \A day \in 1 .. OpenEnd :
                             ~(/\ k.book.rows[i].from <= day
                               /\ k.book.rows[i].to = 0 \/ day <= k.book.rows[i].to
                               /\ k.book.rows[j].from <= day
                               /\ k.book.rows[j].to = 0 \/ day <= k.book.rows[j].to)
    <3>1. /\ FileErrors(k.book) = {} /\ DOMAIN draft[k] = Parsed(k.book)
          /\ masterBatch[k].accepted = Cardinality(DataRows(k.book))
        BY <1>1, <2>2 DEF BatchTrue
    <3>2. /\ Parsed(k.book) = DataRows(k.book) /\ Parsed(k.book) = 1 .. Cardinality(Parsed(k.book))
          /\ \A i, j \in Parsed(k.book) : i # j =>
                 \/ k.book.rows[i].company # k.book.rows[j].company
                 \/ ~PeriodsMeet(k.book.rows[i], k.book.rows[j])
        BY <1>1, <3>1, FlawlessFile
    <3>3. \A i \in Parsed(k.book) : IsDataRow(k.book.rows[i])
        BY <1>1 DEF Parsed, DataRows, IsMasterUpload
    <3>4. \A i, j \in Parsed(k.book) : ~PeriodsMeet(k.book.rows[i], k.book.rows[j]) =>
              \A day \in 1 .. OpenEnd :
                  ~(/\ k.book.rows[i].from <= day
                    /\ k.book.rows[i].to = 0 \/ day <= k.book.rows[i].to
                    /\ k.book.rows[j].from <= day
                    /\ k.book.rows[j].to = 0 \/ day <= k.book.rows[j].to)
        BY <3>3, DayIsMet
    <3> QED BY <3>1, <3>2, <3>4
  <2> QED BY <2>1, <2>2
<1>4. TotalOfEveryRow
    BY <1>1 DEF TotalOfEveryRow, BatchTrue
<1>5. MakerNeverReviews
  <2> SUFFICES ASSUME NEW v \in VersionsIn("PUBLISHED")
               PROVE  SameSender[draft[v.key][v.row].reviewer] # SameSender[v.key.by]
      BY DEF MakerNeverReviews
  <2>1. v.key \in Kept /\ v.row \in DOMAIN draft[v.key] /\ draft[v.key][v.row].status = "PUBLISHED"
      BY VersionShape, VersionsAre
  <2> QED BY <1>1, <2>1 DEF BatchTrue
<1>6. OneBatchPerUpload
    BY <1>1 DEF OneBatchPerUpload
<1> QED BY <1>2, <1>3, <1>4, <1>5, <1>6

\* Drafts are of rows that were read.
LEMMA RowsAreTyped ==
    ASSUME WorkbookInv, NEW k \in Kept, NEW i \in DOMAIN draft[k]
    PROVE  IsDataRow(k.book.rows[i])
BY DEF WorkbookInv, BatchTrue, Parsed, DataRows, IsMasterUpload

\* A step that changes drafts adds one version to those that are published, which
\* fits and meets none, or none.
LEMMA PublishedGrow ==
    ASSUME WorkbookInv, WorkbookNext
    PROVE  \/ VersionsIn("PUBLISHED")' = VersionsIn("PUBLISHED")
           \/ \E v : /\ VersionsIn("PUBLISHED")' = VersionsIn("PUBLISHED") \cup {v}
                     /\ StillFits(v) /\ Overlapping(v) = {} /\ IsDataRow(RowOf(v))
<1>1. CASE UNCHANGED <<masterBatch, draft>>
    BY <1>1 DEF VersionsIn, Kept
<1>2. ASSUME NEW c \in Clerk, RecordWorkbook(c), ~UNCHANGED <<masterBatch, draft>>
      PROVE  VersionsIn("PUBLISHED")' = VersionsIn("PUBLISHED")
  <2> DEFINE k == Key(clerks[c].upload)
             rows == IF NewBatch(k.book).status = "FAILED" THEN <<>>
                     ELSE [i \in Parsed(k.book) |-> [status |-> "DRAFT", reviewer |-> "none"]]
  <2>1. /\ k \notin Kept /\ DOMAIN masterBatch' = Kept \cup {k} /\ draft'[k] = rows
        /\ \A j \in Kept : draft'[j] = draft[j]
      BY <1>2, RecordingIs
  <2>2. \A i \in DOMAIN rows : rows[i].status # "PUBLISHED"
    <3>1. CASE rows = <<>>
        BY <3>1
    <3>2. CASE rows = [i \in Parsed(k.book) |-> [status |-> "DRAFT", reviewer |-> "none"]]
        BY <3>2
    <3> QED BY <3>1, <3>2
  <2> HIDE DEF k, rows
  <2>3. Kept' = Kept \cup {k}
      BY <2>1 DEF Kept
  <2>4. ASSUME NEW j, NEW i
        PROVE  [key |-> j, row |-> i] \in VersionsIn("PUBLISHED")' <=>
                   [key |-> j, row |-> i] \in VersionsIn("PUBLISHED")
    <3> DEFINE v == [key |-> j, row |-> i]
    <3>1. /\ v \in VersionsIn("PUBLISHED") <=>
                 j \in Kept /\ i \in DOMAIN draft[j] /\ draft[j][i].status = "PUBLISHED"
          /\ v \in VersionsIn("PUBLISHED")' <=>
                 j \in Kept' /\ i \in DOMAIN draft'[j] /\ draft'[j][i].status = "PUBLISHED"
        BY VersionsAre
    <3> HIDE DEF v
    <3> QED BY <2>1, <2>2, <2>3, <3>1 DEF v
  <2> QED BY <2>4, VersionShape
<1>3. ASSUME NEW r \in Reviewer, Publish(r), draft' # draft
      PROVE  \E v : /\ VersionsIn("PUBLISHED")' = VersionsIn("PUBLISHED") \cup {v}
                    /\ StillFits(v) /\ Overlapping(v) = {} /\ IsDataRow(RowOf(v))
  <2> DEFINE k == reviewers[r].key
             i == reviewers[r].row
             v == [key |-> k, row |-> i]
             after == [status |-> "PUBLISHED", reviewer |-> reviewers[r].who]
  <2>0. /\ StillFits(v) /\ Overlapping(v) = {}
        /\ k \in Kept /\ i \in DOMAIN draft[k] /\ SameSender[after.reviewer] # SameSender[k.by]
        /\ DOMAIN draft' = DOMAIN draft /\ DOMAIN draft'[k] = DOMAIN draft[k]
        /\ draft'[k][i] = after
        /\ \A j \in DOMAIN draft[k] : j # i => draft'[k][j] = draft[k][j]
        /\ \A j \in DOMAIN draft : j # k => draft'[j] = draft[j]
      BY <1>3, PublishingIs
  <2>1. /\ StillFits(v) /\ Overlapping(v) = {}
        /\ k \in Kept /\ i \in DOMAIN draft[k]
        /\ DOMAIN draft' = DOMAIN draft /\ DOMAIN draft'[k] = DOMAIN draft[k]
        /\ draft'[k][i].status = "PUBLISHED"
        /\ \A j \in DOMAIN draft[k] : j # i => draft'[k][j] = draft[k][j]
        /\ \A j \in DOMAIN draft : j # k => draft'[j] = draft[j]
    <3> HIDE DEF k, i, v
    <3> QED BY <2>0
  <2>2. Kept' = Kept /\ DOMAIN draft = Kept
      BY <1>3 DEF Publish, Kept, WorkbookInv
  <2> HIDE DEF k, i, after
  <2>3. ASSUME NEW j, NEW n
        PROVE  [key |-> j, row |-> n] \in VersionsIn("PUBLISHED")' <=>
                   \/ [key |-> j, row |-> n] \in VersionsIn("PUBLISHED")
                   \/ j = k /\ n = i
    <3> DEFINE w == [key |-> j, row |-> n]
    <3>1. /\ w \in VersionsIn("PUBLISHED") <=>
                 j \in Kept /\ n \in DOMAIN draft[j] /\ draft[j][n].status = "PUBLISHED"
          /\ w \in VersionsIn("PUBLISHED")' <=>
                 j \in Kept' /\ n \in DOMAIN draft'[j] /\ draft'[j][n].status = "PUBLISHED"
        BY VersionsAre
    <3> HIDE DEF w
    <3>2. CASE j # k
        BY <2>1, <2>2, <3>1, <3>2 DEF w
    <3>3. CASE j = k /\ n # i
        BY <2>1, <2>2, <3>1, <3>3 DEF w
    <3>4. CASE j = k /\ n = i
        BY <2>1, <2>2, <3>1, <3>4 DEF w
    <3> QED BY <3>2, <3>3, <3>4
  <2>4. VersionsIn("PUBLISHED")' = VersionsIn("PUBLISHED") \cup {v}
      BY <2>3, VersionShape
  <2>5. IsDataRow(RowOf(v))
    <3>1. v.key = k /\ v.row = i
        OBVIOUS
    <3> HIDE DEF v
    <3> QED BY <2>1, <3>1, RowsAreTyped DEF RowOf
  <2> QED BY <2>1, <2>4, <2>5
<1>4. \/ UNCHANGED <<masterBatch, draft>>
      \/ \E c \in Clerk : RecordWorkbook(c)
      \/ \E r \in Reviewer : Publish(r)
    BY DEF WorkbookNext, ProbeReplay, DropUpload, OpenReview, ChangeFirm
<1>5. \A r \in Reviewer : Publish(r) => masterBatch' = masterBatch
    BY DEF Publish
<1> QED BY <1>1, <1>2, <1>3, <1>4, <1>5

\* What the three action properties say of every step.
LEMMA WorkbookSteps ==
    ASSUME WorkbookInv, [WorkbookNext]_workbookVars
    PROVE  /\ \A k \in Kept : masterBatch'[k] = masterBatch[k] /\ DOMAIN draft'[k] = DOMAIN draft[k]
           /\ \A c \in DOMAIN firm, day \in 1 .. OpenEnd :
                  LookupMatches(c, day) # {} => LookupMatches(c, day)' = LookupMatches(c, day)
           /\ \A v \in VersionsIn("PUBLISHED")' \ VersionsIn("PUBLISHED") :
                  /\ RowOf(v).company \in DOMAIN firm
                  /\ firm[RowOf(v).company].active /\ firm[RowOf(v).company].name = RowOf(v).name
<1>1. CASE UNCHANGED workbookVars
  <2>1. VersionsIn("PUBLISHED")' = VersionsIn("PUBLISHED")
      BY <1>1 DEF workbookVars, VersionsIn, Kept
  <2>2. \A c, day : LookupMatches(c, day)' = LookupMatches(c, day)
      BY <2>1 DEF LookupMatches
  <2>3. masterBatch' = masterBatch /\ draft' = draft
      BY <1>1 DEF workbookVars
  <2> QED BY <2>1, <2>2, <2>3
<1>2. CASE WorkbookNext
  <2>1. \A k \in Kept : masterBatch'[k] = masterBatch[k] /\ DOMAIN draft'[k] = DOMAIN draft[k]
    <3>1. \A c \in Clerk : RecordWorkbook(c) =>
              \A k \in Kept : masterBatch'[k] = masterBatch[k] /\ draft'[k] = draft[k]
        BY RecordingIs
    <3>2. ASSUME NEW r \in Reviewer, Publish(r)
          PROVE  \A k \in Kept : masterBatch'[k] = masterBatch[k] /\ DOMAIN draft'[k] = DOMAIN draft[k]
      <4>1. masterBatch' = masterBatch /\ DOMAIN draft = Kept
          BY <3>2 DEF Publish, WorkbookInv
      <4>2. CASE draft' = draft
          BY <4>1, <4>2
      <4>3. CASE draft' # draft
          BY <3>2, <4>1, <4>3, PublishingIs
      <4> QED BY <4>2, <4>3
    <3> QED BY <1>2, <3>1, <3>2 DEF WorkbookNext, ProbeReplay, DropUpload, OpenReview, ChangeFirm
  <2>2. ASSUME NEW c, NEW day \in 1 .. OpenEnd, LookupMatches(c, day) # {}
        PROVE  LookupMatches(c, day)' = LookupMatches(c, day)
    <3>1. ASSUME NEW v, VersionsIn("PUBLISHED")' = VersionsIn("PUBLISHED") \cup {v},
                 Overlapping(v) = {}, IsDataRow(RowOf(v))
          PROVE  LookupMatches(c, day)' = LookupMatches(c, day)
      <4>1. PICK w \in VersionsIn("PUBLISHED") :
                RowOf(w).company = c /\ RowOf(w).from <= day /\ day <= End(RowOf(w))
          BY <2>2 DEF LookupMatches
      <4>2. ~(RowOf(v).company = c /\ RowOf(v).from <= day /\ day <= End(RowOf(v)))
        <5>1. IsDataRow(RowOf(w))
          <6>1. w.key \in Kept /\ w.row \in DOMAIN draft[w.key]
              BY VersionShape, VersionsAre
          <6> QED BY <6>1, RowsAreTyped DEF RowOf
        <5>2. RowOf(w).company # RowOf(v).company \/ ~PeriodsMeet(RowOf(v), RowOf(w))
            BY <3>1 DEF Overlapping, SameFirmPublished
        <5>3. ASSUME NEW x, IsDataRow(x), NEW y, IsDataRow(y),
                     x.from <= day, day <= End(x), y.from <= day, day <= End(y)
              PROVE  PeriodsMeet(x, y)
            BY <5>3, WorkbookAssumption DEF IsDataRow, PeriodsMeet, End
        <5> QED BY <3>1, <4>1, <5>1, <5>2, <5>3
      <4> QED BY <3>1, <4>2 DEF LookupMatches
    <3>2. ASSUME VersionsIn("PUBLISHED")' = VersionsIn("PUBLISHED")
          PROVE  LookupMatches(c, day)' = LookupMatches(c, day)
        BY <3>2 DEF LookupMatches
    <3> QED BY <1>2, <3>1, <3>2, PublishedGrow
  <2>3. ASSUME NEW v, StillFits(v)
        PROVE  /\ RowOf(v).company \in DOMAIN firm
               /\ firm[RowOf(v).company].active /\ firm[RowOf(v).company].name = RowOf(v).name
      BY <2>3 DEF StillFits, CompanyFault
  <2>4. \A v \in VersionsIn("PUBLISHED")' \ VersionsIn("PUBLISHED") :
            /\ RowOf(v).company \in DOMAIN firm
            /\ firm[RowOf(v).company].active /\ firm[RowOf(v).company].name = RowOf(v).name
      BY <1>2, <2>3, PublishedGrow
  <2> QED BY <2>1, <2>2, <2>4
<1> QED BY <1>1, <1>2

\* Of a workbook everything is recorded or nothing, once for its sender and with
\* the total of all its rows, and no file that is read passes the limits; what is
\* published was reviewed by somebody else, fits its company then, and answers
\* alone for its days from then on, whatever is uploaded, reviewed and renamed at
\* the same time.
THEOREM WorkbooksAreSound == WorkbookSpec => WorkbookSound
<1>1. WorkbookInit => WorkbookInv
    BY WorkbookInitially
<1>2. WorkbookInv /\ [WorkbookNext]_workbookVars => WorkbookInv'
    BY WorkbookStep
<1>3. WorkbookInv => /\ ReadingIsBounded /\ AllOrNothing /\ TotalOfEveryRow /\ MakerNeverReviews
                     /\ OneBatchPerUpload
    BY WorkbooksShown
<1>4. WorkbookInv /\ [WorkbookNext]_workbookVars =>
          [\A k \in Kept : masterBatch'[k] = masterBatch[k] /\ DOMAIN draft'[k] = DOMAIN draft[k]]_workbookVars
    BY WorkbookSteps
<1>5. WorkbookInv /\ [WorkbookNext]_workbookVars =>
          [draft' # draft =>
            \A c \in DOMAIN firm, day \in 1 .. OpenEnd :
                LookupMatches(c, day) # {} => LookupMatches(c, day)' = LookupMatches(c, day)]_workbookVars
    BY WorkbookSteps
<1>6. WorkbookInv /\ [WorkbookNext]_workbookVars =>
          [draft' # draft =>
            \A v \in VersionsIn("PUBLISHED")' \ VersionsIn("PUBLISHED") :
                /\ RowOf(v).company \in DOMAIN firm
                /\ firm[RowOf(v).company].active /\ firm[RowOf(v).company].name = RowOf(v).name]_workbookVars
    BY WorkbookSteps
<1> QED
    BY <1>1, <1>2, <1>3, <1>4, <1>5, <1>6, PTL
       DEF WorkbookSpec, WorkbookSound, BatchesStay, AnswersStay, PublishedFits
============================================================================
