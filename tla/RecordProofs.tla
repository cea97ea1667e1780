---------------------------- MODULE RecordProofs ----------------------------
(***************************************************************************)
(* Proofs about the parts that keep records, each on its own: the versions *)
(* that are governed, signing in, imports and the rollback drill.          *)
(***************************************************************************)
EXTENDS Governance, SourceImport, RollbackDrill, FiniteSetTheorems, SequenceTheorems, TLAPS

-----------------------------------------------------------------------------
(* Governed versions.  The scopes' lock makes the check for an overlap and  *)
(* the publication one; the other families only rest on the version's row.  *)

VersionTyped ==
    /\ VersionTypeOK
    /\ family \in {"scope", "dictionary", "artifact"}
    /\ version \in [Upload -> [status : {"none", "refused", "DRAFT", "APPROVED", "PUBLISHED"},
                               reviewer : Person \cup {"none"}]]
    /\ publishers \in [Publisher -> [pc : {"idle", "publish"}, upload : Upload \cup {NoUpload}]]

\* A version that is being published is approved and nobody else's; a scope is
\* published under the lock and meets none that is in force.
PublishingApproved ==
    \A p \in Publisher : publishers[p].pc = "publish" =>
        /\ publishers[p].upload \in Family
        /\ version[publishers[p].upload].status = "APPROVED"
        /\ family = "scope" => publicationLock = p /\ Overlaps(publishers[p].upload) = {}

PublishersApart ==
    \A p, q \in Publisher :
        publishers[p].pc = "publish" /\ publishers[q].pc = "publish"
            /\ publishers[p].upload = publishers[q].upload => p = q

ScopesApart ==
    family = "scope" => \A u, v \in Versions("PUBLISHED") : u # v => ~Meet(u, v)

DictionariesApart ==
    family = "dictionary" =>
        \A u, v \in Dictionary : Exists(u) /\ Exists(v) /\ u.name = v.name => u = v

VersionInv ==
    /\ VersionTyped /\ MakerIsNotChecker /\ PublishingApproved /\ PublishersApart
    /\ ScopesApart /\ DictionariesApart

-----------------------------------------------------------------------------

LEMMA VersionsInitially == VersionInit => VersionInv
<1> SUFFICES ASSUME VersionInit PROVE VersionInv
    OBVIOUS
<1> USE DEF VersionInit, Unsent, Resting
<1>1. VersionTyped
    BY DEF VersionTyped, VersionTypeOK
<1>2. \A u \in Upload : version[u].status = "none"
    OBVIOUS
<1>3. Family \subseteq Upload
    BY DEF Family, Upload
<1>4. MakerIsNotChecker /\ ScopesApart
    BY <1>2, <1>3 DEF MakerIsNotChecker, ScopesApart, Versions
<1>5. PublishingApproved /\ PublishersApart
    BY DEF PublishingApproved, PublishersApart
<1>6. DictionariesApart
    BY <1>2 DEF DictionariesApart, Exists, Upload
<1> QED BY <1>1, <1>4, <1>5, <1>6 DEF VersionInv

\* An upload that comes in as a draft, or is refused for good.
LEMMA KeepsDraft ==
    ASSUME VersionInv, NEW u \in Family, NEW status \in {"refused", "DRAFT"}, version[u].status = "none",
           Become(u, status), UNCHANGED <<family, publishers, publicationLock, activeGoverned>>,
           family = "dictionary" => ~NameTaken(u)
    PROVE  VersionInv'
<1> USE DEF VersionInv, Become
<1>1. u \in Upload /\ Family \subseteq Upload /\ Family' = Family
    BY DEF Family, Upload
<1>2. /\ version' = [version EXCEPT ![u].status = status]
      /\ version'[u].status = status /\ \A v \in Upload : v # u => version'[v] = version[v]
    BY <1>1 DEF VersionTyped
<1>3. VersionTyped'
    BY <1>1, <1>2 DEF VersionTyped, VersionTypeOK
<1>4. \A v \in Family : version'[v].status \in {"APPROVED", "PUBLISHED"} => v # u /\ version'[v] = version[v]
    BY <1>1, <1>2
<1>5. MakerIsNotChecker'
    BY <1>1, <1>4 DEF MakerIsNotChecker
<1>6. Versions("PUBLISHED")' = Versions("PUBLISHED")
    BY <1>1, <1>2 DEF Versions
<1>7. PublishingApproved'
    BY <1>1, <1>2, <1>6 DEF PublishingApproved, Overlaps, SameKind, Meet
<1>8. PublishersApart' /\ ScopesApart'
    BY <1>6 DEF PublishersApart, ScopesApart, Meet
<1>9. DictionariesApart'
  <2> SUFFICES ASSUME family = "dictionary", NEW v \in Dictionary, NEW w \in Dictionary,
                      Exists(v)', Exists(w)', v.name = w.name
               PROVE  v = w
    BY DEF DictionariesApart
  <2>1. Family = Dictionary /\ v \in Upload /\ w \in Upload
    BY DEF Family, Upload
  <2>2. \A x \in Dictionary : x # u => Exists(x)' = Exists(x)
    BY <1>1, <1>2 DEF Exists, Upload
  <2> QED BY <2>1, <2>2 DEF NameTaken, DictionariesApart
<1> QED BY <1>3, <1>5, <1>7, <1>8, <1>9

LEMMA KeepsApprove ==
    ASSUME VersionInv, NEW u \in Family, NEW who \in Person, Approve(u, who)
    PROVE  VersionInv'
<1> USE VersionAssumption DEF VersionInv, Approve
<1>1. u \in Upload /\ Family \subseteq Upload /\ Family' = Family
    BY DEF Family, Upload
<1>2. /\ version'[u] = [status |-> "APPROVED", reviewer |-> who]
      /\ \A v \in Upload : v # u => version'[v] = version[v]
    BY <1>1 DEF VersionTyped
<1>3. VersionTyped'
    BY <1>1, <1>2 DEF VersionTyped, VersionTypeOK
<1>4. MakerIsNotChecker'
    BY <1>1, <1>2 DEF MakerIsNotChecker, MayReview
<1>5. Versions("PUBLISHED")' = Versions("PUBLISHED")
    BY <1>1, <1>2 DEF Versions
<1>6. PublishingApproved'
    BY <1>1, <1>2, <1>5 DEF PublishingApproved, Overlaps, SameKind, Meet, RowFree
<1>7. PublishersApart' /\ ScopesApart'
    BY <1>5 DEF PublishersApart, ScopesApart, Meet
<1>8. \A v \in Upload : Exists(v)' = Exists(v)
    BY <1>1, <1>2 DEF Exists
<1>9. DictionariesApart'
    BY <1>8 DEF DictionariesApart, Upload
<1> QED BY <1>3, <1>4, <1>6, <1>7, <1>9

LEMMA KeepsBeginPublish ==
    ASSUME VersionInv, NEW p \in Publisher, NEW u \in Family, BeginPublish(p, u)
    PROVE  VersionInv'
<1> USE VersionAssumption DEF VersionInv, BeginPublish, TakeLock
<1>1. u \in Upload /\ Family \subseteq Upload /\ Family' = Family
    BY DEF Family, Upload
<1>2. /\ publishers'[p] = [pc |-> "publish", upload |-> u]
      /\ \A q \in Publisher : q # p => publishers'[q] = publishers[q]
    BY DEF VersionTyped
<1>3. VersionTyped'
    BY <1>1, <1>2 DEF VersionTyped, VersionTypeOK
<1>4. MakerIsNotChecker'
    BY <1>1 DEF MakerIsNotChecker
<1>5. Versions("PUBLISHED")' = Versions("PUBLISHED")
    BY <1>1 DEF Versions
<1>6. \A v : Overlaps(v)' = Overlaps(v)
    BY <1>5 DEF Overlaps, SameKind, Meet
<1>7. ASSUME NEW q \in Publisher, publishers'[q].pc = "publish"
      PROVE  /\ publishers'[q].upload \in Family
             /\ version[publishers'[q].upload].status = "APPROVED"
             /\ family = "scope" => publicationLock' = q /\ Overlaps(publishers'[q].upload) = {}
  <2>1. CASE q = p
    BY <1>2, <2>1
  <2>2. CASE q # p
    <3>1. publishers[q].pc = "publish" /\ publishers'[q] = publishers[q]
      BY <1>2, <1>7, <2>2
    <3>2. family # "scope"
      BY <3>1 DEF PublishingApproved
    <3> QED BY <3>1, <3>2 DEF PublishingApproved
  <2> QED BY <2>1, <2>2
<1>8. PublishingApproved'
    BY <1>1, <1>6, <1>7 DEF PublishingApproved
<1>9. PublishersApart'
    BY <1>2 DEF PublishersApart, RowFree
<1>10. ScopesApart'
    BY <1>5 DEF ScopesApart, Meet
<1>11. DictionariesApart'
    BY DEF DictionariesApart, Exists
<1> QED BY <1>3, <1>4, <1>8, <1>9, <1>10, <1>11

LEMMA Rests ==
    ASSUME VersionInv, NEW p \in Publisher, publishers[p].pc = "publish", Rest(p)
    PROVE  /\ publishers' \in [Publisher -> [pc : {"idle", "publish"}, upload : Upload \cup {NoUpload}]]
           /\ publishers'[p].pc = "idle"
           /\ \A q \in Publisher : q # p => publishers'[q] = publishers[q]
           /\ publicationLock' \in Publisher \cup {"free"}
           /\ PublishersApart'
           /\ family = "scope" => \A q \in Publisher : publishers'[q].pc = "idle"
<1> USE DEF VersionInv, Rest, Resting
<1>1. publishers' \in [Publisher -> [pc : {"idle", "publish"}, upload : Upload \cup {NoUpload}]]
    BY DEF VersionTyped
<1>2. publishers'[p].pc = "idle" /\ \A q \in Publisher : q # p => publishers'[q] = publishers[q]
    BY DEF VersionTyped
<1>3. publicationLock' \in Publisher \cup {"free"}
    BY DEF VersionTyped, VersionTypeOK
<1>4. PublishersApart'
    BY <1>2 DEF PublishersApart
<1>5. family = "scope" => \A q \in Publisher : q # p => publishers[q].pc # "publish"
    BY DEF PublishingApproved
<1>6. \A q \in Publisher : publishers[q].pc \in {"idle", "publish"}
    BY DEF VersionTyped
<1> QED BY <1>1, <1>2, <1>3, <1>4, <1>5, <1>6

LEMMA KeepsAbortPublish ==
    ASSUME VersionInv, NEW p \in Publisher, AbortPublish(p)
    PROVE  VersionInv'
<1> USE DEF VersionInv, AbortPublish
<1>1. Family \subseteq Upload /\ Family' = Family
    BY DEF Family, Upload
<1>2. /\ publishers' \in [Publisher -> [pc : {"idle", "publish"}, upload : Upload \cup {NoUpload}]]
      /\ publishers'[p].pc = "idle"
      /\ \A q \in Publisher : q # p => publishers'[q] = publishers[q]
      /\ publicationLock' \in Publisher \cup {"free"}
      /\ PublishersApart'
      /\ family = "scope" => \A q \in Publisher : publishers'[q].pc = "idle"
    BY Rests
<1>3. VersionTyped'
    BY <1>2 DEF VersionTyped, VersionTypeOK
<1>4. MakerIsNotChecker'
    BY <1>1 DEF MakerIsNotChecker
<1>5. PublishingApproved'
    BY <1>1, <1>2 DEF PublishingApproved
<1>6. ScopesApart' /\ DictionariesApart'
    BY <1>1 DEF ScopesApart, DictionariesApart, Versions, Exists, Meet
<1> QED BY <1>2, <1>3, <1>4, <1>5, <1>6

LEMMA KeepsCommitPublish ==
    ASSUME VersionInv, NEW p \in Publisher, CommitPublish(p)
    PROVE  VersionInv'
<1> USE DEF VersionInv, CommitPublish, Become
<1> DEFINE u == publishers[p].upload
<1>1. Family \subseteq Upload /\ Family' = Family
    BY DEF Family, Upload
<1>2. u \in Family /\ u \in Upload /\ version[u].status = "APPROVED"
    BY <1>1 DEF PublishingApproved
<1>3. /\ publishers' \in [Publisher -> [pc : {"idle", "publish"}, upload : Upload \cup {NoUpload}]]
      /\ publishers'[p].pc = "idle"
      /\ \A q \in Publisher : q # p => publishers'[q] = publishers[q]
      /\ publicationLock' \in Publisher \cup {"free"}
      /\ PublishersApart'
      /\ family = "scope" => \A q \in Publisher : publishers'[q].pc = "idle"
    BY Rests
<1>4. version' = [version EXCEPT ![u].status = "PUBLISHED"]
    OBVIOUS
<1>5. /\ version'[u].status = "PUBLISHED" /\ version'[u].reviewer = version[u].reviewer
      /\ \A v \in Upload : v # u => version'[v] = version[v]
    BY <1>2, <1>4 DEF VersionTyped
<1>6. version' \in [Upload -> [status : {"none", "refused", "DRAFT", "APPROVED", "PUBLISHED"},
                               reviewer : Person \cup {"none"}]]
    BY <1>2, <1>4 DEF VersionTyped
<1>7. VersionTyped'
    BY <1>3, <1>6 DEF VersionTyped, VersionTypeOK
<1>8. MakerIsNotChecker'
    BY <1>1, <1>2, <1>5 DEF MakerIsNotChecker
<1>9. \A q \in Publisher : q # p /\ publishers[q].pc = "publish" => publishers[q].upload # u
    BY DEF PublishersApart
<1>10. PublishingApproved'
    BY <1>1, <1>3, <1>5, <1>9 DEF PublishingApproved
<1>11. Versions("PUBLISHED")' = Versions("PUBLISHED") \cup {u}
    BY <1>1, <1>2, <1>5 DEF Versions
<1>12. ScopesApart'
  <2> SUFFICES ASSUME family = "scope", NEW v \in Versions("PUBLISHED") \cup {u},
                      NEW w \in Versions("PUBLISHED") \cup {u}, v # w
               PROVE  ~Meet(v, w)
    BY <1>11 DEF ScopesApart, Meet
  <2>1. \A x \in Versions("PUBLISHED") : x # u => ~Meet(x, u) /\ ~Meet(u, x)
    BY DEF PublishingApproved, Overlaps, SameKind, Meet
  <2> QED BY <2>1 DEF ScopesApart
<1>13. \A v \in Upload : Exists(v)' = Exists(v)
    BY <1>2, <1>5 DEF Exists
<1>14. DictionariesApart'
    BY <1>13 DEF DictionariesApart, Upload
<1> QED BY <1>3, <1>7, <1>8, <1>10, <1>12, <1>14

LEMMA KeepsChangeGoverned ==
    ASSUME VersionInv, NEW companies \in SUBSET Governed, ChangeGoverned(companies)
    PROVE  VersionInv'
<1> USE DEF VersionInv, ChangeGoverned
<1>1. Family \subseteq Upload /\ Family' = Family
    BY DEF Family, Upload
<1>2. VersionTyped'
    BY DEF VersionTyped, VersionTypeOK
<1>3. MakerIsNotChecker' /\ ScopesApart' /\ DictionariesApart' /\ PublishersApart'
    BY <1>1 DEF MakerIsNotChecker, ScopesApart, DictionariesApart, Versions, Exists, Meet, PublishersApart
<1>4. \A v : Overlaps(v)' = Overlaps(v)
    BY <1>1 DEF Overlaps, SameKind, Meet, Versions
<1>5. PublishingApproved'
    BY <1>1, <1>4 DEF PublishingApproved
<1> QED BY <1>2, <1>3, <1>5

LEMMA VersionStep == VersionInv /\ [VersionNext]_versionVars => VersionInv'
<1> SUFFICES ASSUME VersionInv, [VersionNext]_versionVars PROVE VersionInv'
    OBVIOUS
<1>1. CASE UNCHANGED versionVars
  <2> USE <1>1 DEF VersionInv, versionVars
  <2>1. Family' = Family
    BY DEF Family
  <2>2. VersionTyped' /\ MakerIsNotChecker' /\ PublishersApart'
    BY <2>1 DEF VersionTyped, VersionTypeOK, MakerIsNotChecker, PublishersApart
  <2>3. \A v : Overlaps(v)' = Overlaps(v)
    BY <2>1 DEF Overlaps, SameKind, Meet, Versions
  <2>4. PublishingApproved'
    BY <2>1, <2>3 DEF PublishingApproved
  <2>5. ScopesApart' /\ DictionariesApart'
    BY <2>1 DEF ScopesApart, DictionariesApart, Versions, Exists, Meet
  <2> QED BY <2>2, <2>4, <2>5
<1>2. ASSUME NEW u \in Scope, ImportScope(u) PROVE VersionInv'
  <2>1. u \in Family /\ family # "dictionary"
    BY <1>2 DEF ImportScope, Family
  <2>2. PICK status \in {"refused", "DRAFT"} : Become(u, status)
    BY <1>2 DEF ImportScope
  <2> QED BY <1>2, <2>1, <2>2, KeepsDraft DEF ImportScope
<1>3. ASSUME NEW u \in Dictionary, ImportDictionary(u) PROVE VersionInv'
    BY <1>3, KeepsDraft DEF ImportDictionary, Family
<1>4. ASSUME NEW u \in Artifact, CreateArtifact(u) PROVE VersionInv'
    BY <1>4, KeepsDraft DEF CreateArtifact, Family
<1>5. ASSUME NEW p \in Publisher, CommitPublish(p) \/ AbortPublish(p) PROVE VersionInv'
    BY <1>5, KeepsCommitPublish, KeepsAbortPublish
<1> QED BY <1>1, <1>2, <1>3, <1>4, <1>5, KeepsApprove, KeepsBeginPublish, KeepsChangeGoverned DEF VersionNext

-----------------------------------------------------------------------------
(* What a day is given.                                                    *)

\* Sets without two elements.
LEMMA AtMostOne ==
    ASSUME NEW S, \A x, y \in S : x = y
    PROVE  /\ Cardinality(S) \in {0, 1} /\ Cardinality(S) <= 1
           /\ Cardinality(S) = 1 => \E x : S = {x}
<1>1. CASE S = {}
    BY <1>1, FS_EmptySet
<1>2. CASE S # {}
  <2>1. PICK x : S = {x}
    BY <1>2
  <2>2. Cardinality(S) = 1
    BY <2>1, FS_Singleton
  <2> QED BY <2>1, <2>2
<1> QED BY <1>1, <1>2

LEMMA DaysAreNumbers == \A day \in Day : day \in Int
BY VersionAssumption DEF Day, Upload

LEMMA OneScopeADay ==
    ASSUME VersionInv, family = "scope", NEW day \in Int
    PROVE  \A u, v \in Covering(day) : u = v
<1>1. \A u \in Covering(day) : u \in Versions("PUBLISHED") /\ u \in Upload /\ u.from <= day /\ day <= u.to
    BY DEF Covering, Versions, Family, Upload
<1>2. \A u \in Upload : u.from \in Int /\ u.to \in Int
    BY VersionAssumption DEF Upload
<1>3. \A u, v \in Covering(day) : Meet(u, v)
    BY <1>1, <1>2 DEF Meet
<1> QED BY <1>1, <1>3 DEF VersionInv, ScopesApart

LEMMA VersionsShown == VersionInv => ScopesDisjoint /\ NamesOneDictionary
<1> SUFFICES ASSUME VersionInv PROVE ScopesDisjoint /\ NamesOneDictionary
    OBVIOUS
<1>1. ScopesDisjoint
    BY AtMostOne, OneScopeADay, DaysAreNumbers DEF ScopesDisjoint
<1>2. ASSUME family = "dictionary", NEW name, NEW day, NEW u \in ResolvedDictionary(name, day),
             NEW v \in ResolvedDictionary(name, day)
      PROVE  u = v
    BY <1>2 DEF ResolvedDictionary, Covering, Versions, Family, Exists, VersionInv, DictionariesApart
<1>3. NamesOneDictionary
    BY <1>2, AtMostOne DEF NamesOneDictionary
<1> QED BY <1>1, <1>3

\* What is published stays published.
LEMMA PublishedRemain ==
    ASSUME VersionInv, [VersionNext]_versionVars
    PROVE  family' = family /\ \A day : Covering(day) \subseteq Covering(day)'
<1> USE DEF VersionInv
<1>1. family' = family /\ Family' = Family
    BY DEF VersionNext, versionVars, ImportScope, ImportDictionary, CreateArtifact, Approve, BeginPublish,
       CommitPublish, AbortPublish, ChangeGoverned, Family
<1>2. ASSUME NEW u \in Upload, version[u].status = "PUBLISHED" PROVE version'[u].status = "PUBLISHED"
  <2> USE <1>2 DEF VersionTyped
  <2>1. CASE version' = version
    BY <2>1
  <2>2. CASE \E v \in Upload : \E status : Become(v, status) /\ version[v].status = "none"
    BY <2>2 DEF Become
  <2>3. CASE \E v \in Family, who \in Person : Approve(v, who)
    BY <2>3 DEF Approve, Family, Upload
  <2>4. CASE \E p \in Publisher : CommitPublish(p)
    BY <2>4 DEF CommitPublish, Become, PublishingApproved, Family, Upload
  <2> QED BY <2>1, <2>2, <2>3, <2>4 DEF VersionNext, versionVars, ImportScope, ImportDictionary,
       CreateArtifact, BeginPublish, AbortPublish, ChangeGoverned, Upload
<1> QED BY <1>1, <1>2 DEF Covering, Versions, Family, Upload

\* A scope that was given is given again, or the day is not ready.
LEMMA DayKeepsItsScope ==
    ASSUME VersionInv, VersionInv', [VersionNext]_versionVars, NEW day \in Day, family = "scope"
    PROVE  /\ ResolvedScope(day) # {} => ResolvedScope(day)' \in {{}, ResolvedScope(day)}
           /\ ResolvedScope(day)' \subseteq activeGoverned'
<1>1. family' = "scope" /\ Covering(day) \subseteq Covering(day)' /\ day \in Int
    BY PublishedRemain, DaysAreNumbers
<1>2. \A u, v \in Covering(day)' : u = v
  <2>1. \A u \in Upload : u.from \in Int /\ u.to \in Int
    BY VersionAssumption DEF Upload
  <2>2. \A u \in Covering(day)' : u \in Upload /\ u \in Versions("PUBLISHED")' /\ u.from <= day /\ day <= u.to
    BY <1>1 DEF Covering, Versions, Family, Upload
  <2>3. \A u, v \in Covering(day)' : u.from <= v.to /\ u.to >= v.from
    BY <1>1, <2>1, <2>2
  <2> QED BY <1>1, <2>2, <2>3 DEF VersionInv, ScopesApart, Meet
<1>3. ResolvedScope(day)' \subseteq activeGoverned'
    BY DEF ResolvedScope, ReadyScope
<1>4. ASSUME ResolvedScope(day) # {} PROVE ResolvedScope(day)' \in {{}, ResolvedScope(day)}
  <2>1. Cardinality(Covering(day)) = 1
    BY <1>4 DEF ResolvedScope
  <2>2. PICK u : Covering(day) = {u}
    BY <2>1, <1>1, AtMostOne, OneScopeADay
  <2>3. Covering(day)' = {u}
    BY <1>1, <1>2, <2>2
  <2>4. (CHOOSE v \in Covering(day) : TRUE) = u /\ (CHOOSE v \in Covering(day)' : TRUE) = u
    BY <2>2, <2>3
  <2>5. ResolvedScope(day) = u.companies
    BY <1>4, <2>4 DEF ResolvedScope
  <2>6. ResolvedScope(day)' \in {{}, u.companies}
    BY <2>4 DEF ResolvedScope
  <2> QED BY <2>5, <2>6
<1> QED BY <1>3, <1>4

\* So are the artifacts.
LEMMA DayKeepsItsArtifacts ==
    ASSUME VersionInv, [VersionNext]_versionVars, NEW day \in Day, family = "artifact",
           ResolvedArtifacts(day) # {}
    PROVE  ResolvedArtifacts(day)' \in {{}, ResolvedArtifacts(day)}
<1> DEFINE Of(C, t) == {u \in C : u.type = t}
<1> PICK now : now = Covering(day)
    OBVIOUS
<1> PICK then : then = Covering(day)'
    OBVIOUS
<1>1. family' = "artifact" /\ now \subseteq then
    BY PublishedRemain
<1>2. now \subseteq Artifact /\ then \subseteq Artifact
    BY <1>1 DEF Covering, Versions, Family
<1>3. ResolvedArtifacts(day) = now /\ \A t \in ArtifactType : Cardinality(Of(now, t)) = 1
    BY DEF ResolvedArtifacts
<1>4. /\ ResolvedArtifacts(day)' # {} => \A t \in ArtifactType : Cardinality(Of(then, t)) = 1
      /\ ResolvedArtifacts(day)' \in {{}, then}
    BY DEF ResolvedArtifacts
<1>5. \A S \in SUBSET Artifact : IsFiniteSet(S)
    BY VersionAssumption, FS_Subset
<1>6. ASSUME ResolvedArtifacts(day)' # {}, NEW u \in then PROVE u \in now
  <2>1. u.type \in ArtifactType
    BY <1>2, <1>6, VersionAssumption
  <2>2. Of(now, u.type) \in SUBSET Artifact /\ Of(then, u.type) \in SUBSET Artifact
    BY <1>2
  <2>3. PICK a : Of(now, u.type) = {a}
    BY <1>3, <1>5, <2>1, <2>2, FS_Singleton
  <2>4. PICK b : Of(then, u.type) = {b}
    BY <1>4, <1>5, <1>6, <2>1, <2>2, FS_Singleton
  <2> QED BY <1>1, <1>6, <2>3, <2>4
<1> QED BY <1>1, <1>3, <1>4, <1>6

\* Whoever publishes what at once: published scopes never overlap, nothing is in
\* force that its own sender reviewed, a name leads to one dictionary, and what
\* a day was given stays or the day is not ready.
THEOREM VersionsAreSound == VersionSpec => VersionsSound
<1>1. VersionSpec => []VersionInv
    BY VersionsInitially, VersionStep, PTL DEF VersionSpec
<1>2. VersionInv => VersionTypeOK /\ ScopesDisjoint /\ MakerIsNotChecker /\ NamesOneDictionary
    BY VersionsShown DEF VersionInv, VersionTyped
<1>3. VersionInv /\ VersionInv' /\ [VersionNext]_versionVars =>
          [<<version, activeGoverned>>' # <<version, activeGoverned>> => \A day \in Day :
              /\ family = "scope" =>
                     /\ ResolvedScope(day) # {} => ResolvedScope(day)' \in {{}, ResolvedScope(day)}
                     /\ ResolvedScope(day)' \subseteq activeGoverned'
              /\ family = "artifact" /\ ResolvedArtifacts(day) # {} =>
                     ResolvedArtifacts(day)' \in {{}, ResolvedArtifacts(day)}]_versionVars
    BY DayKeepsItsScope, DayKeepsItsArtifacts
<1> QED BY <1>1, <1>2, <1>3, PTL DEF VersionSpec, VersionsSound, DayKeepsItsVersions

-----------------------------------------------------------------------------
(* Signing in.  Of the failures since the last success a window keeps all   *)
(* that count; a thread that verifies was let in below the limit.           *)

LimiterKeys == SignInAddress \X SignInName
Recent(failures, now) == {failure \in failures : failure.at >= now - FailureWindow}

\* What is kept of what failed: all but what is too old.  Failures of this moment
\* are numbered.
WindowOf(kept, past, now) ==
    /\ IsFiniteSet(kept) /\ kept \subseteq past
    /\ \A f \in past : f.at \in 0 .. now
    /\ \A f \in past \ kept : f.at < now - FailureWindow
    /\ \A f \in past : f.at = now => f.nth \in Nat /\ f.nth < Cardinality({g \in past : g.at = now})

FailureAt(failures, now) == [at |-> now, nth |-> Cardinality({f \in failures : f.at = now})]

KeptFailures(key) == IF key \in DOMAIN windows THEN windows[key] ELSE {}
PastFailures(key) == IF key \in DOMAIN failedAt THEN failedAt[key] ELSE {}

Verifying(key) ==
    {r \in SignInThread :
        requests[r].pc = "verify" /\ LimiterKey(requests[r].address, requests[r].name) = key}

LimiterInv ==
    /\ DOMAIN windows \subseteq LimiterKeys /\ DOMAIN failedAt \subseteq LimiterKeys
    /\ tick \in 0 .. LastTick
    /\ requests \in [SignInThread -> [pc : {"idle", "verify", "refused"},
                                      address : SignInAddress \cup {NoCookie},
                                      name : SignInName \cup {NoCookie}]]
    /\ \A r \in SignInThread :
           requests[r].pc = "verify" => requests[r].address \in SignInAddress /\ requests[r].name \in SignInName
    /\ \A key \in LimiterKeys :
           /\ WindowOf(KeptFailures(key), PastFailures(key), tick)
           /\ Cardinality(Recent(KeptFailures(key), tick)) + Cardinality(Verifying(key))
                  < MaxFailures + Cardinality(SignInThread)

-----------------------------------------------------------------------------
(* Windows.                                                                *)

LEMMA NoWindow == \A now \in Nat : WindowOf({}, {}, now) /\ Recent({}, now) = {}
BY FS_EmptySet DEF WindowOf, Recent

LEMMA SignInNumbers ==
    /\ MaxFailures \in Nat \ {0} /\ FailureWindow \in Nat \ {0} /\ SessionTtl \in Nat \ {0}
    /\ TransactionTtl \in Nat \ {0} /\ Cardinality(SignInThread) \in Nat
BY SignInAssumption, FS_CardinalityType

\* What counts of the past is what counts of the window.
LEMMA WindowCounts ==
    ASSUME NEW kept, NEW past, NEW now \in Nat, WindowOf(kept, past, now)
    PROVE  /\ Recent(past, now) = Recent(kept, now)
           /\ IsFiniteSet(Recent(kept, now)) /\ Cardinality(Recent(kept, now)) \in Nat
<1>1. Recent(past, now) = Recent(kept, now)
    BY SignInNumbers DEF WindowOf, Recent
<1>2. Recent(kept, now) \in SUBSET kept
    BY DEF Recent
<1>3. IsFiniteSet(Recent(kept, now))
    BY <1>2, FS_Subset DEF WindowOf
<1> QED BY <1>1, <1>3, FS_CardinalityType

\* Leaving out what is too old changes nothing that counts.
LEMMA WindowTrims ==
    ASSUME NEW kept, NEW past, NEW now \in Nat, WindowOf(kept, past, now)
    PROVE  /\ WindowOf(Recent(kept, now), past, now)
           /\ Recent(Recent(kept, now), now) = Recent(kept, now)
<1>1. IsFiniteSet(Recent(kept, now))
    BY WindowCounts
<1>2. Recent(kept, now) \subseteq past
    BY DEF Recent, WindowOf
<1>3. \A f \in past \ Recent(kept, now) : f.at < now - FailureWindow
    BY SignInNumbers DEF Recent, WindowOf
<1>4. Recent(Recent(kept, now), now) = Recent(kept, now)
    BY DEF Recent
<1> QED BY <1>1, <1>2, <1>3, <1>4 DEF WindowOf

\* Time only makes failures older.
LEMMA WindowAges ==
    ASSUME NEW kept, NEW past, NEW now \in Nat, WindowOf(kept, past, now)
    PROVE  /\ WindowOf(kept, past, now + 1)
           /\ Cardinality(Recent(kept, now + 1)) <= Cardinality(Recent(kept, now))
           /\ Cardinality(Recent(kept, now + 1)) \in Nat
<1>1. WindowOf(kept, past, now + 1)
    BY SignInNumbers DEF WindowOf
<1>2. Recent(kept, now + 1) \in SUBSET Recent(kept, now)
    BY SignInNumbers DEF WindowOf, Recent
<1>3. IsFiniteSet(Recent(kept, now))
    BY WindowCounts
<1>4. Cardinality(Recent(kept, now + 1)) <= Cardinality(Recent(kept, now)) /\ IsFiniteSet(Recent(kept, now + 1))
    BY <1>2, <1>3, FS_Subset
<1> QED BY <1>1, <1>4, FS_CardinalityType

\* A failure is new, to the window and to the past, and is counted.
LEMMA WindowGrows ==
    ASSUME NEW kept, NEW past, NEW now \in Nat, WindowOf(kept, past, now)
    PROVE  LET one == FailureAt(past, now)
           IN  /\ FailureAt(Recent(kept, now), now) = one
               /\ WindowOf(Recent(kept, now) \cup {one}, past \cup {one}, now)
               /\ Recent(Recent(kept, now) \cup {one}, now) = Recent(kept, now) \cup {one}
               /\ Cardinality(Recent(kept, now) \cup {one}) = Cardinality(Recent(kept, now)) + 1
<1> DEFINE A == Recent(kept, now)
           N == {f \in past : f.at = now}
<1> PICK one : one = FailureAt(past, now)
    OBVIOUS
<1>1. {f \in A : f.at = now} = N
    BY SignInNumbers DEF WindowOf, Recent
<1>2. FailureAt(A, now) = one /\ one.at = now /\ one.nth = Cardinality(N)
    BY <1>1 DEF FailureAt
<1>3. IsFiniteSet(A) /\ Cardinality(A) \in Nat
    BY WindowCounts
<1>4. N \in SUBSET A
    BY <1>1
<1>5. IsFiniteSet(N)
    BY <1>3, <1>4, FS_Subset
<1>6. Cardinality(N) \in Nat
    BY <1>5, FS_CardinalityType
<1>7. one \notin past
    BY <1>2, <1>6 DEF WindowOf
<1>8. one \notin A /\ one \notin N
    BY <1>7, <1>2 DEF WindowOf, Recent
<1>9. IsFiniteSet(A \cup {one}) /\ Cardinality(A \cup {one}) = Cardinality(A) + 1
    BY <1>3, <1>8, FS_AddElement
<1>10. {f \in past \cup {one} : f.at = now} = N \cup {one}
    BY <1>2
<1>11. Cardinality(N \cup {one}) = Cardinality(N) + 1
    BY <1>5, <1>8, FS_AddElement
<1>12. ASSUME NEW f \in past \cup {one}, f.at = now
       PROVE  f.nth \in Nat /\ f.nth < Cardinality({g \in past \cup {one} : g.at = now})
  <2>3. Cardinality({g \in past \cup {one} : g.at = now}) = Cardinality(N) + 1
    BY <1>10, <1>11, Zenon
  <2> HIDE DEF N, A
  <2>1. CASE f = one
    BY <1>2, <1>6, <2>1, <2>3
  <2>2. CASE f \in past
    <3>1. f.nth \in Nat /\ f.nth < Cardinality(N)
      BY <1>12, <2>2 DEF WindowOf, N
    <3> QED BY <1>6, <2>3, <3>1
  <2> QED BY <2>1, <2>2
<1>13. WindowOf(A \cup {one}, past \cup {one}, now)
  <2>1. A \cup {one} \subseteq past \cup {one}
    BY DEF WindowOf, Recent
  <2>2. \A f \in past \cup {one} : f.at \in 0 .. now
    BY <1>2 DEF WindowOf
  <2>3. \A f \in (past \cup {one}) \ (A \cup {one}) : f.at < now - FailureWindow
    BY SignInNumbers DEF WindowOf, Recent
  <2> QED BY <1>9, <1>12, <2>1, <2>2, <2>3 DEF WindowOf
<1>14. Recent(A \cup {one}, now) = A \cup {one}
  <2>1. one.at >= now - FailureWindow
    BY <1>2, SignInNumbers
  <2> QED BY <2>1 DEF Recent
<1> QED BY <1>2, <1>9, <1>13, <1>14

-----------------------------------------------------------------------------
(* The limiter.                                                            *)

LEMMA ActiveAreRecent == \A key : ActiveFailures(key) = Recent(KeptFailures(key), tick)
BY DEF ActiveFailures, Recent, KeptFailures

LEMMA KeysAreKeys ==
    \A address \in SignInAddress, name \in SignInName :
        /\ LimiterKey(address, name) \in LimiterKeys
        /\ LimiterKey(address, name) = <<address, FoldedName[name]>>
        /\ FailedOf(address, name) = PastFailures(LimiterKey(address, name))
BY SignInAssumption DEF LimiterKey, LimiterKeys, FailedOf, PastFailures

LEMMA KeptAfter ==
    ASSUME LimiterInv, NEW key \in LimiterKeys, NEW failures, windows' = KeptWindow(key, failures)
    PROVE  /\ DOMAIN windows' \subseteq LimiterKeys
           /\ KeptFailures(key)' = failures
           /\ \A k : k # key => KeptFailures(k)' = KeptFailures(k)
BY DEF LimiterInv, KeptWindow, KeptFailures

LEMMA PastAfter ==
    ASSUME LimiterInv, NEW address \in SignInAddress, NEW name \in SignInName, NEW failures,
           failedAt' = FailedWith(address, name, failures)
    PROVE  /\ DOMAIN failedAt' \subseteq LimiterKeys
           /\ PastFailures(LimiterKey(address, name))' = failures
           /\ \A k : k # LimiterKey(address, name) => PastFailures(k)' = PastFailures(k)
BY KeysAreKeys DEF LimiterInv, FailedWith, PastFailures

LEMMA VerifyingIsFinite ==
    \A key : /\ IsFiniteSet(Verifying(key)) /\ Cardinality(Verifying(key)) \in Nat
             /\ Cardinality(Verifying(key)) <= Cardinality(SignInThread)
<1> SUFFICES ASSUME NEW key
             PROVE  /\ IsFiniteSet(Verifying(key)) /\ Cardinality(Verifying(key)) \in Nat
                    /\ Cardinality(Verifying(key)) <= Cardinality(SignInThread)
    OBVIOUS
<1>1. Verifying(key) \in SUBSET SignInThread
    BY DEF Verifying
<1> QED BY <1>1, SignInAssumption, FS_Subset, FS_CardinalityType

LEMMA LimiterInitially == SignInInit => LimiterInv
<1> SUFFICES ASSUME SignInInit PROVE LimiterInv
    OBVIOUS
<1> USE DEF SignInInit
<1>1. \A key : KeptFailures(key) = {} /\ PastFailures(key) = {}
    BY DEF KeptFailures, PastFailures, NoFailures
<1>2. \A key : Verifying(key) = {}
    BY DEF Verifying, NoSignIn
<1>3. Cardinality({}) = 0 /\ 0 < MaxFailures + Cardinality(SignInThread)
    BY FS_EmptySet, SignInNumbers
<1>4. \A key \in LimiterKeys :
          /\ WindowOf(KeptFailures(key), PastFailures(key), tick)
          /\ Cardinality(Recent(KeptFailures(key), tick)) + Cardinality(Verifying(key))
                 < MaxFailures + Cardinality(SignInThread)
  <2>1. tick = 0 /\ tick \in Nat
    OBVIOUS
  <2>2. WindowOf({}, {}, tick) /\ Recent({}, tick) = {}
    BY <2>1, NoWindow
  <2> QED BY <1>1, <1>2, <1>3, <2>2
<1>5. DOMAIN windows \subseteq LimiterKeys /\ DOMAIN failedAt \subseteq LimiterKeys
    BY DEF NoFailures
<1>6. /\ tick \in 0 .. LastTick
      /\ requests \in [SignInThread -> [pc : {"idle", "verify", "refused"},
                                      address : SignInAddress \cup {NoCookie},
                                      name : SignInName \cup {NoCookie}]]
      /\ \A r \in SignInThread : requests[r].pc = "idle"
    BY SignInAssumption DEF NoSignIn
<1> QED BY <1>4, <1>5, <1>6 DEF LimiterInv

LEMMA TickIsNat == LimiterInv => tick \in Nat
BY SignInAssumption DEF LimiterInv

LEMMA LimiterCheckLimit ==
    ASSUME LimiterInv, NEW r \in SignInThread, NEW address \in SignInAddress, NEW name \in SignInName,
           CheckLimit(r, address, name)
    PROVE  LimiterInv'
<1> USE DEF CheckLimit
<1> DEFINE key == LimiterKey(address, name)
<1>1. key \in LimiterKeys /\ tick \in Nat
    BY KeysAreKeys, TickIsNat
<1> HIDE DEF key
<1>2. PICK active : active = ActiveFailures(key)
    OBVIOUS
<1>3. windows' = KeptWindow(key, active) /\ active = Recent(KeptFailures(key), tick)
    BY <1>2, ActiveAreRecent DEF key
<1>4. /\ DOMAIN windows' \subseteq LimiterKeys /\ KeptFailures(key)' = active
      /\ \A k : k # key => KeptFailures(k)' = KeptFailures(k)
    BY <1>1, <1>3, KeptAfter
<1>5. \A k : PastFailures(k)' = PastFailures(k)
    BY DEF PastFailures
<1>6. PICK pc \in {"verify", "refused"} :
          /\ requests' = [requests EXCEPT ![r] = [pc |-> pc, address |-> address, name |-> name]]
          /\ pc = "verify" => ~Limited(key)
    BY DEF key
<1>7. requests \in [SignInThread -> [pc : {"idle", "verify", "refused"}, address : SignInAddress \cup {NoCookie},
                                     name : SignInName \cup {NoCookie}]]
      /\ \A q \in SignInThread :
             requests[q].pc = "verify" => requests[q].address \in SignInAddress /\ requests[q].name \in SignInName
    BY DEF LimiterInv
<1>8. requests' \in [SignInThread -> [pc : {"idle", "verify", "refused"}, address : SignInAddress \cup {NoCookie},
                                      name : SignInName \cup {NoCookie}]]
      /\ \A q \in SignInThread :
             requests'[q].pc = "verify" => requests'[q].address \in SignInAddress /\ requests'[q].name \in SignInName
    BY <1>6, <1>7
<1>9. \A k : k # key => Verifying(k)' \subseteq Verifying(k)
    BY <1>6, <1>7 DEF Verifying, key, LimiterKey
<1>10. Limited(key) => Verifying(key)' \subseteq Verifying(key)
    BY <1>6, <1>7 DEF Verifying, key, LimiterKey
<1>11. ASSUME NEW k \in LimiterKeys
       PROVE  /\ WindowOf(KeptFailures(k), PastFailures(k), tick)'
              /\ (Cardinality(Recent(KeptFailures(k), tick)) + Cardinality(Verifying(k))
                      < MaxFailures + Cardinality(SignInThread))'
  <2>1. WindowOf(KeptFailures(k), PastFailures(k), tick)
    BY DEF LimiterInv
  <2>2. Cardinality(Recent(KeptFailures(k), tick)) + Cardinality(Verifying(k)) < MaxFailures + Cardinality(SignInThread)
    BY DEF LimiterInv
  <2>3. tick' = tick
    OBVIOUS
  <2>4. Cardinality(Verifying(k)) \in Nat /\ Cardinality(Recent(KeptFailures(k), tick)) \in Nat
    BY <1>1, <2>1, VerifyingIsFinite, WindowCounts
  <2>5. PICK later : later = Verifying(k)'
    OBVIOUS
  <2>6. later \in SUBSET SignInThread
    BY <2>5 DEF Verifying
  <2>7. Cardinality(later) \in Nat /\ Cardinality(later) <= Cardinality(SignInThread)
    BY <2>6, SignInAssumption, FS_Subset, FS_CardinalityType
  <2>8. later \subseteq Verifying(k) => Cardinality(later) <= Cardinality(Verifying(k))
    BY VerifyingIsFinite, FS_Subset
  <2>9. CASE k # key
    BY <1>4, <1>5, <1>9, <2>1, <2>2, <2>3, <2>4, <2>5, <2>7, <2>8, <2>9, SignInNumbers
  <2>10. CASE k = key
    <3>1. WindowOf(active, PastFailures(k), tick) /\ Recent(active, tick) = active
      BY <1>1, <1>3, <2>1, <2>10, WindowTrims
    <3>2. active = Recent(KeptFailures(k), tick)
      BY <1>3, <2>10
    <3>3. Cardinality(active) + Cardinality(later) < MaxFailures + Cardinality(SignInThread)
      <4>1. CASE Limited(key)
        BY <1>10, <2>2, <2>4, <2>5, <2>7, <2>8, <2>10, <3>2, <4>1, SignInNumbers
      <4>2. CASE ~Limited(key)
        <5>1. Cardinality(active) < MaxFailures
          BY <1>2, <2>4, <3>2, <4>2, SignInNumbers DEF Limited
        <5> QED BY <2>4, <2>7, <3>2, <5>1, SignInNumbers
      <4> QED BY <4>1, <4>2
    <3> QED BY <1>4, <1>5, <2>3, <2>5, <2>10, <3>1, <3>3
  <2> QED BY <2>9, <2>10
<1> QED BY <1>4, <1>8, <1>11 DEF LimiterInv

Verified(r, address, name) ==
    /\ requests[r].pc = "verify" /\ address = requests[r].address /\ name = requests[r].name
    /\ requests' = [requests EXCEPT ![r] = NoSignIn]

\* What a verified request leaves behind of its thread.
LEMMA LimiterVerified ==
    ASSUME LimiterInv, NEW r \in SignInThread, NEW address, NEW name, Verified(r, address, name)
    PROVE  LET key == LimiterKey(address, name)
           IN  /\ address \in SignInAddress /\ name \in SignInName
               /\ key \in LimiterKeys
               /\ Cardinality(Verifying(key))' = Cardinality(Verifying(key)) - 1
               /\ \A k : k # key => Verifying(k)' = Verifying(k)
               /\ requests' \in [SignInThread -> [pc : {"idle", "verify", "refused"},
                                                  address : SignInAddress \cup {NoCookie},
                                                  name : SignInName \cup {NoCookie}]]
               /\ \A q \in SignInThread :
                      requests'[q].pc = "verify" =>
                          requests'[q].address \in SignInAddress /\ requests'[q].name \in SignInName
<1> USE DEF Verified
<1> DEFINE key == LimiterKey(address, name)
<1>1. /\ requests \in [SignInThread -> [pc : {"idle", "verify", "refused"}, address : SignInAddress \cup {NoCookie},
                                        name : SignInName \cup {NoCookie}]]
      /\ \A q \in SignInThread :
             requests[q].pc = "verify" => requests[q].address \in SignInAddress /\ requests[q].name \in SignInName
    BY DEF LimiterInv
<1>2. address \in SignInAddress /\ name \in SignInName /\ key \in LimiterKeys
    BY <1>1, KeysAreKeys
<1>3. \A k : k # key => Verifying(k)' = Verifying(k)
    BY <1>1 DEF Verifying, NoSignIn, LimiterKey
<1>4. Verifying(key)' = Verifying(key) \ {r} /\ r \in Verifying(key)
    BY <1>1 DEF Verifying, NoSignIn, LimiterKey
<1>5. PICK now : now = Verifying(key)
    OBVIOUS
<1>6. IsFiniteSet(now) /\ r \in now
    BY <1>4, <1>5, VerifyingIsFinite
<1>7. Cardinality(now \ {r}) = Cardinality(now) - 1
    BY <1>6, FS_RemoveElement
<1>8. Cardinality(Verifying(key)') = Cardinality(Verifying(key)) - 1
    BY <1>4, <1>5, <1>7
<1>9. /\ requests' \in [SignInThread -> [pc : {"idle", "verify", "refused"},
                                         address : SignInAddress \cup {NoCookie},
                                         name : SignInName \cup {NoCookie}]]
      /\ \A q \in SignInThread :
             requests'[q].pc = "verify" =>
                 requests'[q].address \in SignInAddress /\ requests'[q].name \in SignInName
    BY <1>1 DEF NoSignIn
<1> QED BY <1>2, <1>3, <1>8, <1>9

LEMMA LimiterWrongPassword ==
    ASSUME LimiterInv, NEW r \in SignInThread, WrongPassword(r)
    PROVE  LimiterInv'
<1> PICK address, name : address = requests[r].address /\ name = requests[r].name
    OBVIOUS
<1>0. /\ requests[r].pc = "verify" /\ requests' = [requests EXCEPT ![r] = NoSignIn] /\ tick' = tick
      /\ windows' = KeptWindow(LimiterKey(address, name), ActiveFailures(LimiterKey(address, name))
                                   \cup {NewFailure(ActiveFailures(LimiterKey(address, name)))})
      /\ failedAt' = FailedWith(address, name, FailedOf(address, name) \cup {NewFailure(FailedOf(address, name))})
    BY DEF WrongPassword
<1> DEFINE key == LimiterKey(address, name)
<1>1. /\ address \in SignInAddress /\ name \in SignInName
      /\ key \in LimiterKeys
      /\ Cardinality(Verifying(key))' = Cardinality(Verifying(key)) - 1
      /\ \A k : k # key => Verifying(k)' = Verifying(k)
      /\ requests' \in [SignInThread -> [pc : {"idle", "verify", "refused"},
                                         address : SignInAddress \cup {NoCookie},
                                         name : SignInName \cup {NoCookie}]]
      /\ \A q \in SignInThread :
             requests'[q].pc = "verify" =>
                 requests'[q].address \in SignInAddress /\ requests'[q].name \in SignInName
  <2>1. Verified(r, address, name)
    BY <1>0 DEF Verified
  <2> QED BY <2>1, LimiterVerified
<1>2. PICK kept, past, one : kept = KeptFailures(key) /\ past = PastFailures(key) /\ one = FailureAt(past, tick)
    OBVIOUS
<1>10. WindowOf(kept, past, tick)
    BY <1>1, <1>2 DEF LimiterInv
<1>9. tick \in Nat /\ tick' = tick
    BY <1>0, TickIsNat
<1>11. /\ FailureAt(Recent(kept, tick), tick) = one
       /\ WindowOf(Recent(kept, tick) \cup {one}, past \cup {one}, tick)
       /\ Recent(Recent(kept, tick) \cup {one}, tick) = Recent(kept, tick) \cup {one}
       /\ Cardinality(Recent(kept, tick) \cup {one}) = Cardinality(Recent(kept, tick)) + 1
       /\ Cardinality(Recent(kept, tick)) \in Nat
  <2>1. /\ FailureAt(Recent(kept, tick), tick) = FailureAt(past, tick)
        /\ WindowOf(Recent(kept, tick) \cup {FailureAt(past, tick)}, past \cup {FailureAt(past, tick)}, tick)
        /\ Recent(Recent(kept, tick) \cup {FailureAt(past, tick)}, tick)
               = Recent(kept, tick) \cup {FailureAt(past, tick)}
        /\ Cardinality(Recent(kept, tick) \cup {FailureAt(past, tick)}) = Cardinality(Recent(kept, tick)) + 1
    BY <1>9, <1>10, WindowGrows
  <2>2. Cardinality(Recent(kept, tick)) \in Nat
    BY <1>9, <1>10, WindowCounts
  <2> QED BY <1>2, <2>1, <2>2
<1>3. windows' = KeptWindow(key, Recent(kept, tick) \cup {one})
    BY <1>0, <1>2, <1>11, ActiveAreRecent DEF NewFailure, FailureAt
<1>4. failedAt' = FailedWith(address, name, past \cup {one})
    BY <1>0, <1>1, <1>2, KeysAreKeys DEF NewFailure, FailureAt
<1>5. PICK now : now = Recent(kept, tick) \cup {one}
    OBVIOUS
<1>6. PICK then : then = past \cup {one}
    OBVIOUS
<1>7. /\ DOMAIN windows' \subseteq LimiterKeys /\ KeptFailures(key)' = now
      /\ \A k : k # key => KeptFailures(k)' = KeptFailures(k)
  <2>1. windows' = KeptWindow(key, now)
    BY <1>3, <1>5
  <2> QED BY <1>1, <2>1, KeptAfter
<1>8. /\ DOMAIN failedAt' \subseteq LimiterKeys /\ PastFailures(key)' = then
      /\ \A k : k # key => PastFailures(k)' = PastFailures(k)
  <2>1. failedAt' = FailedWith(address, name, then)
    BY <1>4, <1>6
  <2> QED BY <1>1, <2>1, PastAfter
<1>12. Cardinality(Recent(kept, tick)) + Cardinality(Verifying(key)) < MaxFailures + Cardinality(SignInThread)
    BY <1>1, <1>2 DEF LimiterInv
<1>13. Cardinality(Verifying(key)) \in Nat
    BY VerifyingIsFinite
<1> HIDE DEF key
<1>14. ASSUME NEW k \in LimiterKeys
       PROVE  /\ WindowOf(KeptFailures(k), PastFailures(k), tick)'
              /\ (Cardinality(Recent(KeptFailures(k), tick)) + Cardinality(Verifying(k))
                      < MaxFailures + Cardinality(SignInThread))'
  <2>1. CASE k # key
    <3>1. /\ WindowOf(KeptFailures(k), PastFailures(k), tick)
          /\ Cardinality(Recent(KeptFailures(k), tick)) + Cardinality(Verifying(k))
                 < MaxFailures + Cardinality(SignInThread)
      BY DEF LimiterInv
    <3> QED BY <1>1, <1>7, <1>8, <1>9, <2>1, <3>1
  <2>2. CASE k = key
    <3>2. WindowOf(now, then, tick) /\ Recent(now, tick) = now
      BY <1>5, <1>6, <1>11
    <3>1. Cardinality(now) + (Cardinality(Verifying(key)) - 1) < MaxFailures + Cardinality(SignInThread)
      BY <1>2, <1>5, <1>11, <1>12, <1>13, SignInNumbers
    <3> QED BY <1>1, <1>7, <1>8, <1>9, <2>2, <3>1, <3>2
  <2> QED BY <2>1, <2>2
<1> QED BY <1>1, <1>7, <1>8, <1>9, <1>14 DEF LimiterInv

LEMMA LimiterRightPassword ==
    ASSUME LimiterInv, NEW r \in SignInThread, RightPassword(r)
    PROVE  LimiterInv'
<1> PICK address, name : address = requests[r].address /\ name = requests[r].name
    OBVIOUS
<1>0. /\ requests[r].pc = "verify" /\ requests' = [requests EXCEPT ![r] = NoSignIn] /\ tick' = tick
      /\ windows' = AfterSuccess(LimiterKey(address, name))
      /\ failedAt' = FailedWith(address, name, {})
    BY DEF RightPassword
<1> DEFINE key == LimiterKey(address, name)
<1>1. /\ address \in SignInAddress /\ name \in SignInName
      /\ key \in LimiterKeys
      /\ Cardinality(Verifying(key))' = Cardinality(Verifying(key)) - 1
      /\ \A k : k # key => Verifying(k)' = Verifying(k)
      /\ requests' \in [SignInThread -> [pc : {"idle", "verify", "refused"},
                                         address : SignInAddress \cup {NoCookie},
                                         name : SignInName \cup {NoCookie}]]
      /\ \A q \in SignInThread :
             requests'[q].pc = "verify" =>
                 requests'[q].address \in SignInAddress /\ requests'[q].name \in SignInName
  <2>1. Verified(r, address, name)
    BY <1>0 DEF Verified
  <2> QED BY <2>1, LimiterVerified
<1>2. /\ DOMAIN windows' \subseteq LimiterKeys /\ KeptFailures(key)' = {}
      /\ \A k : k # key => KeptFailures(k)' = KeptFailures(k)
    BY <1>0, <1>1, KeptAfter DEF AfterSuccess
<1>3. /\ DOMAIN failedAt' \subseteq LimiterKeys /\ PastFailures(key)' = {}
      /\ \A k : k # key => PastFailures(k)' = PastFailures(k)
    BY <1>0, <1>1, PastAfter
<1>4. tick \in Nat /\ tick' = tick
    BY <1>0, TickIsNat
<1>5. WindowOf({}, {}, tick) /\ Recent({}, tick) = {}
    BY <1>4, NoWindow
<1>6. Cardinality({}) + (Cardinality(Verifying(key)) - 1) < MaxFailures + Cardinality(SignInThread)
    BY VerifyingIsFinite, FS_EmptySet, SignInNumbers
<1> HIDE DEF key
<1>7. ASSUME NEW k \in LimiterKeys
      PROVE  /\ WindowOf(KeptFailures(k), PastFailures(k), tick)'
             /\ (Cardinality(Recent(KeptFailures(k), tick)) + Cardinality(Verifying(k))
                     < MaxFailures + Cardinality(SignInThread))'
  <2>1. CASE k # key
    <3>1. /\ WindowOf(KeptFailures(k), PastFailures(k), tick)
          /\ Cardinality(Recent(KeptFailures(k), tick)) + Cardinality(Verifying(k))
                 < MaxFailures + Cardinality(SignInThread)
      BY DEF LimiterInv
    <3> QED BY <1>1, <1>2, <1>3, <1>4, <2>1, <3>1
  <2>2. CASE k = key
    BY <1>1, <1>2, <1>3, <1>4, <1>5, <1>6, <2>2
  <2> QED BY <2>1, <2>2
<1> QED BY <1>1, <1>2, <1>3, <1>4, <1>7 DEF LimiterInv

LEMMA LimiterTick == LimiterInv /\ Tick => LimiterInv'
<1> SUFFICES ASSUME LimiterInv, Tick PROVE LimiterInv'
    OBVIOUS
<1> USE DEF Tick, clockVars
<1>1. \A k : /\ KeptFailures(k)' = KeptFailures(k) /\ PastFailures(k)' = PastFailures(k)
             /\ Verifying(k)' = Verifying(k)
    BY DEF KeptFailures, PastFailures, Verifying, LimiterKey
<1>2. tick \in Nat /\ tick' = tick + 1
    BY TickIsNat
<1>3. ASSUME NEW k \in LimiterKeys
      PROVE  /\ WindowOf(KeptFailures(k), PastFailures(k), tick + 1)
             /\ Cardinality(Recent(KeptFailures(k), tick + 1)) + Cardinality(Verifying(k))
                     < MaxFailures + Cardinality(SignInThread)
  <2>1. /\ WindowOf(KeptFailures(k), PastFailures(k), tick)
        /\ Cardinality(Recent(KeptFailures(k), tick)) + Cardinality(Verifying(k))
               < MaxFailures + Cardinality(SignInThread)
    BY DEF LimiterInv
  <2>2. /\ Cardinality(Verifying(k)) \in Nat /\ Cardinality(Recent(KeptFailures(k), tick)) \in Nat
    BY <1>2, <2>1, VerifyingIsFinite, WindowCounts
  <2>3. /\ WindowOf(KeptFailures(k), PastFailures(k), tick + 1)
        /\ Cardinality(Recent(KeptFailures(k), tick + 1)) <= Cardinality(Recent(KeptFailures(k), tick))
        /\ Cardinality(Recent(KeptFailures(k), tick + 1)) \in Nat
    BY <1>2, <2>1, WindowAges
  <2> QED BY <2>1, <2>2, <2>3, SignInNumbers
<1>4. \A k \in LimiterKeys :
          /\ WindowOf(KeptFailures(k), PastFailures(k), tick)'
          /\ (Cardinality(Recent(KeptFailures(k), tick)) + Cardinality(Verifying(k))
                  < MaxFailures + Cardinality(SignInThread))'
    BY <1>1, <1>2, <1>3
<1>5. tick' \in 0 .. LastTick
    BY SignInAssumption DEF LimiterInv
<1> QED BY <1>4, <1>5 DEF LimiterInv

LEMMA LimiterRestart ==
    ASSUME LimiterInv, NEW list, RestartService(list)
    PROVE  LimiterInv'
<1> USE DEF RestartService
<1>1. \A k : KeptFailures(k)' = {} /\ PastFailures(k)' = {} /\ Verifying(k)' = {}
    BY DEF KeptFailures, PastFailures, Verifying, NoFailures, NoSignIn
<1>2. tick \in Nat /\ tick' = tick
    BY TickIsNat
<1>3. WindowOf({}, {}, tick) /\ Recent({}, tick) = {}
    BY <1>2, NoWindow
<1>4. Cardinality({}) = 0 /\ 0 < MaxFailures + Cardinality(SignInThread)
    BY FS_EmptySet, SignInNumbers
<1>5. \A k \in LimiterKeys :
          /\ WindowOf(KeptFailures(k), PastFailures(k), tick)'
          /\ (Cardinality(Recent(KeptFailures(k), tick)) + Cardinality(Verifying(k))
                  < MaxFailures + Cardinality(SignInThread))'
    BY <1>1, <1>2, <1>3, <1>4
<1> QED BY <1>5 DEF LimiterInv, NoFailures, NoSignIn

\* Whatever goes on with Feishu and with sessions is nothing to the limiter.
LEMMA LimiterRests == LimiterInv /\ UNCHANGED <<windows, failedAt, requests, tick>> => LimiterInv'
BY DEF LimiterInv, KeptFailures, PastFailures, Verifying, LimiterKey

LEMMA LimiterStep == LimiterInv /\ [SignInNext]_signInVars => LimiterInv'
<1> SUFFICES ASSUME LimiterInv, [SignInNext]_signInVars PROVE LimiterInv'
    OBVIOUS
<1>1. CASE UNCHANGED <<windows, failedAt, requests, tick>>
    BY <1>1, LimiterRests
<1>2. ASSUME NEW r \in SignInThread, WrongPassword(r) \/ RightPassword(r) PROVE LimiterInv'
    BY <1>2, LimiterWrongPassword, LimiterRightPassword
<1> QED BY <1>1, <1>2, LimiterCheckLimit, LimiterTick, LimiterRestart
        DEF SignInNext, signInVars, clockVars, StartFeishu, Callback, LeaveFeishu, Exchange, GetSession, Logout

\* The bound on failures, and why a request was refused.
LEMMA LimiterShown ==
    ASSUME LimiterInv
    PROVE  /\ FailuresBounded
           /\ \A address \in SignInAddress, name \in SignInName :
                  CountedAt(FailedOf(address, name)) = Cardinality(ActiveFailures(LimiterKey(address, name)))
<1>1. tick \in Nat
    BY TickIsNat
<1>2. ASSUME NEW key \in LimiterKeys
      PROVE  /\ CountedAt(PastFailures(key)) = Cardinality(ActiveFailures(key))
             /\ CountedAt(PastFailures(key)) < MaxFailures + Cardinality(SignInThread)
  <2>1. /\ WindowOf(KeptFailures(key), PastFailures(key), tick)
        /\ Cardinality(Recent(KeptFailures(key), tick)) + Cardinality(Verifying(key))
               < MaxFailures + Cardinality(SignInThread)
    BY DEF LimiterInv
  <2>2. /\ Recent(PastFailures(key), tick) = Recent(KeptFailures(key), tick)
        /\ Cardinality(Recent(KeptFailures(key), tick)) \in Nat
    BY <1>1, <2>1, WindowCounts
  <2>3. CountedAt(PastFailures(key)) = Cardinality(Recent(PastFailures(key), tick))
    BY DEF CountedAt, Recent
  <2>4. Cardinality(Verifying(key)) \in Nat
    BY VerifyingIsFinite
  <2> QED BY <2>1, <2>2, <2>3, <2>4, ActiveAreRecent, SignInNumbers
<1>3. FailuresBounded
    BY <1>2 DEF FailuresBounded, LimiterInv, PastFailures
<1> QED BY <1>2, <1>3, KeysAreKeys

-----------------------------------------------------------------------------
(* Feishu and sessions.  A cookie that bears a tab's state bears its page   *)
(* too; it is lost to a tab only through another one.                       *)

Errand ==
    [pc : {"idle", "consent", "exchange"}, state : 0 .. MaxSignIns, page : LandingPage \cup {""},
     landing : SafePage \cup {"/", ""}, user : FeishuUser \cup {NoCookie}, undisturbed : BOOLEAN,
     failure : {"", "invalid_state", "access_denied", "provider_unavailable", "not_authorized"}]

Sessions == [who : SignInPerson, until : Nat]

\* What a tab knows is in the cookie, as long as that is its own.
TabKept(t) ==
    /\ tabs[t].pc = "consent" =>
           /\ tabs[t].failure = "" /\ tabs[t].state \in 1 .. signIns
           /\ tabs[t].undisturbed => transaction # NoCookie /\ transaction.state = tabs[t].state
           /\ transaction # NoCookie /\ transaction.state = tabs[t].state =>
                  transaction.page = Safe(tabs[t].page)
    /\ tabs[t].pc = "exchange" => tabs[t].landing = Safe(tabs[t].page) /\ tabs[t].user \in FeishuUser

BrowserInv ==
    /\ tick \in 0 .. LastTick /\ signIns \in 0 .. MaxSignIns
    /\ accounts \in Accounts
    /\ tabs \in [Tab -> Errand]
    /\ transaction \in Transactions \cup {NoCookie}
    /\ transaction # NoCookie => transaction.state \in 1 .. signIns
    /\ \A t \in Tab : TabKept(t)
    /\ LandsWhereBegun
    /\ session \in Sessions \cup {NoCookie}
    /\ session # NoCookie =>
           /\ lastSignIn # NoCookie
           /\ lastSignIn.who = session.who /\ session.until = lastSignIn.at + SessionTtl

LEMMA NoErrandTyped ==
    /\ NoErrand \in Errand /\ NoErrand.pc = "idle" /\ NoErrand.page = "" /\ NoErrand.landing = ""
    /\ NoErrand.user = NoCookie /\ NoErrand.failure = ""
<1>1. 0 \in 0 .. MaxSignIns
    BY SignInAssumption
<1> QED BY <1>1 DEF NoErrand, Errand

LEMMA BrowserInitially == SignInInit => BrowserInv
<1> SUFFICES ASSUME SignInInit PROVE BrowserInv
    OBVIOUS
<1> USE SignInAssumption DEF SignInInit
<1>1. NoErrand \in Errand
    BY NoErrandTyped
<1>2. tabs \in [Tab -> Errand] /\ \A t \in Tab : TabKept(t)
    BY <1>1 DEF TabKept, NoErrand
<1>3. LandsWhereBegun
    BY DEF LandsWhereBegun
<1> QED BY <1>2, <1>3 DEF BrowserInv

\* Nothing of the browser changes.
LEMMA BrowserRests ==
    BrowserInv /\ accounts' \in Accounts /\ signIns' \in signIns .. MaxSignIns
        /\ UNCHANGED <<tick, tabs, transaction, landed, session, lastSignIn>> => BrowserInv'
<1> SUFFICES ASSUME BrowserInv, accounts' \in Accounts, signIns' \in signIns .. MaxSignIns,
                    UNCHANGED <<tick, tabs, transaction, landed, session, lastSignIn>>
             PROVE  BrowserInv'
    OBVIOUS
<1> USE SignInAssumption DEF BrowserInv
<1>1. signIns \in Nat /\ signIns' \in 0 .. MaxSignIns /\ \A n \in 1 .. signIns : n \in 1 .. signIns'
    OBVIOUS
<1>2. \A t \in Tab : TabKept(t)'
    BY <1>1 DEF TabKept, Safe
<1>3. LandsWhereBegun'
    BY DEF LandsWhereBegun
<1> QED BY <1>1, <1>2, <1>3

\* Whoever signs in is one of those who may, and has the session.
LEMMA SessionBegins ==
    ASSUME NEW who \in SignInPerson, SignsIn(who), tick \in 0 .. LastTick
    PROVE  /\ session' \in Sessions
           /\ lastSignIn' # NoCookie /\ lastSignIn'.who = session'.who
           /\ session'.until = lastSignIn'.at + SessionTtl
<1> USE SignInAssumption, SignInNumbers DEF SignsIn, IssueSession
<1>1. lastSignIn' \in [who : SignInPerson, at : 0 .. LastTick]
    OBVIOUS
<1>2. lastSignIn' # NoCookie
    BY <1>1
<1>3. tick + SessionTtl \in Nat
    OBVIOUS
<1> QED BY <1>2, <1>3 DEF Sessions

LEMMA BrowserRightPassword ==
    ASSUME BrowserInv, NEW r \in SignInThread, RightPassword(r)
    PROVE  BrowserInv'
<1> USE SignInAssumption DEF BrowserInv
<1>1. PICK who \in AccountsOf(accounts, requests[r].name) : SignsIn(who)
    BY DEF RightPassword
<1>2. who \in SignInPerson
    BY DEF AccountsOf, SignInPerson
<1>3. /\ session' \in Sessions
      /\ lastSignIn' # NoCookie /\ lastSignIn'.who = session'.who
      /\ session'.until = lastSignIn'.at + SessionTtl
    BY <1>1, <1>2, SessionBegins
<1>4. UNCHANGED <<accounts, signIns, tick, tabs, transaction, landed>>
    BY DEF RightPassword
<1>5. \A t \in Tab : TabKept(t)'
    BY <1>4 DEF TabKept, Safe
<1>6. LandsWhereBegun'
    BY <1>4 DEF LandsWhereBegun
<1> QED BY <1>3, <1>4, <1>5, <1>6

\* What another tab does leaves a tab's errand but for its cookie.
Disturbed(old, new) ==
    /\ new.undisturbed = FALSE /\ new.pc = old.pc /\ new.failure = old.failure
    /\ new.state = old.state /\ new.page = old.page
    /\ new.landing = old.landing /\ new.user = old.user

LEMMA ErrandDisturbed ==
    ASSUME NEW e \in Errand
    PROVE  LET new == [e EXCEPT !.undisturbed = FALSE] IN new \in Errand /\ Disturbed(e, new)
<1>1. [e EXCEPT !.undisturbed = FALSE] \in Errand
    BY DEF Errand
<1> QED BY <1>1 DEF Errand, Disturbed

LEMMA OthersDisturbed ==
    ASSUME tabs \in [Tab -> Errand], NEW t \in Tab, NEW new \in Errand,
           tabs' = [Disturbing(t) EXCEPT ![t] = new]
    PROVE  /\ tabs' \in [Tab -> Errand] /\ tabs'[t] = new
           /\ \A u \in Tab \ {t} : Disturbed(tabs[u], tabs'[u])
<1>1. \A u \in Tab :
          /\ tabs[u] \in Errand /\ [tabs[u] EXCEPT !.undisturbed = FALSE] \in Errand
          /\ Disturbed(tabs[u], [tabs[u] EXCEPT !.undisturbed = FALSE])
    BY ErrandDisturbed
<1>2. Disturbing(t) \in [Tab -> Errand]
    BY <1>1 DEF Disturbing
<1>3. \A u \in Tab \ {t} : tabs'[u] = [tabs[u] EXCEPT !.undisturbed = FALSE]
    BY <1>2 DEF Disturbing
<1>4. tabs' \in [Tab -> Errand] /\ tabs'[t] = new
    BY <1>2
<1> QED BY <1>1, <1>3, <1>4

\* The cookie that replaced a tab's, if any, is of a later transaction.
LEMMA OthersStillKept ==
    ASSUME NEW u \in Tab, TabKept(u), Disturbed(tabs[u], tabs'[u]), signIns \in Nat,
           signIns' \in {signIns, signIns + 1},
           transaction' = NoCookie \/ transaction'.state = signIns + 1
    PROVE  TabKept(u)'
<1> DEFINE old == tabs[u]
           new == tabs'[u]
<1>1. Disturbed(old, new)
    OBVIOUS
<1>2. old.pc = "consent" => old.failure = "" /\ old.state \in 1 .. signIns
    BY DEF TabKept
<1>3. old.pc = "exchange" => old.landing = Safe(old.page) /\ old.user \in FeishuUser
    BY DEF TabKept
<1> HIDE DEF old, new
<1>4. new.pc = "consent" =>
          /\ new.failure = "" /\ new.state \in 1 .. signIns' /\ ~new.undisturbed
          /\ ~(transaction' # NoCookie /\ transaction'.state = new.state)
  <2>1. signIns' \in Nat /\ \A n \in 1 .. signIns : n \in 1 .. signIns' /\ n # signIns + 1
    OBVIOUS
  <2> QED BY <1>1, <1>2, <2>1 DEF Disturbed
<1>5. new.pc = "exchange" => new.landing = Safe(new.page) /\ new.user \in FeishuUser
    BY <1>1, <1>3 DEF Disturbed
<1> QED BY <1>4, <1>5 DEF TabKept, new, Safe

NewErrand(state, page) == [NoErrand EXCEPT !.pc = "consent", !.state = state, !.page = page]

IsNewErrand(new, state, page) ==
    new \in Errand /\ new.pc = "consent" /\ new.failure = "" /\ new.state = state /\ new.page = page

LEMMA NewErrandTyped ==
    ASSUME NEW state \in 1 .. MaxSignIns, NEW page \in LandingPage
    PROVE  IsNewErrand(NewErrand(state, page), state, page)
<1>1. state \in 0 .. MaxSignIns
    BY SignInAssumption
<1> QED BY <1>1 DEF NewErrand, NoErrand, Errand, IsNewErrand

LEMMA FailedErrand ==
    ASSUME NEW e \in Errand,
           NEW failure \in {"invalid_state", "access_denied", "provider_unavailable", "not_authorized"}
    PROVE  LET new == [NoErrand EXCEPT !.failure = failure, !.state = e.state, !.undisturbed = e.undisturbed]
           IN  new \in Errand /\ new.pc = "idle"
<1>1. e.state \in 0 .. MaxSignIns /\ e.undisturbed \in BOOLEAN
    BY DEF Errand
<1> QED BY <1>1 DEF NoErrand, Errand

AnsweredErrand(e, user, landing) == [e EXCEPT !.pc = "exchange", !.user = user, !.landing = landing]

LEMMA AnsweredErrandTyped ==
    ASSUME NEW e \in Errand, NEW user \in FeishuUser, NEW landing \in SafePage \cup {"/"}
    PROVE  LET new == AnsweredErrand(e, user, landing)
           IN  /\ new \in Errand /\ new.pc = "exchange" /\ new.user = user
               /\ new.landing = landing /\ new.page = e.page
<1>1. [e EXCEPT !.pc = "exchange", !.user = user, !.landing = landing] \in Errand
    BY DEF Errand
<1> QED BY <1>1 DEF AnsweredErrand, Errand

LEMMA BrowserStartFeishu ==
    ASSUME BrowserInv, NEW t \in Tab, NEW page \in LandingPage, StartFeishu(t, page)
    PROVE  BrowserInv'
<1> USE SignInAssumption, SignInNumbers DEF BrowserInv
<1>1. /\ signIns' = signIns + 1 /\ signIns' \in 1 .. MaxSignIns /\ signIns \in Nat
      /\ UNCHANGED <<accounts, tick, session, landed, lastSignIn>>
      /\ transaction' = [state |-> signIns', page |-> Safe(page), until |-> tick + TransactionTtl]
    BY DEF StartFeishu, Begun, clockVars
<1>2. PICK new : new = NewErrand(signIns', page)
    OBVIOUS
<1>3. /\ new \in Errand /\ new.pc = "consent" /\ new.failure = "" /\ new.state = signIns' /\ new.page = page
  <2>1. signIns' \in 1 .. MaxSignIns
    BY <1>1
  <2>2. PICK number \in 1 .. MaxSignIns : number = signIns'
    BY <2>1
  <2>3. new = NewErrand(number, page)
    BY <1>2, <2>2
  <2>4. IsNewErrand(new, number, page)
    BY <2>3, NewErrandTyped
  <2> QED BY ONLY <2>2, <2>4 DEF IsNewErrand
<1>4. tabs' = [Disturbing(t) EXCEPT ![t] = new]
    BY <1>2 DEF StartFeishu, NewErrand
<1>5. /\ tabs' \in [Tab -> Errand] /\ tabs'[t] = new
      /\ \A u \in Tab \ {t} : Disturbed(tabs[u], tabs'[u])
    BY <1>3, <1>4, OthersDisturbed
<1>6. transaction' \in Transactions
  <2>1. Safe(page) \in SafePage \cup {"/"}
    BY DEF Safe
  <2>2. tick + TransactionTtl \in 0 .. LastTick + TransactionTtl
    OBVIOUS
  <2> QED BY <1>1, <2>1, <2>2 DEF Transactions
<1>7. transaction' # NoCookie /\ transaction'.state = signIns' /\ transaction'.page = Safe(page)
    BY <1>1, <1>6
<1>8. TabKept(t)'
  <2>1. signIns' \in 1 .. signIns'
    BY <1>1
  <2> QED BY <1>3, <1>5, <1>7, <2>1 DEF TabKept, Safe
<1>9. \A u \in Tab \ {t} : TabKept(u)'
    BY <1>1, <1>5, <1>7, OthersStillKept
<1>10. LandsWhereBegun'
    BY <1>1 DEF LandsWhereBegun
<1> QED BY <1>1, <1>5, <1>6, <1>7, <1>8, <1>9, <1>10

LEMMA BrowserLeaveFeishu ==
    ASSUME BrowserInv, NEW t \in Tab, LeaveFeishu(t)
    PROVE  BrowserInv'
<1> USE SignInAssumption DEF BrowserInv
<1>1. tabs' = [tabs EXCEPT ![t] = NoErrand] /\ UNCHANGED <<accounts, signIns, tick, transaction, landed, session, lastSignIn>>
    BY DEF LeaveFeishu, clockVars
<1>2. NoErrand \in Errand
    BY NoErrandTyped
<1>3. tabs' \in [Tab -> Errand] /\ tabs'[t] = NoErrand /\ \A u \in Tab \ {t} : tabs'[u] = tabs[u]
    BY <1>1, <1>2
<1>4. \A u \in Tab : TabKept(u)'
    BY <1>1, <1>3 DEF TabKept, NoErrand, Safe
<1>5. LandsWhereBegun'
    BY <1>1 DEF LandsWhereBegun
<1> QED BY <1>1, <1>3, <1>4, <1>5

\* The cookie goes with an answer that fails.
LEMMA BrowserCallbackFails ==
    ASSUME BrowserInv, NEW t \in Tab, NEW failure, CallbackFails(t, failure),
           failure \in {"invalid_state", "access_denied", "provider_unavailable", "not_authorized"},
           UNCHANGED <<accounts, signIns, tick>>
    PROVE  BrowserInv'
<1> USE SignInAssumption DEF BrowserInv
<1>1. transaction' = NoCookie /\ UNCHANGED <<session, landed, lastSignIn>>
    BY DEF CallbackFails
<1>2. PICK new : new = [NoErrand EXCEPT !.failure = failure, !.state = tabs[t].state,
                                        !.undisturbed = tabs[t].undisturbed]
    OBVIOUS
<1>3. new \in Errand /\ new.pc = "idle"
  <2>1. tabs[t] \in Errand
    OBVIOUS
  <2> QED BY <1>2, <2>1, FailedErrand
<1>4. tabs' = [Disturbing(t) EXCEPT ![t] = new]
    BY <1>2 DEF CallbackFails
<1>5. /\ tabs' \in [Tab -> Errand] /\ tabs'[t] = new
      /\ \A u \in Tab \ {t} : Disturbed(tabs[u], tabs'[u])
    BY <1>3, <1>4, OthersDisturbed
<1>6. TabKept(t)'
    BY <1>3, <1>5 DEF TabKept
<1>6b. \A u \in Tab \ {t} : TabKept(u)'
    BY <1>1, <1>5, SignInNumbers, OthersStillKept
<1>7. LandsWhereBegun'
    BY <1>1 DEF LandsWhereBegun
<1> QED BY <1>1, <1>5, <1>6, <1>6b, <1>7

LEMMA BrowserCallback ==
    ASSUME BrowserInv, NEW t \in Tab, NEW user \in FeishuUser \cup {NoCookie}, Callback(t, user)
    PROVE  BrowserInv'
<1> USE SignInAssumption DEF BrowserInv
<1>1. UNCHANGED <<accounts, signIns, tick>> /\ tabs[t].pc = "consent"
    BY DEF Callback, clockVars
<1>2. ASSUME CallbackFails(t, "invalid_state") \/ CallbackFails(t, "access_denied") PROVE BrowserInv'
    BY <1>1, <1>2, BrowserCallbackFails
<1>3. ASSUME Consumable(tabs[t].state), user # NoCookie,
             tabs' = [tabs EXCEPT ![t].pc = "exchange", ![t].user = user, ![t].landing = transaction.page],
             UNCHANGED <<transaction, session, landed, lastSignIn>>
      PROVE  BrowserInv'
  <2>1. /\ transaction \in Transactions /\ transaction.page = Safe(tabs[t].page)
    BY <1>1, <1>3 DEF Consumable, TabKept
  <2>2. tabs[t] \in Errand /\ transaction.page \in SafePage \cup {"/"}
    BY <2>1 DEF Transactions
  <2>3. PICK new : new = AnsweredErrand(tabs[t], user, transaction.page)
    OBVIOUS
  <2>4. /\ new \in Errand /\ new.pc = "exchange" /\ new.user = user /\ user \in FeishuUser
        /\ new.landing = transaction.page /\ new.page = tabs[t].page
    <3>1. user \in FeishuUser
      BY <1>3
    <3> QED BY <2>2, <2>3, <3>1, AnsweredErrandTyped
  <2>5. tabs' = [tabs EXCEPT ![t] = new]
    BY <1>3, <2>3 DEF AnsweredErrand
  <2>6. tabs' \in [Tab -> Errand] /\ tabs'[t] = new /\ \A u \in Tab \ {t} : tabs'[u] = tabs[u]
    BY <2>4, <2>5
  <2>7. TabKept(t)'
    <3>1. new.landing = Safe(new.page)
      BY <2>1, <2>4
    <3> QED BY <2>4, <2>6, <3>1 DEF TabKept
  <2>9. \A u \in Tab \ {t} : TabKept(u)'
    BY <1>1, <1>3, <2>6 DEF TabKept, Safe
  <2>8. LandsWhereBegun'
    BY <1>3 DEF LandsWhereBegun
  <2> QED BY <1>1, <1>3, <2>6, <2>7, <2>8, <2>9
<1> QED BY <1>2, <1>3 DEF Callback

LEMMA BrowserExchange ==
    ASSUME BrowserInv, NEW t \in Tab, Exchange(t)
    PROVE  BrowserInv'
<1> USE SignInAssumption DEF BrowserInv
<1>1. UNCHANGED <<accounts, signIns, tick>> /\ tabs[t].pc = "exchange"
    BY DEF Exchange, clockVars
<1>2. ASSUME CallbackFails(t, "provider_unavailable") \/ CallbackFails(t, "not_authorized") PROVE BrowserInv'
    BY <1>1, <1>2, BrowserCallbackFails
<1>3. ASSUME Authorized(tabs[t].user), SignsIn(tabs[t].user),
             landed' = landed \cup {[page |-> tabs[t].page, landing |-> LandingOf(t), user |-> tabs[t].user]},
             transaction' = NoCookie, tabs' = [Disturbing(t) EXCEPT ![t] = NoErrand]
      PROVE  BrowserInv'
  <2>1. tabs[t].landing = Safe(tabs[t].page) /\ tabs[t].user \in FeishuUser
    BY <1>1 DEF TabKept
  <2>2. PICK who : who = tabs[t].user
    OBVIOUS
  <2>3. who \in SignInPerson /\ SignsIn(who)
    BY <1>3, <2>1, <2>2 DEF SignInPerson
  <2>4. /\ session' \in Sessions
        /\ lastSignIn' # NoCookie /\ lastSignIn'.who = session'.who
        /\ session'.until = lastSignIn'.at + SessionTtl
    BY <2>3, SessionBegins
  <2>5. NoErrand \in Errand /\ NoErrand.pc = "idle"
    BY NoErrandTyped
  <2>6. /\ tabs' \in [Tab -> Errand] /\ tabs'[t] = NoErrand
        /\ \A u \in Tab \ {t} : Disturbed(tabs[u], tabs'[u])
    BY <1>3, <2>5, OthersDisturbed
  <2>7. TabKept(t)'
    BY <2>5, <2>6 DEF TabKept
  <2>9. \A u \in Tab \ {t} : TabKept(u)'
    BY <1>1, <1>3, <2>6, OthersStillKept
  <2>8. LandsWhereBegun'
    BY <1>3, <2>1 DEF LandsWhereBegun, LandingOf, Safe, Authorized
  <2> QED BY <1>1, <1>3, <2>4, <2>6, <2>7, <2>8, <2>9
<1> QED BY <1>2, <1>3 DEF Exchange

LEMMA BrowserTimeAndLogout == BrowserInv /\ (Tick \/ Logout) => BrowserInv'
<1> SUFFICES ASSUME BrowserInv, Tick \/ Logout PROVE BrowserInv'
    OBVIOUS
<1> USE SignInAssumption DEF BrowserInv
<1>1. UNCHANGED <<accounts, signIns, tabs, transaction, landed>>
    BY DEF Tick, Logout, clockVars
<1>2. \A t \in Tab : TabKept(t)'
    BY <1>1 DEF TabKept, Safe
<1>3. LandsWhereBegun'
    BY <1>1 DEF LandsWhereBegun
<1>4. CASE Tick
    BY <1>1, <1>2, <1>3, <1>4 DEF Tick
<1>5. CASE Logout
    BY <1>1, <1>2, <1>3, <1>5 DEF Logout, CookieAfterLogout
<1> QED BY <1>4, <1>5

LEMMA BrowserStep == BrowserInv /\ [SignInNext]_signInVars => BrowserInv'
<1> SUFFICES ASSUME BrowserInv, [SignInNext]_signInVars PROVE BrowserInv'
    OBVIOUS
<1>1. accounts \in Accounts /\ signIns \in 0 .. MaxSignIns /\ MaxSignIns \in Nat
    BY SignInAssumption DEF BrowserInv
<1>2. CASE UNCHANGED signInVars \/ GetSession
    BY <1>1, <1>2, BrowserRests DEF signInVars, clockVars, GetSession
<1>3. ASSUME NEW r \in SignInThread, NEW address \in SignInAddress, NEW name \in SignInName,
             CheckLimit(r, address, name)
      PROVE  BrowserInv'
  <2>1. signIns' \in signIns .. MaxSignIns
    BY <1>1, <1>3 DEF CheckLimit
  <2> QED BY <1>1, <1>3, <2>1, BrowserRests DEF CheckLimit
<1>4. ASSUME NEW r \in SignInThread, WrongPassword(r) \/ RightPassword(r) PROVE BrowserInv'
    BY <1>1, <1>4, BrowserRests, BrowserRightPassword DEF WrongPassword
<1>5. ASSUME NEW list \in Accounts, RestartService(list) PROVE BrowserInv'
    BY <1>1, <1>5, BrowserRests DEF RestartService
<1> QED BY <1>2, <1>3, <1>4, <1>5, BrowserStartFeishu, BrowserCallback, BrowserLeaveFeishu, BrowserExchange,
           BrowserTimeAndLogout DEF SignInNext

-----------------------------------------------------------------------------
(* What a step may not do.                                                 *)

LEMMA RefusalHasCause ==
    ASSUME LimiterInv, [SignInNext]_signInVars, NEW r \in SignInThread,
           requests'[r].pc = "refused", requests[r].pc # "refused"
    PROVE  CountedAt(FailedOf(requests'[r].address, requests'[r].name)) >= MaxFailures
<1>1. requests \in [SignInThread -> [pc : {"idle", "verify", "refused"},
                                     address : SignInAddress \cup {NoCookie},
                                     name : SignInName \cup {NoCookie}]]
    BY DEF LimiterInv
<1>2. PICK address \in SignInAddress, name \in SignInName : CheckLimit(r, address, name)
  <2>1. requests' # requests
    OBVIOUS
  <2>2. ASSUME NEW q \in SignInThread, requests' = [requests EXCEPT ![q] = NoSignIn] PROVE FALSE
    BY <1>1, <2>2 DEF NoSignIn
  <2>3. requests' # [q \in SignInThread |-> NoSignIn]
    BY DEF NoSignIn
  <2>4. ASSUME NEW q \in SignInThread, NEW address, NEW name, CheckLimit(q, address, name) PROVE q = r
    BY <1>1, <2>4 DEF CheckLimit
  <2>5. PICK q \in SignInThread, address \in SignInAddress, name \in SignInName : CheckLimit(q, address, name)
    BY <2>1, <2>2, <2>3 DEF SignInNext, signInVars, clockVars, WrongPassword, RightPassword, StartFeishu,
       Callback, LeaveFeishu, Exchange, GetSession, Logout, Tick, RestartService
  <2> QED BY <2>4, <2>5
<1>3. PICK pc \in {"verify", "refused"} :
          /\ requests' = [requests EXCEPT ![r] = [pc |-> pc, address |-> address, name |-> name]]
          /\ pc = "refused" => Limited(LimiterKey(address, name))
    BY <1>2 DEF CheckLimit
<1>4. requests'[r].address = address /\ requests'[r].name = name /\ Limited(LimiterKey(address, name))
    BY <1>1, <1>3
<1> QED BY <1>4, LimiterShown DEF Limited

LEMMA InvalidMeansOvertaken ==
    ASSUME BrowserInv, [SignInNext]_signInVars, NEW t \in Tab,
           tabs'[t].failure = "invalid_state", tabs[t].pc = "consent", tabs[t].undisturbed
    PROVE  transaction.until <= tick
<1>1. /\ tabs \in [Tab -> Errand] /\ tabs[t].failure = ""
      /\ transaction # NoCookie /\ transaction.state = tabs[t].state
    BY DEF BrowserInv, TabKept
<1>2. transaction.until \in Int /\ tick \in Int
  <2>1. transaction \in Transactions /\ tick \in 0 .. LastTick
    BY <1>1 DEF BrowserInv
  <2> QED BY <2>1, SignInAssumption, SignInNumbers DEF Transactions
<1>3. ASSUME NEW u \in Tab, NEW new \in Errand, tabs' = [Disturbing(u) EXCEPT ![u] = new], new.failure = ""
      PROVE  FALSE
    BY <1>1, <1>3, OthersDisturbed DEF Disturbed
<1>4. tabs' # tabs
    BY <1>1
<1>5. ASSUME NEW u \in Tab, NEW new \in Errand, tabs' = [tabs EXCEPT ![u] = new], new.failure = ""
      PROVE  FALSE
    BY <1>1, <1>5
<1>6. ASSUME NEW u \in Tab, NEW failure, CallbackFails(u, failure),
             failure \in {"invalid_state", "access_denied", "provider_unavailable", "not_authorized"}
      PROVE  u = t /\ failure = "invalid_state"
  <2>1. PICK new : new = [NoErrand EXCEPT !.failure = failure, !.state = tabs[u].state,
                                          !.undisturbed = tabs[u].undisturbed]
    OBVIOUS
  <2>2. new \in Errand /\ new.failure = failure
    BY <1>1, <1>6, <2>1, FailedErrand DEF NoErrand
  <2>3. tabs' = [Disturbing(u) EXCEPT ![u] = new]
    BY <1>6, <2>1 DEF CallbackFails
  <2> QED BY <1>1, <2>2, <2>3, OthersDisturbed DEF Disturbed
<1>7. ASSUME NEW u \in Tab, NEW page \in LandingPage, StartFeishu(u, page) PROVE FALSE
  <2>1. signIns' \in 1 .. MaxSignIns
    BY <1>7, SignInAssumption DEF StartFeishu, BrowserInv
  <2>2. PICK number \in 1 .. MaxSignIns : number = signIns'
    BY <2>1
  <2>3. tabs' = [Disturbing(u) EXCEPT ![u] = NewErrand(number, page)]
    BY <1>7, <2>2 DEF StartFeishu, NewErrand
  <2>4. IsNewErrand(NewErrand(number, page), number, page)
    BY NewErrandTyped
  <2>5. NewErrand(number, page) \in Errand /\ NewErrand(number, page).failure = ""
    BY <2>4 DEF IsNewErrand
  <2> QED BY <1>3, <2>3, <2>5
<1>8. ASSUME NEW u \in Tab, LeaveFeishu(u) PROVE FALSE
    BY <1>5, <1>8, NoErrandTyped DEF LeaveFeishu
<1>9. ASSUME NEW u \in Tab, Exchange(u) PROVE FALSE
    BY <1>3, <1>6, <1>9, NoErrandTyped DEF Exchange
<1>10. PICK u \in Tab, user \in FeishuUser \cup {NoCookie} : Callback(u, user)
    BY <1>4, <1>7, <1>8, <1>9 DEF SignInNext, signInVars, clockVars, CheckLimit, WrongPassword, RightPassword,
       GetSession, Logout, Tick, RestartService
<1>11. ASSUME tabs' = [tabs EXCEPT ![u].pc = "exchange", ![u].user = user, ![u].landing = transaction.page]
       PROVE  FALSE
  <2>1. tabs[u] \in Errand
    BY <1>1
  <2>2. PICK new : new = [tabs[u] EXCEPT !.pc = "exchange", !.user = user, !.landing = transaction.page]
    OBVIOUS
  <2>3. tabs' = [tabs EXCEPT ![u] = new] /\ new.failure = tabs[u].failure
    BY <1>11, <2>1, <2>2 DEF Errand
  <2> QED BY <1>1, <2>3
<1>12. u = t /\ ~Consumable(tabs[t].state)
    BY <1>6, <1>10, <1>11 DEF Callback
<1>13. ~(transaction.until > tick)
    BY <1>1, <1>12 DEF Consumable
<1> QED BY <1>2, <1>13

LEMMA SeenSignedIn ==
    ASSUME BrowserInv, [SignInNext]_signInVars, seen' # seen, seen' # NoCookie
    PROVE  lastSignIn # NoCookie /\ seen' = lastSignIn.who /\ tick < lastSignIn.at + SessionTtl
<1>1. GetSession
    BY DEF SignInNext, signInVars, clockVars, CheckLimit, WrongPassword, RightPassword, StartFeishu, Callback,
       LeaveFeishu, Exchange, Logout, Tick, RestartService
<1>2. session # NoCookie /\ StillValid(session) /\ seen' = session.who
    BY <1>1 DEF GetSession
<1>3. session \in Sessions /\ tick \in Nat
    BY <1>2, SignInAssumption DEF BrowserInv
<1> QED BY <1>2, <1>3 DEF BrowserInv, StillValid, Sessions

\* Signing in refuses with cause and bounds the failures it lets by; it lands
\* where the tab began, finds a state wrong only after the cookie was touched or
\* too late, and sees whoever signed in last (authentication.py:81, auth.py:153).
THEOREM SignInsAreSound == SignInSpec => SignInSound
<1> DEFINE Inv == LimiterInv /\ BrowserInv
<1>1. SignInInit => Inv
    BY LimiterInitially, BrowserInitially
<1>2. Inv /\ [SignInNext]_signInVars => Inv'
    BY LimiterStep, BrowserStep
<1>3. Inv => FailuresBounded /\ LandsWhereBegun
    BY LimiterShown DEF BrowserInv
<1>4. Inv /\ [SignInNext]_signInVars =>
          \A r \in SignInThread : (requests'[r].pc = "refused" /\ requests[r].pc # "refused") =>
              CountedAt(FailedOf(requests'[r].address, requests'[r].name)) >= MaxFailures
    BY RefusalHasCause
<1>5. Inv /\ [SignInNext]_signInVars =>
          \A t \in Tab :
              (tabs'[t].failure = "invalid_state" /\ tabs[t].pc = "consent" /\ tabs[t].undisturbed) =>
                  transaction.until <= tick
    BY InvalidMeansOvertaken
<1>6. Inv /\ [SignInNext]_signInVars =>
          ((seen' # seen /\ seen' # NoCookie) =>
               lastSignIn # NoCookie /\ seen' = lastSignIn.who /\ tick < lastSignIn.at + SessionTtl)
    BY SeenSignedIn
<1> HIDE DEF Inv
<1> QED BY <1>1, <1>2, <1>3, <1>4, <1>5, <1>6, PTL
        DEF SignInSpec, SignInSound, RefusedWithCause, OvertakenOrLate, SeenAsSignedIn

-----------------------------------------------------------------------------

\* Who may change a version and who may come in: both parts of governance are
\* sound, neither relies on the other (versioning.py:164, authentication.py:81).
THEOREM GovernanceIsSound == VersionSpec /\ SignInSpec => GovernanceSound
BY VersionsAreSound, SignInsAreSound DEF GovernanceSound

-----------------------------------------------------------------------------
(* Imports.  Whoever has the batch's row has found it open and leaves it    *)
(* done or as it was; nobody else writes it once it is there.               *)

BatchField == {"status", "described", "checksum", "count", "accepted", "rejected", "total", "errors"}
IsBatch(b) == b = [f \in BatchField |-> b[f]]

ImportClient ==
    [pc : {"idle", "find", "insert", "begin", "process", "commit", "tell"},
     asked : Asked \cup {"none"}, read : Content \cup {NoContent}, active : SUBSET FirmCode,
     answer : {"none", "batch", "IDEMPOTENCY_METADATA_CONFLICT", "TERMINAL_BATCH_FILE_CONFLICT",
               "FileSchemaError", "INGEST_PROCESSING_FAILED"}]

ImportTyped ==
    /\ channel \in {"sap", "hesi"}
    /\ batchLock \in Importer \cup {"free"} /\ firmLock \in Importer \cup {"free"}
    /\ activeFirms \subseteq FirmCode /\ imports \in 0 .. MaxImports
    /\ importers \in [Importer -> ImportClient]
    /\ batch = NoBatch \/ (IsBatch(batch) /\ batch.status \in TerminalStatus \cup {"RECEIVED"})

\* What a request knows, by its step.
RequestHolds(i) ==
    /\ importers[i].pc # "idle" => importers[i].read \in Content
    /\ importers[i].pc \in {"process", "commit"} <=> batchLock = i
    /\ importers[i].pc \in {"begin", "process", "commit", "tell"} =>
           batch.status # "none" /\ batch.described = Described(i)
    /\ importers[i].pc \in {"process", "commit"} => batch.status = "RECEIVED"
    /\ importers[i].pc = "commit" => firmLock = i /\ importers[i].active = activeFirms
    /\ firmLock = i => importers[i].pc = "commit"
    /\ importers[i].answer = "batch" =>
           /\ batch.status \in TerminalStatus
           /\ batch.checksum = importers[i].read /\ batch.described = Described(i)

\* A batch that is done and its records, or one that has none yet.
Settled(b, records) ==
    LET numbers == {one.number : one \in records}
    IN  /\ b.accepted + b.rejected = b.count
        /\ b.accepted = Cardinality(records)
        /\ b.total = ControlTotal(b.checksum.rows, numbers)
        /\ TotalFits(b.total)
        /\ \A one, other \in records : one.key = other.key => one = other
        /\ \A one \in records : one.number \in DOMAIN b.checksum.rows
                              /\ b.checksum.rows[one.number] = one.row
        /\ b.errors = 0 <=> b.status = "SUCCEEDED"
        /\ \A one \in records : \A k \in 1 .. one.number - 1 :
               b.checksum.rows[k].key = one.key => b.checksum.rows[k].fault = "unreadable"

BatchStands ==
    /\ batch.status \in TerminalStatus => Settled(batch, stored)
    /\ batch.status \notin TerminalStatus => stored = {}
    /\ batch.status = "RECEIVED" =>
           /\ batch.count = 0 /\ batch.accepted = 0 /\ batch.rejected = 0
           /\ batch.total = 0 /\ batch.errors = 0

ImportInv == ImportTyped /\ (\A i \in Importer : RequestHolds(i)) /\ BatchStands

-----------------------------------------------------------------------------
(* What processing makes of rows.                                          *)

LEMMA NothingToSum == \A rows : ControlTotal(rows, {}) = 0
<1> SUFFICES ASSUME NEW rows PROVE ControlTotal(rows, {}) = 0
    OBVIOUS
<1> DEFINE Sums(f) ==
        f = [s \in SUBSET {} |-> IF s = {} THEN 0
                                 ELSE LET n == CHOOSE x \in s : TRUE IN rows[n].amount + f[s \ {n}]]
<1>1. Sums([s \in SUBSET {} |-> 0])
    OBVIOUS
<1>2. \A f : Sums(f) => f[{}] = 0
    OBVIOUS
<1>3. ControlTotal(rows, {}) = (CHOOSE f : Sums(f))[{}]
    BY DEF ControlTotal, MapThenSumSet, MapThenFoldSet
<1>4. Sums(CHOOSE f : Sums(f))
  <2> HIDE DEF Sums
  <2> QED BY <1>1
<1> QED BY <1>2, <1>3, <1>4

\* An empty file, a failure and a wrong header leave a batch without records.
LEMMA NothingSettled ==
    ASSUME NEW b, b.status = "FAILED", b.accepted = 0, b.rejected = 0, b.count = 0, b.total = 0,
           b.errors \in Nat \ {0}
    PROVE  Settled(b, {})
<1>1. Cardinality({}) = 0
    BY FS_EmptySet
<1>2. TotalFits(0)
    BY ImportAssumption DEF TotalFits
<1>3. {one.number : one \in {}} = {}
    OBVIOUS
<1> QED BY <1>1, <1>2, <1>3, NothingToSum DEF Settled

RecordOf(rows, n) == [key |-> rows[n].key, number |-> n, row |-> rows[n]]
RecordsFor(rows, numbers) == {RecordOf(rows, n) : n \in numbers}

LEMMA RecordsAreNumbered ==
    ASSUME NEW rows, NEW numbers, IsFiniteSet(numbers)
    PROVE  /\ {one.number : one \in RecordsFor(rows, numbers)} = numbers
           /\ Cardinality(RecordsFor(rows, numbers)) = Cardinality(numbers)
<1>1. {one.number : one \in RecordsFor(rows, numbers)} = numbers
  <2>1. \A n \in numbers : RecordOf(rows, n).number = n
    BY DEF RecordOf
  <2> QED BY <2>1 DEF RecordsFor
<1> DEFINE f == [n \in numbers |-> RecordOf(rows, n)]
<1>2. f \in Bijection(numbers, RecordsFor(rows, numbers))
  <2>1. f \in [numbers -> RecordsFor(rows, numbers)]
    BY DEF RecordsFor
  <2>2. \A m, n \in numbers : f[m] = f[n] => m = n
    BY DEF RecordOf
  <2>3. \A one \in RecordsFor(rows, numbers) : \E n \in numbers : f[n] = one
    BY DEF RecordsFor
  <2> HIDE DEF f
  <2> QED BY <2>1, <2>2, <2>3 DEF Bijection, Injection, IsInjective, Surjection
<1>3. ExistsBijection(numbers, RecordsFor(rows, numbers))
    BY <1>2 DEF ExistsBijection
<1> QED BY <1>1, <1>3, FS_Bijection

\* Accepted rows are rows; rows of one key are rejected but for the first.
LEMMA AcceptableRows ==
    ASSUME NEW content \in Content, NEW active
    PROVE  LET rows == content.rows
               good == Acceptable(rows, active)
           IN  /\ good \subseteq DOMAIN rows /\ DOMAIN rows = 1 .. Len(rows) /\ Len(rows) \in Nat
               /\ rows = <<>> <=> Len(rows) = 0
               /\ IsFiniteSet(good) /\ Cardinality(good) \in Nat
               /\ Cardinality(DOMAIN rows \ good) \in Nat
               /\ Cardinality(good) + Cardinality(DOMAIN rows \ good) = Len(rows)
               /\ \A n \in good : \A k \in 1 .. n - 1 : rows[k].key = rows[n].key => rows[k].fault = "unreadable"
               /\ \A m, n \in good : rows[m].key = rows[n].key => m = n
               /\ \A n \in good : rows[n].company \in active
<1> DEFINE rows == content.rows
           good == Acceptable(rows, active)
<1>1. rows \in Seq({rows[n] : n \in DOMAIN rows})
    BY ImportAssumption
<1>2. good \subseteq DOMAIN rows /\ \A n \in good : rows[n].fault = "none" /\ ~Repeated(rows, n) /\ rows[n].company \in active
    BY DEF Acceptable, Candidates
<1> HIDE DEF rows, good
<1>3. DOMAIN rows = 1 .. Len(rows) /\ Len(rows) \in Nat
    BY <1>1
<1>4. rows = <<>> <=> Len(rows) = 0
    BY <1>1, EmptySeq
<1>5. IsFiniteSet(1 .. Len(rows)) /\ Cardinality(1 .. Len(rows)) = Len(rows)
  <2>1. 1 \in Int /\ Len(rows) \in Int
    BY <1>3
  <2>2. IsFiniteSet(1 .. Len(rows))
        /\ Cardinality(1 .. Len(rows)) = IF 1 > Len(rows) THEN 0 ELSE Len(rows) - 1 + 1
    BY ONLY <2>1, FS_Interval
  <2> QED BY <1>3, <2>2
<1>6. good \in SUBSET (1 .. Len(rows))
    BY <1>2, <1>3
<1>7. IsFiniteSet(good) /\ Cardinality(good) \in Nat
    BY <1>5, <1>6, FS_Subset, FS_CardinalityType
<1>8. Cardinality((1 .. Len(rows)) \ good) = Len(rows) - Cardinality((1 .. Len(rows)) \cap good)
      /\ Cardinality((1 .. Len(rows)) \ good) \in Nat
    BY <1>5, FS_Difference, FS_CardinalityType
<1>9. (1 .. Len(rows)) \cap good = good
    BY <1>6
<1>10. Cardinality(good) + Cardinality(DOMAIN rows \ good) = Len(rows) /\ Cardinality(DOMAIN rows \ good) \in Nat
  <2>1. Cardinality((1 .. Len(rows)) \ good) = Len(rows) - Cardinality(good)
    BY <1>8, <1>9
  <2> QED BY <1>3, <1>7, <1>8, <2>1
<1>11. \A n \in good : \A k \in 1 .. n - 1 : rows[k].key = rows[n].key => rows[k].fault = "unreadable"
    BY <1>2 DEF Repeated
<1>12. \A m, n \in good : rows[m].key = rows[n].key => m = n
  <2> SUFFICES ASSUME NEW m \in good, NEW n \in good, rows[m].key = rows[n].key PROVE m = n
    OBVIOUS
  <2>1. m \in Nat \ {0} /\ n \in Nat \ {0}
    BY <1>6
  <2>2. rows[m].fault = "none" /\ rows[n].fault = "none"
    BY <1>2
  <2>3. m \notin 1 .. n - 1 /\ n \notin 1 .. m - 1
    BY <1>11, <2>2
  <2> QED BY <2>1, <2>3
<1> QED BY <1>2, <1>3, <1>4, <1>7, <1>10, <1>11, <1>12 DEF rows, good

\* What a file makes of a batch accounts for all its rows.
LEMMA ProcessedSettles ==
    ASSUME NEW b, IsBatch(b), NEW content \in Content, NEW active
    PROVE  LET p == [Processed(b, content.rows, active) EXCEPT !.checksum = content]
               records == RecordsOf(content.rows, active)
           IN  /\ IsBatch(p) /\ p.described = b.described /\ p.checksum = content
               /\ p.status \in TerminalStatus /\ Settled(p, records)
               /\ \A one \in records : one.row.company \in active
<1> DEFINE rows == content.rows
           good == Acceptable(rows, active)
           fits == good = {} \/ TotalFits(ControlTotal(rows, good))
           taken == IF fits THEN good ELSE {}
           bad == Cardinality(DOMAIN rows \ good)
           accepted == Cardinality(taken)
           rejected == IF fits THEN bad ELSE Len(rows)
           errors == bad + (IF fits THEN 0 ELSE 1) + EmptyError(rows)
           status == StatusFor(accepted, rejected)
           p == [Processed(b, content.rows, active) EXCEPT !.checksum = content]
           records == RecordsFor(rows, taken)
<1>1. /\ good \subseteq DOMAIN rows /\ DOMAIN rows = 1 .. Len(rows) /\ Len(rows) \in Nat
      /\ rows = <<>> <=> Len(rows) = 0
      /\ IsFiniteSet(good) /\ Cardinality(good) \in Nat /\ bad \in Nat
      /\ Cardinality(good) + bad = Len(rows)
      /\ \A n \in good : \A k \in 1 .. n - 1 : rows[k].key = rows[n].key => rows[k].fault = "unreadable"
      /\ \A m, n \in good : rows[m].key = rows[n].key => m = n
      /\ \A n \in good : rows[n].company \in active
    BY AcceptableRows
<1>2. Cardinality({}) = 0 /\ IsFiniteSet({}) /\ ControlTotal(rows, {}) = 0
    BY FS_EmptySet, NothingToSum
<1>3. RecordsOf(rows, active) = records
    BY DEF RecordsOf, RecordsFor, RecordOf
<1>4. /\ IsBatch(p) /\ p.status = status /\ p.described = b.described /\ p.checksum = content
      /\ p.count = Len(rows) /\ p.accepted = accepted /\ p.rejected = rejected
      /\ p.total = ControlTotal(rows, taken) /\ p.errors = errors
  <2>1. accepted = (IF fits THEN Cardinality(good) ELSE 0)
        /\ ControlTotal(rows, taken) = (IF fits THEN ControlTotal(rows, good) ELSE 0)
    BY <1>2
  <2>2. Processed(b, rows, active) =
            [b EXCEPT !.status = status, !.count = Len(rows), !.accepted = accepted, !.rejected = rejected,
                      !.total = ControlTotal(rows, taken), !.errors = errors]
    BY <2>1 DEF Processed
  <2> DEFINE done == [b EXCEPT !.status = status, !.count = Len(rows), !.accepted = accepted,
                               !.rejected = rejected, !.total = ControlTotal(rows, taken), !.errors = errors]
  <2>3. p = [done EXCEPT !.checksum = content]
    BY <2>2
  <2> HIDE DEF status, accepted, rejected, errors, rows, taken
  <2>4. /\ IsBatch(done) /\ done.status = status /\ done.described = b.described
        /\ done.count = Len(rows) /\ done.accepted = accepted /\ done.rejected = rejected
        /\ done.total = ControlTotal(rows, taken) /\ done.errors = errors
    BY DEF IsBatch, BatchField
  <2> HIDE DEF done, p
  <2> QED BY <2>3, <2>4 DEF IsBatch, BatchField
<1>5. /\ taken \subseteq good /\ IsFiniteSet(taken)
      /\ {one.number : one \in records} = taken /\ Cardinality(records) = accepted
    BY <1>1, <1>2, RecordsAreNumbered
<1>6. accepted \in Nat /\ rejected \in Nat /\ accepted + rejected = Len(rows)
    BY <1>1, <1>2
<1>7. TotalFits(ControlTotal(rows, taken))
  <2>1. TotalFits(0)
    BY ImportAssumption DEF TotalFits
  <2> QED BY <1>2, <2>1
<1>8. status \in TerminalStatus /\ (errors = 0 <=> status = "SUCCEEDED")
  <2>1. CASE fits
    BY <1>1, <1>2, <1>6, <2>1 DEF StatusFor, EmptyError, TerminalStatus
  <2>2. CASE ~fits
    BY <1>1, <1>2, <1>6, <2>2 DEF StatusFor, EmptyError, TerminalStatus
  <2> QED BY <2>1, <2>2
<1> HIDE DEF status, accepted, rejected, errors, taken, good, bad, fits, rows
<1>9. \A one \in records : \E n \in taken : one = [key |-> rows[n].key, number |-> n, row |-> rows[n]]
    BY DEF RecordsFor, RecordOf
<1> HIDE DEF records
<1>10. \A one \in records : /\ one.number \in DOMAIN rows /\ rows[one.number] = one.row
                            /\ one.key = rows[one.number].key /\ one.row.company \in active
                            /\ one.number \in good
                            /\ one = [key |-> rows[one.number].key, number |-> one.number, row |-> rows[one.number]]
    BY <1>1, <1>5, <1>9
<1> HIDE DEF p
<1>12. \A one, other \in records : one.key = other.key => one = other
    BY <1>1, <1>10
<1>13. \A one \in records : \A k \in 1 .. one.number - 1 : rows[k].key = one.key => rows[k].fault = "unreadable"
    BY <1>1, <1>10
<1>14. p.checksum.rows = rows
    BY <1>4 DEF rows
<1>15. Settled(p, records)
    BY <1>5, <1>6, <1>7, <1>8, <1>10, <1>4, <1>12, <1>13, <1>14 DEF Settled
<1> QED BY <1>3, <1>4, <1>8, <1>10, <1>15 DEF rows, p

-----------------------------------------------------------------------------
(* Steps of one request.                                                   *)

Answers == {"none", "batch", "IDEMPOTENCY_METADATA_CONFLICT", "TERMINAL_BATCH_FILE_CONFLICT",
            "FileSchemaError", "INGEST_PROCESSING_FAILED"}

\* The request goes on as `new', the others stay as they are.
Moves(i, new) ==
    /\ importers' \in [Importer -> ImportClient] /\ importers'[i] = new
    /\ \A j \in Importer \ {i} : importers'[j] = importers[j]

Differs(old, new, pc, answer) ==
    /\ new \in ImportClient /\ new.pc = pc /\ new.answer = answer
    /\ new.asked = old.asked /\ new.read = old.read /\ new.active = old.active

LEMMA ClientChanges ==
    ASSUME NEW old \in ImportClient
    PROVE  /\ \A answer \in Answers : Differs(old, [old EXCEPT !.pc = "idle", !.answer = answer], "idle", answer)
           /\ \A pc \in {"find", "insert", "begin", "process", "commit", "tell"} :
                  Differs(old, [old EXCEPT !.pc = pc], pc, old.answer)
<1>1. ASSUME NEW answer \in Answers
      PROVE  Differs(old, [old EXCEPT !.pc = "idle", !.answer = answer], "idle", answer)
  <2>1. [old EXCEPT !.pc = "idle", !.answer = answer] \in ImportClient
    BY DEF ImportClient, Answers
  <2> QED BY <2>1 DEF ImportClient, Differs
<1>2. ASSUME NEW pc \in {"find", "insert", "begin", "process", "commit", "tell"}
      PROVE  Differs(old, [old EXCEPT !.pc = pc], pc, old.answer)
  <2>1. [old EXCEPT !.pc = pc] \in ImportClient
    BY DEF ImportClient
  <2> QED BY <2>1 DEF ImportClient, Differs
<1> QED BY <1>1, <1>2

LEMMA AnswerMoves ==
    ASSUME ImportTyped, NEW i \in Importer, NEW answer \in Answers, Answer(i, answer)
    PROVE  \E new : Moves(i, new) /\ Differs(importers[i], new, "idle", answer)
<1> DEFINE new == [importers[i] EXCEPT !.pc = "idle", !.answer = answer]
<1>1. importers \in [Importer -> ImportClient] /\ importers' = [importers EXCEPT ![i] = new]
    BY DEF ImportTyped, Answer
<1>2. Differs(importers[i], new, "idle", answer)
    BY <1>1, ClientChanges
<1> HIDE DEF new
<1> QED BY <1>1, <1>2 DEF Moves, Differs

LEMMA ProceedMoves ==
    ASSUME ImportTyped, NEW i \in Importer,
           NEW pc \in {"find", "insert", "begin", "process", "commit", "tell"}, Proceed(i, pc)
    PROVE  \E new : Moves(i, new) /\ Differs(importers[i], new, pc, importers[i].answer)
<1> DEFINE new == [importers[i] EXCEPT !.pc = pc]
<1>1. importers \in [Importer -> ImportClient] /\ importers' = [importers EXCEPT ![i] = new]
    BY DEF ImportTyped, Proceed
<1>2. Differs(importers[i], new, pc, importers[i].answer)
    BY <1>1, ClientChanges
<1> HIDE DEF new
<1> QED BY <1>1, <1>2 DEF Moves, Differs

\* What one request does to the batch is nothing to the others: it is new, or it
\* was open and is written under the lock or for none.
MovesBatch(i) ==
    \/ UNCHANGED batch
    \/ batch.status = "none" /\ batch'.status = "RECEIVED"
    \/ /\ batch.status = "RECEIVED" /\ batch'.status \in TerminalStatus
       /\ batch'.described = batch.described /\ batchLock \in {i, "free"}

MovesLocks(i) ==
    /\ UNCHANGED batchLock \/ {batchLock, batchLock'} \subseteq {i, "free"}
    /\ UNCHANGED firmLock \/ {firmLock, firmLock'} \subseteq {i, "free"}

LEMMA OthersHold ==
    ASSUME ImportInv, NEW i \in Importer, NEW new, Moves(i, new), UNCHANGED <<channel, activeFirms>>,
           MovesBatch(i), MovesLocks(i), NEW j \in Importer \ {i}
    PROVE  RequestHolds(j)'
<1>1. RequestHolds(j) /\ j # "free"
    BY ImportAssumption DEF ImportInv
<1>2. importers'[j] = importers[j] /\ Described(j)' = Described(j)
    BY DEF Moves, Described
<1>3. (batchLock' = j <=> batchLock = j) /\ (firmLock' = j <=> firmLock = j)
    BY <1>1 DEF MovesLocks
<1>4. CASE UNCHANGED batch
    BY <1>1, <1>2, <1>3, <1>4 DEF RequestHolds
<1>5. CASE batch.status = "none" /\ batch'.status = "RECEIVED"
    BY <1>1, <1>2, <1>3, <1>5 DEF RequestHolds, TerminalStatus
<1>6. CASE /\ batch.status = "RECEIVED" /\ batch'.status \in TerminalStatus
           /\ batch'.described = batch.described /\ batchLock \in {i, "free"}
    BY <1>1, <1>2, <1>3, <1>6 DEF RequestHolds, TerminalStatus
<1> QED BY <1>4, <1>5, <1>6 DEF MovesBatch

BatchTyped == batch = NoBatch \/ (IsBatch(batch) /\ batch.status \in TerminalStatus \cup {"RECEIVED"})

LEMMA RequestKeeps ==
    ASSUME ImportInv, NEW i \in Importer, NEW new, Moves(i, new), UNCHANGED <<channel, activeFirms>>,
           imports' \in 0 .. MaxImports,
           MovesBatch(i), MovesLocks(i), RequestHolds(i)', BatchTyped', BatchStands'
    PROVE  ImportInv'
<1>1. \A j \in Importer \ {i} : RequestHolds(j)'
    BY OthersHold
<1>2. ImportTyped'
    BY DEF ImportInv, ImportTyped, BatchTyped, Moves, MovesLocks
<1> QED BY <1>1, <1>2 DEF ImportInv

LEMMA BatchRests ==
    ASSUME ImportInv, UNCHANGED <<batch, stored>>
    PROVE  BatchStands' /\ BatchTyped' /\ \A i : MovesBatch(i)
BY DEF ImportInv, ImportTyped, BatchStands, BatchTyped, MovesBatch, Settled

LEMMA StatusTells ==
    ASSUME ImportTyped
    PROVE  /\ batch.status \in TerminalStatus \cup {"none", "RECEIVED"}
           /\ batch.status = "none" <=> batch = NoBatch
           /\ batch # NoBatch => IsBatch(batch)
BY DEF ImportTyped, NoBatch, TerminalStatus

\* Only the answer, the step and the locks change.
LEMMA RequestRests ==
    ASSUME ImportInv, NEW i \in Importer, NEW new, Moves(i, new),
           UNCHANGED <<channel, activeFirms, imports, batch, stored>>, MovesLocks(i), RequestHolds(i)'
    PROVE  ImportInv'
<1>1. imports' \in 0 .. MaxImports
    BY DEF ImportInv, ImportTyped
<1> QED BY <1>1, BatchRests, RequestKeeps

LEMMA KeepsFetch ==
    ASSUME ImportInv, NEW i \in Importer, NEW asked \in Asked, NEW content \in Content,
           Fetch(i, asked, content)
    PROVE  ImportInv'
<1> DEFINE new == [Waiting EXCEPT !.pc = "find", !.asked = asked, !.read = content]
<1>1. new \in ImportClient /\ new.pc = "find" /\ new.answer = "none" /\ new.read = content
    BY DEF Waiting, ImportClient
<1>2. importers \in [Importer -> ImportClient] /\ importers' = [importers EXCEPT ![i] = new]
    BY DEF Fetch, ImportInv, ImportTyped
<1> HIDE DEF new
<1>3. Moves(i, new)
    BY <1>1, <1>2 DEF Moves
<1>4. imports' \in 0 .. MaxImports
    BY ImportAssumption DEF Fetch, ImportInv, ImportTyped
<1>5. importers[i].pc = "idle" /\ UNCHANGED <<channel, batch, stored, batchLock, firmLock, activeFirms>>
    BY DEF Fetch
<1>6. batchLock # i /\ firmLock # i
    BY <1>5 DEF ImportInv, RequestHolds
<1>7. RequestHolds(i)'
    BY <1>1, <1>3, <1>5, <1>6 DEF RequestHolds, Moves
<1> QED BY <1>3, <1>4, <1>5, <1>7, BatchRests, RequestKeeps DEF MovesLocks

LEMMA KeepsFindBatch ==
    ASSUME ImportInv, NEW i \in Importer, FindBatch(i)
    PROVE  ImportInv'
<1>1. /\ importers[i].pc = "find" /\ RequestHolds(i) /\ ImportTyped
      /\ UNCHANGED <<channel, batch, stored, batchLock, firmLock, activeFirms, imports>>
    BY DEF FindBatch, ImportInv
<1>2. CASE batch = NoBatch
  <2>1. Proceed(i, "insert")
    BY <1>2 DEF FindBatch
  <2>2. PICK new : Moves(i, new) /\ Differs(importers[i], new, "insert", importers[i].answer)
    BY <1>1, <2>1, ProceedMoves
  <2>3. RequestHolds(i)'
    BY <1>1, <2>2 DEF RequestHolds, Moves, Differs, Described
  <2> QED BY <1>1, <2>2, <2>3, RequestRests DEF MovesLocks
<1>3. CASE batch # NoBatch /\ Describes(i)
  <2>1. Proceed(i, "begin") /\ batch.status # "none" /\ batch.described = Described(i)
    BY <1>1, <1>3, StatusTells DEF FindBatch, Describes
  <2>2. PICK new : Moves(i, new) /\ Differs(importers[i], new, "begin", importers[i].answer)
    BY <1>1, <2>1, ProceedMoves
  <2>3. RequestHolds(i)'
    BY <1>1, <2>1, <2>2 DEF RequestHolds, Moves, Differs, Described
  <2> QED BY <1>1, <2>2, <2>3, RequestRests DEF MovesLocks
<1>4. CASE batch # NoBatch /\ ~Describes(i)
  <2>1. Answer(i, "IDEMPOTENCY_METADATA_CONFLICT")
    BY <1>4 DEF FindBatch
  <2>2. PICK new : Moves(i, new) /\ Differs(importers[i], new, "idle", "IDEMPOTENCY_METADATA_CONFLICT")
    BY <1>1, <2>1, AnswerMoves DEF Answers
  <2>3. RequestHolds(i)'
    BY <1>1, <2>2 DEF RequestHolds, Moves, Differs
  <2> QED BY <1>1, <2>2, <2>3, RequestRests DEF MovesLocks
<1> QED BY <1>2, <1>3, <1>4

LEMMA KeepsInsertBatch ==
    ASSUME ImportInv, NEW i \in Importer, InsertBatch(i)
    PROVE  ImportInv'
<1>1. /\ importers[i].pc = "insert" /\ RequestHolds(i) /\ ImportTyped /\ BatchStands
      /\ UNCHANGED <<channel, stored, batchLock, firmLock, activeFirms, imports>>
    BY DEF InsertBatch, ImportInv
<1>2. CASE batch = NoBatch
  <2>1. Proceed(i, "begin") /\ batch' = Received(Described(i)) /\ batch.status = "none"
    BY <1>1, <1>2, StatusTells DEF InsertBatch
  <2>2. PICK new : Moves(i, new) /\ Differs(importers[i], new, "begin", importers[i].answer)
    BY <1>1, <2>1, ProceedMoves
  <2>3. IsBatch(batch')
    BY <2>1 DEF Received, IsBatch, BatchField
  <2>4. /\ batch'.status = "RECEIVED" /\ batch'.described = Described(i)
        /\ batch'.count = 0 /\ batch'.accepted = 0 /\ batch'.rejected = 0
        /\ batch'.total = 0 /\ batch'.errors = 0
    BY <2>1 DEF Received
  <2>5. RequestHolds(i)'
    BY <1>1, <2>1, <2>2, <2>4 DEF RequestHolds, Moves, Differs, Described, TerminalStatus
  <2>6. BatchStands' /\ BatchTyped' /\ MovesBatch(i) /\ MovesLocks(i)
    BY <1>1, <2>1, <2>3, <2>4 DEF BatchStands, BatchTyped, MovesBatch, MovesLocks, TerminalStatus
  <2>7. imports' \in 0 .. MaxImports
    BY <1>1 DEF ImportTyped
  <2> QED BY <1>1, <2>2, <2>5, <2>6, <2>7, RequestKeeps
<1>3. CASE batch # NoBatch
  <2>1. Proceed(i, "find") /\ UNCHANGED batch
    BY <1>3 DEF InsertBatch
  <2>2. PICK new : Moves(i, new) /\ Differs(importers[i], new, "find", importers[i].answer)
    BY <1>1, <2>1, ProceedMoves
  <2>3. RequestHolds(i)'
    BY <1>1, <2>1, <2>2 DEF RequestHolds, Moves, Differs, Described
  <2> QED BY <1>1, <2>1, <2>2, <2>3, RequestRests DEF MovesLocks
<1> QED BY <1>2, <1>3

LEMMA KeepsBeginTransaction ==
    ASSUME ImportInv, NEW i \in Importer, BeginTransaction(i)
    PROVE  ImportInv'
<1>1. /\ importers[i].pc = "begin" /\ RequestHolds(i) /\ ImportTyped /\ batchLock = "free" /\ i # "free"
      /\ UNCHANGED <<channel, batch, stored, firmLock, activeFirms, imports>>
    BY ImportAssumption DEF BeginTransaction, ImportInv
<1>2. CASE batch.status \in TerminalStatus /\ SameFile(i)
  <2>1. Answer(i, "batch") /\ UNCHANGED batchLock /\ batch.checksum = importers[i].read
    BY <1>2 DEF BeginTransaction, SameFile
  <2>2. PICK new : Moves(i, new) /\ Differs(importers[i], new, "idle", "batch")
    BY <1>1, <2>1, AnswerMoves DEF Answers
  <2>3. RequestHolds(i)'
    BY <1>1, <1>2, <2>1, <2>2 DEF RequestHolds, Moves, Differs, Described
  <2> QED BY <1>1, <2>1, <2>2, <2>3, RequestRests DEF MovesLocks
<1>3. CASE batch.status \in TerminalStatus /\ ~SameFile(i)
  <2>1. Answer(i, "TERMINAL_BATCH_FILE_CONFLICT") /\ UNCHANGED batchLock
    BY <1>3 DEF BeginTransaction
  <2>2. PICK new : Moves(i, new) /\ Differs(importers[i], new, "idle", "TERMINAL_BATCH_FILE_CONFLICT")
    BY <1>1, <2>1, AnswerMoves DEF Answers
  <2>3. RequestHolds(i)'
    BY <1>1, <2>1, <2>2 DEF RequestHolds, Moves, Differs, Described
  <2> QED BY <1>1, <2>1, <2>2, <2>3, RequestRests DEF MovesLocks
<1>4. CASE batch.status \notin TerminalStatus
  <2>1. Proceed(i, "process") /\ batchLock' = i
    BY <1>4 DEF BeginTransaction
  <2>2. PICK new : Moves(i, new) /\ Differs(importers[i], new, "process", importers[i].answer)
    BY <1>1, <2>1, ProceedMoves
  <2>3. batch.status = "RECEIVED"
    BY <1>1, <1>4, StatusTells DEF RequestHolds
  <2>4. RequestHolds(i)'
    BY <1>1, <1>4, <2>1, <2>2, <2>3 DEF RequestHolds, Moves, Differs, Described
  <2> QED BY <1>1, <2>1, <2>2, <2>4, RequestRests DEF MovesLocks
<1> QED BY <1>2, <1>3, <1>4

\* A batch that ends by what was read.
Ends(b, done, content, records) ==
    /\ IsBatch(done) /\ done.described = b.described /\ done.checksum = content
    /\ done.status \in TerminalStatus /\ Settled(done, records)

LEMMA ProcessedEnds ==
    ASSUME NEW b, IsBatch(b), NEW content \in Content, NEW active
    PROVE  /\ Ends(b, [Processed(b, content.rows, active) EXCEPT !.checksum = content], content,
                   RecordsOf(content.rows, active))
           /\ \A one \in RecordsOf(content.rows, active) : one.row.company \in active
BY ProcessedSettles DEF Ends

\* A batch that ends as failed, with nothing of it.
LEMMA BatchFailed ==
    ASSUME NEW b, IsBatch(b), NEW content, NEW errors \in Nat \ {0}, b.count = 0, b.accepted = 0,
           b.rejected = 0, b.total = 0
    PROVE  Ends(b, [b EXCEPT !.status = "FAILED", !.checksum = content, !.errors = errors], content, {})
<1> DEFINE failed == [b EXCEPT !.status = "FAILED", !.checksum = content, !.errors = errors]
<1>1. /\ IsBatch(failed) /\ failed.status = "FAILED" /\ failed.described = b.described
      /\ failed.checksum = content /\ failed.errors = errors /\ failed.count = 0
      /\ failed.accepted = 0 /\ failed.rejected = 0 /\ failed.total = 0
    BY DEF IsBatch, BatchField
<1> HIDE DEF failed
<1>2. Settled(failed, {})
    BY <1>1, NothingSettled
<1> QED BY <1>1, <1>2 DEF failed, Ends, TerminalStatus

\* Who has the batch's row has found it open.
LEMMA HolderFindsOpen ==
    ASSUME ImportInv, NEW i \in Importer, importers[i].pc \in {"process", "commit"}
    PROVE  /\ RequestHolds(i) /\ ImportTyped /\ batchLock = i /\ i # "free"
           /\ batch.status = "RECEIVED" /\ IsBatch(batch) /\ stored = {}
           /\ batch.count = 0 /\ batch.accepted = 0 /\ batch.rejected = 0
           /\ batch.total = 0 /\ batch.errors = 0
           /\ importers[i].read \in Content /\ firmLock \in {i, "free"}
<1>1. /\ RequestHolds(i) /\ ImportTyped /\ batchLock = i /\ i # "free" /\ batch.status = "RECEIVED"
      /\ importers[i].read \in Content
    BY ImportAssumption DEF ImportInv, RequestHolds
<1>2. IsBatch(batch) /\ batch.status \notin TerminalStatus
    BY <1>1, StatusTells DEF TerminalStatus
<1>3. ASSUME firmLock # "free" PROVE firmLock = i
  <2>1. firmLock \in Importer
    BY <1>1, <1>3 DEF ImportTyped
  <2>2. RequestHolds(firmLock)
    BY <2>1 DEF ImportInv
  <2>3. importers[firmLock].pc = "commit"
    BY <2>1, <2>2 DEF RequestHolds
  <2> QED BY <1>1, <2>2, <2>3 DEF RequestHolds
<1> QED BY <1>1, <1>2, <1>3 DEF ImportInv, BatchStands

\* The holder writes the batch's end and lets go.
LEMMA HolderEnds ==
    ASSUME ImportInv, NEW i \in Importer, importers[i].pc \in {"process", "commit"},
           NEW new, Moves(i, new), new.pc = "idle", new.read = importers[i].read,
           new.asked = importers[i].asked,
           UNCHANGED <<channel, activeFirms, imports>>, batchLock' = "free",
           firmLock' \in {firmLock, "free"}, firmLock' # i,
           IsBatch(batch'), batch'.status \in TerminalStatus, batch'.described = batch.described,
           batch'.checksum = importers[i].read, Settled(batch', stored')
    PROVE  ImportInv'
<1>1. /\ RequestHolds(i) /\ ImportTyped /\ batchLock = i /\ i # "free" /\ batch.status = "RECEIVED"
      /\ firmLock \in {i, "free"}
    BY HolderFindsOpen
<1>2. MovesBatch(i) /\ MovesLocks(i)
    BY <1>1 DEF MovesBatch, MovesLocks
<1>3. RequestHolds(i)'
    BY <1>1 DEF RequestHolds, Moves, Described
<1>4. BatchTyped' /\ BatchStands'
  <2>1. batch'.status # "RECEIVED"
    BY DEF TerminalStatus
  <2> QED BY <2>1 DEF BatchTyped, BatchStands
<1>5. imports' \in 0 .. MaxImports
    BY <1>1 DEF ImportTyped
<1> QED BY <1>2, <1>3, <1>4, <1>5, RequestKeeps

LEMMA KeepsRejectHeader ==
    ASSUME ImportInv, NEW i \in Importer, RejectHeader(i)
    PROVE  ImportInv'
<1>1. /\ importers[i].pc = "process" /\ batchLock' = "free" /\ Answer(i, "FileSchemaError")
      /\ UNCHANGED <<channel, stored, firmLock, activeFirms, imports>>
      /\ batch' = [batch EXCEPT !.status = "FAILED", !.checksum = importers[i].read, !.errors = 1]
    BY DEF RejectHeader
<1>2. /\ ImportTyped /\ RequestHolds(i) /\ IsBatch(batch) /\ stored = {} /\ batch.count = 0
      /\ batch.accepted = 0 /\ batch.rejected = 0 /\ batch.total = 0
    BY <1>1, HolderFindsOpen
<1>3. PICK new : Moves(i, new) /\ Differs(importers[i], new, "idle", "FileSchemaError")
    BY <1>1, <1>2, AnswerMoves DEF Answers
<1>4. PICK content : content = importers[i].read
    OBVIOUS
<1>5. batch' = [batch EXCEPT !.status = "FAILED", !.checksum = content, !.errors = 1] /\ 1 \in Nat \ {0}
    BY <1>1, <1>4
<1>6. Ends(batch, batch', content, {})
    BY <1>2, <1>5, BatchFailed
<1>7. firmLock' # i
    BY <1>1, <1>2 DEF RequestHolds
<1> QED BY <1>1, <1>2, <1>3, <1>4, <1>6, <1>7, HolderEnds DEF Differs, Ends

LEMMA KeepsLockFirms ==
    ASSUME ImportInv, NEW i \in Importer, LockFirms(i)
    PROVE  ImportInv'
<1>1. /\ importers[i].pc = "process" /\ firmLock' = i
      /\ UNCHANGED <<channel, batch, stored, batchLock, activeFirms, imports>>
      /\ importers' = [importers EXCEPT ![i] = [@ EXCEPT !.pc = "commit", !.active = activeFirms]]
    BY DEF LockFirms, ShareLock
<1>2. /\ RequestHolds(i) /\ ImportTyped /\ batchLock = i /\ batch.status = "RECEIVED"
      /\ firmLock \in {i, "free"}
    BY <1>1, HolderFindsOpen
<1>3. importers \in [Importer -> ImportClient] /\ activeFirms \in SUBSET FirmCode
    BY <1>2 DEF ImportTyped
<1> DEFINE new == [importers[i] EXCEPT !.pc = "commit", !.active = activeFirms]
<1>4. /\ new \in ImportClient /\ new.pc = "commit" /\ new.active = activeFirms
      /\ new.asked = importers[i].asked /\ new.read = importers[i].read /\ new.answer = importers[i].answer
  <2>1. importers[i] \in ImportClient
    BY <1>3
  <2>2. new \in ImportClient
    BY <1>3, <2>1 DEF ImportClient
  <2> QED BY <2>1, <2>2 DEF ImportClient
<1>5. importers' = [importers EXCEPT ![i] = new]
    BY <1>1
<1> HIDE DEF new
<1>6. Moves(i, new)
    BY <1>3, <1>4, <1>5 DEF Moves
<1>7. RequestHolds(i)'
    BY <1>1, <1>2, <1>4, <1>6 DEF RequestHolds, Moves, Described
<1>8. MovesLocks(i)
    BY <1>1, <1>2 DEF MovesLocks
<1> QED BY <1>1, <1>6, <1>7, <1>8, RequestRests

LEMMA KeepsCommitImport ==
    ASSUME ImportInv, NEW i \in Importer, CommitImport(i)
    PROVE  ImportInv' /\ \A one \in stored' : one.row.company \in activeFirms
<1>1. /\ importers[i].pc = "commit" /\ Answer(i, "batch")
      /\ batchLock' = "free" /\ firmLock' = (IF firmLock = i THEN "free" ELSE firmLock)
      /\ UNCHANGED <<channel, activeFirms, imports>>
    BY DEF CommitImport, Unlock
<1>2. /\ ImportTyped /\ RequestHolds(i) /\ IsBatch(batch) /\ importers[i].read \in Content /\ i # "free"
    BY <1>1, HolderFindsOpen
<1>3. PICK new : Moves(i, new) /\ Differs(importers[i], new, "idle", "batch")
    BY <1>1, <1>2, AnswerMoves DEF Answers
<1>4. PICK content \in Content : content = importers[i].read
    BY <1>2
<1>5. importers[i].active = activeFirms
    BY <1>1, <1>2 DEF RequestHolds
<1>6. /\ batch' = [Processed(batch, content.rows, activeFirms) EXCEPT !.checksum = content]
      /\ stored' = RecordsOf(content.rows, activeFirms)
    BY <1>4, <1>5 DEF CommitImport
<1>7. Ends(batch, batch', content, stored') /\ \A one \in stored' : one.row.company \in activeFirms
    BY <1>2, <1>6, ProcessedEnds
<1>8. firmLock' # i /\ firmLock' \in {firmLock, "free"}
    BY <1>1, <1>2
<1>9. ImportInv'
    BY <1>1, <1>3, <1>4, <1>7, <1>8, HolderEnds DEF Differs, Ends
<1> QED BY <1>7, <1>9

LEMMA KeepsImportFails ==
    ASSUME ImportInv, NEW i \in Importer, ImportFails(i)
    PROVE  ImportInv'
<1>1. /\ importers[i].pc \in {"process", "commit"} /\ Proceed(i, "tell")
      /\ batchLock' = "free" /\ firmLock' = (IF firmLock = i THEN "free" ELSE firmLock)
      /\ UNCHANGED <<channel, batch, stored, activeFirms, imports>>
    BY DEF ImportFails, Unlock
<1>2. /\ ImportTyped /\ RequestHolds(i) /\ batchLock = i /\ i # "free" /\ batch.status = "RECEIVED"
    BY <1>1, HolderFindsOpen
<1>3. PICK new : Moves(i, new) /\ Differs(importers[i], new, "tell", importers[i].answer)
    BY <1>1, <1>2, ProceedMoves
<1>4. RequestHolds(i)'
    BY <1>1, <1>2, <1>3 DEF RequestHolds, Moves, Differs, Described
<1>5. MovesLocks(i)
    BY <1>1, <1>2 DEF MovesLocks
<1> QED BY <1>1, <1>3, <1>4, <1>5, RequestRests

\* The failure is told of a batch that is still open, and of no other.
LEMMA KeepsTellFailure ==
    ASSUME ImportInv, NEW i \in Importer, TellFailure(i)
    PROVE  ImportInv'
<1>1. /\ importers[i].pc = "tell" /\ batchLock = "free" /\ Answer(i, "INGEST_PROCESSING_FAILED")
      /\ UNCHANGED <<channel, stored, batchLock, firmLock, activeFirms, imports>>
    BY DEF TellFailure
<1>2. /\ ImportTyped /\ RequestHolds(i) /\ i # "free" /\ BatchStands
      /\ batch.status # "none" /\ batch.described = Described(i)
    BY <1>1, ImportAssumption DEF ImportInv, RequestHolds
<1>3. PICK new : Moves(i, new) /\ Differs(importers[i], new, "idle", "INGEST_PROCESSING_FAILED")
    BY <1>1, <1>2, AnswerMoves DEF Answers
<1>4. CASE batch.status \in TerminalStatus
  <2>1. UNCHANGED batch
    BY <1>4 DEF TellFailure, StillOpen
  <2>2. RequestHolds(i)'
    BY <1>1, <1>2, <1>3, <2>1 DEF RequestHolds, Moves, Differs, Described
  <2> QED BY <1>1, <1>3, <2>1, <2>2, RequestRests DEF MovesLocks
<1>5. CASE batch.status \notin TerminalStatus
  <2>1. batch.status = "RECEIVED" /\ IsBatch(batch) /\ stored = {}
    BY <1>2, <1>5, StatusTells DEF BatchStands
  <2>2. /\ batch.count = 0 /\ batch.accepted = 0 /\ batch.rejected = 0 /\ batch.total = 0 /\ batch.errors = 0
    BY <1>2, <2>1 DEF BatchStands
  <2>3. batch' = [batch EXCEPT !.status = "FAILED", !.checksum = importers[i].read, !.count = 0,
                               !.accepted = 0, !.rejected = 0, !.total = 0, !.errors = batch.errors + 1]
    BY <1>5 DEF TellFailure, StillOpen
  <2>4. PICK content : content = importers[i].read
    OBVIOUS
  <2>5. /\ IsBatch(batch') /\ batch'.status = "FAILED" /\ batch'.described = batch.described
        /\ batch'.checksum = content /\ batch'.errors = 1 /\ batch'.count = 0 /\ batch'.accepted = 0
        /\ batch'.rejected = 0 /\ batch'.total = 0
    <3>1. batch.errors + 1 = 1
      BY <2>2
    <3>2. batch' = [batch EXCEPT !.status = "FAILED", !.checksum = content, !.count = 0,
                                 !.accepted = 0, !.rejected = 0, !.total = 0, !.errors = 1]
      BY <2>3, <2>4, <3>1
    <3> QED BY <2>1, <3>2 DEF IsBatch, BatchField
  <2>6. Settled(batch', {})
    BY <2>5, NothingSettled
  <2>7. MovesBatch(i) /\ MovesLocks(i)
    BY <1>1, <2>1, <2>5 DEF MovesBatch, MovesLocks, TerminalStatus
  <2>8. BatchTyped' /\ BatchStands'
    BY <1>1, <2>1, <2>5, <2>6 DEF BatchTyped, BatchStands, TerminalStatus
  <2>9. RequestHolds(i)'
    BY <1>1, <1>2, <1>3, <2>5 DEF RequestHolds, Moves, Differs, Described
  <2>10. imports' \in 0 .. MaxImports
    BY <1>1, <1>2 DEF ImportTyped
  <2> QED BY <1>1, <1>3, <2>7, <2>8, <2>9, <2>10, RequestKeeps
<1> QED BY <1>4, <1>5

LEMMA KeepsTellingFails ==
    ASSUME ImportInv, NEW i \in Importer, TellingFails(i)
    PROVE  ImportInv'
<1>1. /\ importers[i].pc = "tell" /\ Answer(i, "INGEST_PROCESSING_FAILED")
      /\ UNCHANGED <<channel, batch, stored, batchLock, firmLock, activeFirms, imports>>
    BY DEF TellingFails
<1>2. ImportTyped /\ RequestHolds(i)
    BY DEF ImportInv
<1>3. PICK new : Moves(i, new) /\ Differs(importers[i], new, "idle", "INGEST_PROCESSING_FAILED")
    BY <1>1, <1>2, AnswerMoves DEF Answers
<1>4. RequestHolds(i)'
    BY <1>1, <1>2, <1>3 DEF RequestHolds, Moves, Differs, Described
<1> QED BY <1>1, <1>3, <1>4, RequestRests DEF MovesLocks

LEMMA KeepsStopImport ==
    ASSUME ImportInv, NEW i \in Importer, StopImport(i)
    PROVE  ImportInv'
<1>1. /\ Answer(i, "none") /\ UNCHANGED <<channel, batch, stored, activeFirms, imports>>
      /\ IF batchLock = i
         THEN batchLock' = "free" /\ firmLock' = (IF firmLock = i THEN "free" ELSE firmLock)
         ELSE UNCHANGED <<batchLock, firmLock>>
    BY DEF StopImport, Unlock
<1>2. ImportTyped /\ RequestHolds(i) /\ i # "free"
    BY ImportAssumption DEF ImportInv
<1>3. PICK new : Moves(i, new) /\ Differs(importers[i], new, "idle", "none")
    BY <1>1, <1>2, AnswerMoves DEF Answers
<1>4. batchLock' # i /\ firmLock' # i
    BY <1>1, <1>2 DEF RequestHolds
<1>5. RequestHolds(i)'
    BY <1>1, <1>2, <1>3, <1>4 DEF RequestHolds, Moves, Differs, Described
<1>6. MovesLocks(i)
    BY <1>1 DEF MovesLocks
<1> QED BY <1>1, <1>3, <1>5, <1>6, RequestRests

\* The master's event waits for the companies' locks.
LEMMA KeepsDeactivate ==
    ASSUME ImportInv, NEW firm, Deactivate(firm)
    PROVE  ImportInv'
<1>1. /\ firmLock = "free" /\ activeFirms' \subseteq activeFirms
      /\ UNCHANGED <<channel, batch, stored, importers, batchLock, firmLock, imports>>
    BY DEF Deactivate
<1>2. ASSUME NEW i \in Importer PROVE RequestHolds(i)'
  <2>1. RequestHolds(i) /\ i # "free"
    BY ImportAssumption DEF ImportInv
  <2> QED BY <1>1, <2>1 DEF RequestHolds, Described
<1>3. BatchStands'
    BY <1>1, BatchRests
<1> QED BY <1>1, <1>2, <1>3 DEF ImportInv, ImportTyped

LEMMA ImportInitially == ImportInit => ImportInv
<1> SUFFICES ASSUME ImportInit PROVE ImportInv
    OBVIOUS
<1>1. Waiting \in ImportClient
    BY DEF Waiting, ImportClient
<1>2. batch = NoBatch /\ batch.status = "none" /\ stored = {}
    BY DEF ImportInit, NoBatch
<1>3. ImportTyped
  <2>1. imports \in 0 .. MaxImports
    BY ImportAssumption DEF ImportInit
  <2> QED BY <1>1, <1>2, <2>1 DEF ImportInit, ImportTyped
<1>4. ASSUME NEW i \in Importer PROVE RequestHolds(i)
    BY <1>4, ImportAssumption DEF ImportInit, RequestHolds, Waiting
<1> QED BY <1>2, <1>3, <1>4 DEF ImportInv, BatchStands, TerminalStatus

LEMMA ImportKept == ImportInv /\ [ImportNext]_importVars => ImportInv'
<1> SUFFICES ASSUME ImportInv, [ImportNext]_importVars PROVE ImportInv'
    OBVIOUS
<1>1. CASE UNCHANGED importVars
    BY <1>1 DEF importVars, ImportInv, ImportTyped, RequestHolds, Described, BatchStands, Settled
<1>2. ASSUME NEW i \in Importer, ImportStep(i) PROVE ImportInv'
    BY <1>2, KeepsFindBatch, KeepsInsertBatch, KeepsBeginTransaction, KeepsRejectHeader, KeepsLockFirms,
       KeepsCommitImport, KeepsImportFails, KeepsTellFailure, KeepsTellingFails, KeepsStopImport DEF ImportStep
<1> QED BY <1>1, <1>2, KeepsFetch, KeepsDeactivate DEF ImportNext

\* Only a commit stores records, and nothing changes a batch that is done.
LEMMA ImportSteps ==
    ASSUME ImportInv, [ImportNext]_importVars
    PROVE  /\ \A one \in stored' \ stored : one.row.company \in activeFirms'
           /\ batch.status \in TerminalStatus => batch' = batch /\ stored' = stored
<1>1. CASE UNCHANGED <<batch, stored>>
    BY <1>1
<1>2. ASSUME NEW i \in Importer, CommitImport(i)
      PROVE  (\A one \in stored' : one.row.company \in activeFirms') /\ batch.status \notin TerminalStatus
  <2>1. importers[i].pc = "commit" /\ activeFirms' = activeFirms
    BY <1>2 DEF CommitImport
  <2> QED BY <1>2, <2>1, KeepsCommitImport, HolderFindsOpen DEF TerminalStatus
<1>3. ASSUME NEW i \in Importer, RejectHeader(i)
      PROVE  batch.status \notin TerminalStatus /\ UNCHANGED stored
  <2>1. importers[i].pc = "process"
    BY <1>3 DEF RejectHeader
  <2> QED BY <1>3, <2>1, HolderFindsOpen DEF RejectHeader, TerminalStatus
<1>4. ASSUME NEW i \in Importer, TellFailure(i) PROVE UNCHANGED stored /\ (batch.status \in TerminalStatus => UNCHANGED batch)
    BY <1>4 DEF TellFailure, StillOpen
<1>5. ASSUME NEW i \in Importer, InsertBatch(i) PROVE UNCHANGED stored /\ (batch.status \in TerminalStatus => UNCHANGED batch)
  <2>1. batch.status \in TerminalStatus => batch # NoBatch
    BY DEF NoBatch, TerminalStatus
  <2> QED BY <1>5, <2>1 DEF InsertBatch
<1>6. ASSUME NEW i \in Importer, ImportStep(i), ~CommitImport(i), ~RejectHeader(i), ~TellFailure(i), ~InsertBatch(i)
      PROVE  UNCHANGED <<batch, stored>>
    BY <1>6 DEF ImportStep, FindBatch, BeginTransaction, LockFirms, ImportFails, TellingFails, StopImport
<1> QED BY <1>1, <1>2, <1>3, <1>4, <1>5, <1>6 DEF ImportNext, importVars, Fetch, Deactivate

\* What an import promises: a batch adds up and explains itself, whoever is
\* answered is answered for his own rows, records are of companies that are
\* active, and a batch that is done stays (ingest_processors.py:221, ingest.py:371).
THEOREM ImportsAreSound == ImportSpec => ImportSound
<1>1. ImportInit => ImportInv
    BY ImportInitially
<1>2. ImportInv /\ [ImportNext]_importVars => ImportInv'
    BY ImportKept
<1>3. ImportInv => ImportTypeOK
  <2> SUFFICES ASSUME ImportInv PROVE ImportTypeOK
    OBVIOUS
  <2>1. batch.status \in TerminalStatus \cup {"none", "RECEIVED"}
    BY StatusTells DEF ImportInv
  <2>2. \A i \in Importer : importers[i].read \in Content \cup {NoContent}
    BY DEF ImportInv, ImportTyped, ImportClient
  <2> QED BY <2>1, <2>2 DEF ImportInv, ImportTyped, ImportTypeOK
<1>4. ImportInv => BatchAddsUp /\ FailureExplained /\ FirstRowOfKey
    BY DEF ImportInv, BatchStands, Settled, BatchAddsUp, FailureExplained, FirstRowOfKey, StoredNumbers
<1>5. ImportInv => AnsweredForOwnRows
    BY DEF ImportInv, RequestHolds, AnsweredForOwnRows
<1>6. ImportInv /\ [ImportNext]_importVars =>
          /\ \A one \in stored' \ stored : one.row.company \in activeFirms'
          /\ batch.status \in TerminalStatus => batch' = batch /\ stored' = stored
    BY ImportSteps
<1> QED BY <1>1, <1>2, <1>3, <1>4, <1>5, <1>6, PTL DEF ImportSpec, ImportSound, StoredForActive, TerminalBatchStays

-----------------------------------------------------------------------------
(* The rollback drill.  Whatever is kept, in a file or in memory, was done: *)
(* evidence is produced before it is kept and never forgotten, so files may *)
(* be written by any run at any time.  What a run that is alone has in      *)
(* memory is never behind the checkpoint.                                   *)

Kept == Seq([evidence : DrillEvidence, hash : DrillEvidence])

BackedBy(file, done) ==
    \A i \in DOMAIN file.stages :
        /\ [input |-> file.input, stage |-> DrillStages[i], evidence |-> file.stages[i].hash] \in done
        /\ DrillStages[i] \in CheckedStage => file.stages[i].hash # "negative"

FileSound(file, done) ==
    file \in DrillFile => Len(file.stages) <= Len(DrillStages) /\ BackedBy(file, done)

RunPhase == {"idle", "check", "write", "replace", "stage", "report"}

DrillRow ==
    [pc : RunPhase, next : {"none", "check", "stage", "report", "raise"},
     input : DrillInput \cup {<<>>}, alone : BOOLEAN, memory : DrillFile \cup {NoDrillFile}]

\* What a run has checked before it goes on.
Ready(stages, pc) ==
    /\ pc = "stage" => Intact(stages) /\ Len(stages) < Len(DrillStages)
    /\ pc = "report" => Intact(stages) /\ Len(stages) = Len(DrillStages)

RunSound(run, done) ==
    run.pc # "idle" =>
        /\ run.memory \in DrillFile /\ FileSound(run.memory, done) /\ run.memory.input = run.input
        /\ Ready(run.memory.stages, run.pc)
        /\ run.pc \in {"write", "replace"} => Ready(run.memory.stages, run.next) /\ run.next # "none"

RunAhead(run, file, beside) ==
    run.pc # "idle" /\ run.alone =>
        /\ file \in DrillFile => /\ file.input = run.memory.input
                                 /\ Len(file.stages) <= Len(run.memory.stages)
        /\ run.pc = "replace" => beside = run.memory

DrillTyped ==
    /\ bundle \in Bundle
    /\ drills \in [Drill -> DrillRow]
    /\ checkpoint \in DrillFile \cup {NoDrillFile, Torn}
    /\ temporary \in DrillFile \cup {NoDrillFile, Torn}
    /\ drillReport \in DrillFile \cup {NoDrillFile}

FilesSoundly == \A file \in {checkpoint, temporary, drillReport} : FileSound(file, produced)

ReportWhole ==
    drillReport # NoDrillFile =>
        Len(drillReport.stages) = Len(DrillStages) /\ Intact(drillReport.stages)

AloneIsAlone ==
    \A r, q \in Drill : r # q /\ drills[r].pc # "idle" /\ drills[r].alone => drills[q].pc = "idle"

DrillInv ==
    /\ DrillTyped /\ FilesSoundly /\ ReportWhole /\ StagesInOrder /\ AloneIsAlone
    /\ \A r \in Drill : RunSound(drills[r], produced) /\ RunAhead(drills[r], checkpoint, temporary)

-----------------------------------------------------------------------------

LEMMA FilesAreFiles ==
    /\ Torn \notin DrillFile /\ NoDrillFile \notin DrillFile
    /\ \A file \in DrillFile : /\ file.stages \in Kept /\ file.input \in DrillInput
                               /\ Len(file.stages) \in Nat /\ DOMAIN file.stages = 1 .. Len(file.stages)
                               /\ Legible(file)
<1>1. Torn \notin DrillFile /\ NoDrillFile \notin DrillFile
    BY DrillAssumption DEF Torn, DrillFile
<1>2. ASSUME NEW file \in DrillFile
      PROVE  file.stages \in Kept /\ file.input \in DrillInput
    BY DEF DrillFile, Kept
<1>3. \A stages \in Kept : Len(stages) \in Nat /\ DOMAIN stages = 1 .. Len(stages)
    BY LenProperties DEF Kept
<1> QED BY <1>1, <1>2, <1>3 DEF Legible

LEMMA StagesAre == Len(DrillStages) \in Nat \ {0} /\ DOMAIN DrillStages = 1 .. Len(DrillStages)
<1>1. DrillStages \in Seq(STRING) /\ DrillStages # <<>>
    BY DrillAssumption
<1> QED BY <1>1, LenProperties, EmptySeq

LEMMA MoreIsDone ==
    ASSUME NEW file, NEW done, NEW more, done \subseteq more, FileSound(file, done)
    PROVE  FileSound(file, more)
BY DEF FileSound, BackedBy

LEMMA RunsStaySound ==
    ASSUME NEW run, NEW done, NEW more, done \subseteq more, RunSound(run, done)
    PROVE  RunSound(run, more)
BY MoreIsDone DEF RunSound

\* A run moves, and the others with it: where it is, nobody is alone but itself.
LEMMA KeepsRun ==
    ASSUME DrillInv, NEW r \in Drill, NEW run \in DrillRow, drills[r].pc # "idle",
           drills' = [drills EXCEPT ![r] = run],
           run.pc # "idle" => run.alone = drills[r].alone,
           RunSound(run, produced'), RunAhead(run, checkpoint', temporary'),
           produced \subseteq produced', bundle' = bundle,
           checkpoint' \in DrillFile \cup {NoDrillFile, Torn}, FileSound(checkpoint', produced'),
           temporary' \in DrillFile \cup {NoDrillFile, Torn}, FileSound(temporary', produced'),
           drillReport' \in DrillFile \cup {NoDrillFile}, FileSound(drillReport', produced'),
           ReportWhole', StagesInOrder'
    PROVE  DrillInv'
<1>1. drills \in [Drill -> DrillRow] /\ bundle \in Bundle
    BY DEF DrillInv, DrillTyped
<1>2. drills'[r] = run /\ \A q \in Drill : q # r => drills'[q] = drills[q]
    BY <1>1
<1>3. DrillTyped'
  <2>1. drills' \in [Drill -> DrillRow]
      BY <1>1
  <2> QED BY <1>1, <2>1 DEF DrillTyped
<1>4. FilesSoundly'
    BY DEF FilesSoundly
<1>5. AloneIsAlone'
  <2> SUFFICES ASSUME NEW p \in Drill, NEW q \in Drill, p # q, drills'[p].pc # "idle", drills'[p].alone
               PROVE  drills'[q].pc = "idle"
      BY DEF AloneIsAlone
  <2>1. drills[p].pc # "idle" /\ drills[p].alone
    <3>1. CASE p = r
        BY <1>2, <3>1
    <3>2. CASE p # r
        BY <1>2, <3>2
    <3> QED BY <3>1, <3>2
  <2>2. drills[q].pc = "idle"
      BY <2>1 DEF DrillInv, AloneIsAlone
  <2>3. q # r
      BY <2>2
  <2> QED BY <1>2, <2>2, <2>3
<1>6. ASSUME NEW q \in Drill
      PROVE  RunSound(drills'[q], produced') /\ RunAhead(drills'[q], checkpoint', temporary')
  <2>1. CASE q = r
      BY <1>2, <2>1
  <2>2. CASE q # r
    <3>1. drills'[q] = drills[q]
        BY <1>2, <2>2
    <3>2. RunSound(drills[q], produced')
        BY RunsStaySound DEF DrillInv
    <3>3. ~(drills[q].pc # "idle" /\ drills[q].alone)
        BY <2>2 DEF DrillInv, AloneIsAlone
    <3> QED BY <3>1, <3>2, <3>3 DEF RunAhead
  <2> QED BY <2>1, <2>2
<1> QED BY <1>3, <1>4, <1>5, <1>6 DEF DrillInv

\* A run that is over.
LEMMA KeepsEnd ==
    ASSUME DrillInv, NEW r \in Drill, drills[r].pc # "idle", RunGoes(r, NoRun),
           bundle' = bundle, produced' = produced,
           checkpoint' \in DrillFile \cup {NoDrillFile, Torn}, FileSound(checkpoint', produced),
           temporary' \in DrillFile \cup {NoDrillFile, Torn}, FileSound(temporary', produced),
           drillReport' \in DrillFile \cup {NoDrillFile}, FileSound(drillReport', produced), ReportWhole'
    PROVE  DrillInv'
<1>1. NoRun \in DrillRow /\ NoRun.pc = "idle"
    BY DEF NoRun, DrillRow, RunPhase
<1>2. RunSound(NoRun, produced') /\ RunAhead(NoRun, checkpoint', temporary')
    BY <1>1 DEF RunSound, RunAhead
<1>3. StagesInOrder'
    BY DEF DrillInv, StagesInOrder
<1>4. drills' = [drills EXCEPT ![r] = NoRun]
    BY DEF RunGoes
<1> QED BY <1>1, <1>2, <1>3, <1>4, KeepsRun

LEMMA DrillInitially == DrillInit => DrillInv
<1> SUFFICES ASSUME DrillInit PROVE DrillInv
    OBVIOUS
<1>1. NoRun \in DrillRow /\ NoRun.pc = "idle"
    BY DEF NoRun, DrillRow, RunPhase
<1>2. \A r \in Drill : drills[r] = NoRun
    BY DEF DrillInit
<1>3. DrillTyped
    BY <1>1 DEF DrillInit, DrillTyped
<1>4. FilesSoundly
    BY FilesAreFiles DEF DrillInit, FilesSoundly, FileSound
<1>5. ReportWhole /\ StagesInOrder
    BY DEF DrillInit, ReportWhole, StagesInOrder
<1>6. AloneIsAlone
    BY <1>1, <1>2 DEF AloneIsAlone
<1>7. \A r \in Drill : RunSound(drills[r], produced) /\ RunAhead(drills[r], checkpoint, temporary)
    BY <1>1, <1>2 DEF RunSound, RunAhead
<1> QED BY <1>3, <1>4, <1>5, <1>6, <1>7 DEF DrillInv

\* Facts of the state before a step of a run.
LEMMA RunIs ==
    ASSUME DrillInv, NEW r \in Drill, drills[r].pc # "idle"
    PROVE  /\ drills[r] \in DrillRow /\ drills[r].memory \in DrillFile
           /\ FileSound(drills[r].memory, produced) /\ drills[r].memory.input = drills[r].input
           /\ Len(drills[r].memory.stages) <= Len(DrillStages)
           /\ Ready(drills[r].memory.stages, drills[r].pc)
           /\ drills[r].pc \in {"write", "replace"} =>
                  Ready(drills[r].memory.stages, drills[r].next) /\ drills[r].next # "none"
           /\ RunAhead(drills[r], checkpoint, temporary)
<1>1. drills[r] \in DrillRow /\ RunSound(drills[r], produced) /\ RunAhead(drills[r], checkpoint, temporary)
    BY DEF DrillInv, DrillTyped
<1> QED BY <1>1 DEF RunSound, FileSound

LEMMA FilesAre ==
    ASSUME DrillInv
    PROVE  /\ bundle \in Bundle
           /\ checkpoint \in DrillFile \cup {NoDrillFile, Torn} /\ FileSound(checkpoint, produced)
           /\ temporary \in DrillFile \cup {NoDrillFile, Torn} /\ FileSound(temporary, produced)
           /\ drillReport \in DrillFile \cup {NoDrillFile} /\ FileSound(drillReport, produced)
           /\ ReportWhole /\ StagesInOrder
BY DEF DrillInv, DrillTyped, FilesSoundly

LEMMA NoFileIsSound == \A done : FileSound(NoDrillFile, done) /\ FileSound(Torn, done)
BY FilesAreFiles DEF FileSound

LEMMA RowsMove ==
    ASSUME NEW row \in DrillRow, NEW pc \in RunPhase
    PROVE  /\ [row EXCEPT !.pc = pc] \in DrillRow
           /\ [row EXCEPT !.pc = pc].pc = pc
           /\ [row EXCEPT !.pc = pc].next = row.next /\ [row EXCEPT !.pc = pc].input = row.input
           /\ [row EXCEPT !.pc = pc].alone = row.alone /\ [row EXCEPT !.pc = pc].memory = row.memory
BY DEF DrillRow

LEMMA KeepsWriteTemporary == ASSUME DrillInv, NEW r \in Drill, WriteTemporary(r) PROVE DrillInv'
<1>1. drills[r].pc = "write" /\ temporary' = drills[r].memory
      /\ UNCHANGED <<bundle, checkpoint, drillReport, produced>>
    BY DEF WriteTemporary
<1>2. PICK run : run = [drills[r] EXCEPT !.pc = "replace"]
    OBVIOUS
<1>3. drills' = [drills EXCEPT ![r] = run]
    BY <1>2 DEF WriteTemporary, RunGoes
<1>4. /\ run \in DrillRow /\ run.pc = "replace" /\ run.next = drills[r].next
      /\ run.input = drills[r].input /\ run.alone = drills[r].alone /\ run.memory = drills[r].memory
    BY <1>1, <1>2, RunIs, RowsMove DEF RunPhase
<1>5. RunSound(run, produced')
    BY <1>1, <1>4, RunIs DEF RunSound, Ready
<1>6. RunAhead(run, checkpoint', temporary')
    BY <1>1, <1>4, RunIs DEF RunAhead
<1>7. ReportWhole' /\ StagesInOrder'
    BY <1>1, FilesAre DEF ReportWhole, StagesInOrder
<1> QED BY <1>1, <1>3, <1>4, <1>5, <1>6, <1>7, RunIs, FilesAre, KeepsRun

\* A run that raises writes what it has.
LEMMA RaisingIs ==
    ASSUME DrillInv, NEW r \in Drill, NEW row \in DrillRow, row.memory \in DrillFile, row.pc # "idle",
           NEW done, FileSound(row.memory, done), row.memory.input = row.input
    PROVE  /\ Raising(row) \in DrillRow /\ RunSound(Raising(row), done)
           /\ Raising(row).pc = "write" /\ Raising(row).alone = row.alone /\ Raising(row).memory = row.memory
<1>1. /\ Raising(row) \in DrillRow /\ Raising(row).pc = "write" /\ Raising(row).next = "raise"
      /\ Raising(row).alone = row.alone /\ Raising(row).memory = row.memory /\ Raising(row).input = row.input
    BY DEF Raising, DrillRow, RunPhase
<1> QED BY <1>1 DEF RunSound, Ready

LEMMA KeepsReplaceCheckpoint == ASSUME DrillInv, NEW r \in Drill, ReplaceCheckpoint(r) PROVE DrillInv'
<1>1. drills[r].pc = "replace" /\ UNCHANGED <<bundle, drillReport, produced>>
    BY DEF ReplaceCheckpoint
<1>2. ReportWhole' /\ StagesInOrder'
    BY <1>1, FilesAre DEF ReportWhole, StagesInOrder
<1>3. CASE UNCHANGED <<checkpoint, temporary>> /\ RunGoes(r, Raising(drills[r]))
  <2>1. PICK run : run = Raising(drills[r])
      OBVIOUS
  <2>2. run \in DrillRow /\ RunSound(run, produced) /\ run.pc = "write" /\ run.alone = drills[r].alone
        /\ run.memory = drills[r].memory
      BY <1>1, <2>1, RunIs, RaisingIs
  <2>3. drills' = [drills EXCEPT ![r] = run]
      BY <1>3, <2>1 DEF RunGoes
  <2>4. RunAhead(run, checkpoint', temporary')
      BY <1>1, <1>3, <2>2, RunIs DEF RunAhead
  <2> QED BY <1>1, <1>2, <1>3, <2>2, <2>3, <2>4, FilesAre, KeepsRun
<1>4. CASE UNCHANGED <<checkpoint, temporary>> /\ RunGoes(r, NoRun)
    BY <1>1, <1>2, <1>4, FilesAre, KeepsEnd
<1>5. CASE /\ temporary # NoDrillFile /\ checkpoint' = temporary /\ temporary' = NoDrillFile
           /\ RunGoes(r, NoRun)
    BY <1>1, <1>2, <1>5, FilesAre, NoFileIsSound, KeepsEnd
<1>6. CASE /\ temporary # NoDrillFile /\ checkpoint' = temporary /\ temporary' = NoDrillFile
           /\ drills[r].next # "raise" /\ RunGoes(r, [drills[r] EXCEPT !.pc = drills[r].next])
  <2>1. PICK run : run = [drills[r] EXCEPT !.pc = drills[r].next]
      OBVIOUS
  <2>2. drills[r].next \in {"check", "stage", "report"}
      BY <1>1, <1>6, RunIs DEF DrillRow
  <2>3. /\ run \in DrillRow /\ run.pc = drills[r].next
        /\ run.input = drills[r].input /\ run.alone = drills[r].alone /\ run.memory = drills[r].memory
    <3>1. drills[r] \in DrillRow
        BY <1>1, RunIs
    <3>2. drills[r].next \in RunPhase
        BY <2>2 DEF RunPhase
    <3> QED BY ONLY <2>1, <3>1, <3>2, RowsMove
  <2>4. RunSound(run, produced')
      BY <1>1, <2>2, <2>3, RunIs DEF RunSound
  <2>5. RunAhead(run, checkpoint', temporary')
    <3>1. run.alone => checkpoint' = run.memory
        BY <1>1, <1>6, <2>3, RunIs DEF RunAhead
    <3>2. Len(run.memory.stages) \in Nat
        BY <1>1, <2>3, RunIs, FilesAreFiles
    <3> QED BY <2>2, <2>3, <3>1, <3>2 DEF RunAhead
  <2>6. drills' = [drills EXCEPT ![r] = run]
      BY <1>6, <2>1 DEF RunGoes
  <2> QED BY <1>1, <1>2, <1>6, <2>3, <2>4, <2>5, <2>6, FilesAre, NoFileIsSound, KeepsRun
<1>7. \/ UNCHANGED <<checkpoint, temporary>> /\ RunGoes(r, Raising(drills[r]))
      \/ UNCHANGED <<checkpoint, temporary>> /\ RunGoes(r, NoRun)
      \/ /\ temporary # NoDrillFile /\ checkpoint' = temporary /\ temporary' = NoDrillFile
         /\ \/ RunGoes(r, NoRun)
            \/ drills[r].next # "raise" /\ RunGoes(r, [drills[r] EXCEPT !.pc = drills[r].next])
    BY DEF ReplaceCheckpoint
<1> QED BY <1>3, <1>4, <1>5, <1>6, <1>7

LEMMA KeepsCheckRecorded == ASSUME DrillInv, NEW r \in Drill, CheckRecorded(r) PROVE DrillInv'
<1>1. drills[r].pc = "check" /\ UNCHANGED <<bundle, checkpoint, temporary, drillReport, produced>>
    BY DEF CheckRecorded
<1>2. ReportWhole' /\ StagesInOrder'
    BY <1>1, FilesAre DEF ReportWhole, StagesInOrder
<1>3. CASE RunGoes(r, NoRun)
    BY <1>1, <1>2, <1>3, FilesAre, KeepsEnd
<1>4. CASE /\ Intact(drills[r].memory.stages)
           /\ RunGoes(r, [drills[r] EXCEPT !.pc = NextStage(drills[r].memory.stages)])
  <2>1. PICK next : next = NextStage(drills[r].memory.stages)
      OBVIOUS
  <2>2. next \in {"stage", "report"} /\ Ready(drills[r].memory.stages, next)
    <3>1. Len(drills[r].memory.stages) \in Nat /\ Len(drills[r].memory.stages) <= Len(DrillStages)
        BY <1>1, RunIs, FilesAreFiles
    <3> QED BY <1>4, <2>1, <3>1, StagesAre DEF NextStage, Ready
  <2>3. PICK run : run = [drills[r] EXCEPT !.pc = next]
      OBVIOUS
  <2>4. /\ run \in DrillRow /\ run.pc = next
        /\ run.input = drills[r].input /\ run.alone = drills[r].alone /\ run.memory = drills[r].memory
    <3>1. drills[r] \in DrillRow
        BY <1>1, RunIs
    <3>2. next \in RunPhase
        BY <2>2 DEF RunPhase
    <3> QED BY ONLY <2>3, <3>1, <3>2, RowsMove
  <2>5. RunSound(run, produced')
      BY <1>1, <2>2, <2>4, RunIs DEF RunSound
  <2>6. RunAhead(run, checkpoint', temporary')
      BY <1>1, <2>2, <2>4, RunIs DEF RunAhead
  <2>7. drills' = [drills EXCEPT ![r] = run]
      BY <1>4, <2>1, <2>3 DEF RunGoes
  <2> QED BY <1>1, <1>2, <2>4, <2>5, <2>6, <2>7, FilesAre, KeepsRun
<1> QED BY <1>3, <1>4 DEF CheckRecorded

\* A stage that is kept.
KeptFile(file, evidence) ==
    [file EXCEPT !.stages = Append(@, [evidence |-> evidence, hash |-> evidence])]

LEMMA KeptFileIs ==
    ASSUME NEW file \in DrillFile, NEW done, FileSound(file, done), Intact(file.stages),
           Len(file.stages) < Len(DrillStages), NEW evidence \in DrillEvidence,
           Accepted(StageOf(file.stages), evidence),
           NEW more, done \subseteq more,
           [input |-> file.input, stage |-> StageOf(file.stages), evidence |-> evidence] \in more
    PROVE  /\ KeptFile(file, evidence) \in DrillFile /\ KeptFile(file, evidence).input = file.input
           /\ FileSound(KeptFile(file, evidence), more) /\ Intact(KeptFile(file, evidence).stages)
           /\ Len(KeptFile(file, evidence).stages) = Len(file.stages) + 1
<1>1. /\ file.stages \in Kept /\ file.input \in DrillInput /\ Len(file.stages) \in Nat
      /\ DOMAIN file.stages = 1 .. Len(file.stages)
    BY FilesAreFiles
<1>2. PICK entry : entry = [evidence |-> evidence, hash |-> evidence]
    OBVIOUS
<1>3. entry \in [evidence : DrillEvidence, hash : DrillEvidence]
    BY <1>2
<1>4. PICK stages : stages = Append(file.stages, entry)
    OBVIOUS
<1>5. stages \in Kept /\ Len(stages) = Len(file.stages) + 1
    BY <1>1, <1>3, <1>4, AppendProperties DEF Kept
<1>6. DOMAIN stages = 1 .. Len(file.stages) + 1
    BY <1>5, LenProperties DEF Kept
<1>7. \A i \in 1 .. Len(file.stages) : stages[i] = file.stages[i]
    BY <1>1, <1>4 DEF Kept
<1>8. stages[Len(file.stages) + 1] = entry
    BY <1>1, <1>4 DEF Kept
<1>9. PICK new : new = KeptFile(file, evidence)
    OBVIOUS
<1>10. new = [input |-> file.input, stages |-> stages]
    BY <1>2, <1>4, <1>9 DEF KeptFile, DrillFile
<1>11. new \in DrillFile
    BY <1>1, <1>5, <1>10 DEF DrillFile, Kept
<1>12. \A i \in DOMAIN stages : i \in DOMAIN file.stages \/ i = Len(file.stages) + 1
    BY <1>1, <1>6
<1>13. Intact(stages)
  <2>1. ASSUME NEW i \in DOMAIN stages PROVE stages[i].evidence = stages[i].hash
    <3>1. CASE i \in DOMAIN file.stages
        BY <1>1, <1>7, <3>1 DEF Intact
    <3>2. CASE i = Len(file.stages) + 1
        BY <1>2, <1>8, <3>2
    <3> QED BY <1>12, <3>1, <3>2
  <2> QED BY <2>1 DEF Intact
<1>14. BackedBy(new, more)
  <2>1. ASSUME NEW i \in DOMAIN stages
        PROVE  /\ [input |-> file.input, stage |-> DrillStages[i], evidence |-> stages[i].hash] \in more
               /\ DrillStages[i] \in CheckedStage => stages[i].hash # "negative"
    <3>1. CASE i \in DOMAIN file.stages
        BY <1>1, <1>7, <3>1 DEF FileSound, BackedBy
    <3>2. CASE i = Len(file.stages) + 1
        BY <1>2, <1>8, <3>2 DEF Accepted, StageOf
    <3> QED BY <1>12, <3>1, <3>2
  <2> QED BY <1>10, <2>1 DEF BackedBy
<1>15. Len(stages) <= Len(DrillStages)
    BY <1>1, <1>5, StagesAre
<1> QED BY <1>5, <1>9, <1>10, <1>11, <1>13, <1>14, <1>15 DEF FileSound

LEMMA StagesStayInOrder ==
    ASSUME DrillInv, NEW r \in Drill, drills[r].pc = "stage", NEW evidence,
           produced' = produced \cup {[input |-> drills[r].input,
                                       stage |-> StageOf(drills[r].memory.stages), evidence |-> evidence]}
    PROVE  StagesInOrder'
<1> DEFINE n == Len(drills[r].memory.stages)
<1>1. /\ n \in Nat /\ n < Len(DrillStages) /\ DOMAIN drills[r].memory.stages = 1 .. n
      /\ drills[r].memory.input = drills[r].input
      /\ BackedBy(drills[r].memory, produced)
    BY RunIs, FilesAreFiles DEF Ready, FileSound
<1>2. SUFFICES ASSUME NEW p \in produced', NEW i \in DOMAIN DrillStages, DrillStages[i] = p.stage, NEW j \in 1 .. i - 1
               PROVE  \E q \in produced' : q.input = p.input /\ q.stage = DrillStages[j]
    BY DEF StagesInOrder
<1>3. CASE p \in produced
    BY <1>2, <1>3 DEF DrillInv, StagesInOrder
<1>4. CASE p.input = drills[r].input /\ p.stage = StageOf(drills[r].memory.stages)
  <2>1. DrillStages[i] = DrillStages[n + 1] /\ n + 1 \in DOMAIN DrillStages
    <3>1. DrillStages[i] = DrillStages[n + 1]
        BY <1>2, <1>4 DEF StageOf
    <3>2. Len(DrillStages) \in Nat /\ DOMAIN DrillStages = 1 .. Len(DrillStages)
        BY StagesAre
    <3>3. n \in Nat /\ n < Len(DrillStages)
        BY <1>1
    <3> HIDE DEF n
    <3>4. n + 1 \in DOMAIN DrillStages
        BY ONLY <3>2, <3>3
    <3> QED BY ONLY <3>1, <3>4
  <2>2. i = n + 1
      BY <2>1, DrillAssumption DEF IsInjective
  <2>3. j \in DOMAIN drills[r].memory.stages
      BY <1>1, <2>2
  <2>4. [input |-> drills[r].memory.input, stage |-> DrillStages[j],
         evidence |-> drills[r].memory.stages[j].hash] \in produced'
      BY <1>1, <2>3 DEF BackedBy
  <2> QED BY <1>1, <1>4, <2>4
<1> QED BY <1>2, <1>3, <1>4

LEMMA KeepsExecuteStage == ASSUME DrillInv, NEW r \in Drill, ExecuteStage(r) PROVE DrillInv'
<1>1. drills[r].pc = "stage" /\ UNCHANGED <<bundle, checkpoint, temporary, drillReport>>
    BY DEF ExecuteStage
<1>2. /\ drills[r] \in DrillRow /\ drills[r].memory \in DrillFile /\ FileSound(drills[r].memory, produced)
      /\ drills[r].memory.input = drills[r].input /\ Intact(drills[r].memory.stages)
      /\ Len(drills[r].memory.stages) < Len(DrillStages) /\ RunAhead(drills[r], checkpoint, temporary)
      /\ Len(drills[r].memory.stages) \in Nat
    BY <1>1, RunIs, FilesAreFiles DEF Ready
<1>3. PICK stage : stage = StageOf(drills[r].memory.stages)
    OBVIOUS
<1>4. ASSUME produced \subseteq produced', StagesInOrder',
             NEW run \in DrillRow, drills' = [drills EXCEPT ![r] = run], run.pc = "write",
             run.alone = drills[r].alone, RunSound(run, produced'),
             run.memory.input = drills[r].memory.input,
             Len(run.memory.stages) >= Len(drills[r].memory.stages), Len(run.memory.stages) \in Nat
      PROVE  DrillInv'
  <2>1. /\ checkpoint' \in DrillFile \cup {NoDrillFile, Torn} /\ FileSound(checkpoint', produced')
        /\ temporary' \in DrillFile \cup {NoDrillFile, Torn} /\ FileSound(temporary', produced')
        /\ drillReport' \in DrillFile \cup {NoDrillFile} /\ FileSound(drillReport', produced')
      BY <1>1, <1>4, FilesAre, MoreIsDone
  <2>2. ReportWhole'
      BY <1>1, FilesAre DEF ReportWhole
  <2>3. RunAhead(run, checkpoint', temporary')
    <3>1. checkpoint \in DrillFile => Len(checkpoint.stages) \in Nat
        BY FilesAreFiles
    <3>2. run.alone /\ checkpoint \in DrillFile =>
              /\ checkpoint.input = drills[r].memory.input
              /\ Len(checkpoint.stages) <= Len(drills[r].memory.stages)
        BY <1>1, <1>2, <1>4 DEF RunAhead
    <3>3. run.alone /\ checkpoint \in DrillFile =>
              checkpoint.input = run.memory.input /\ Len(checkpoint.stages) <= Len(run.memory.stages)
      <4>1. /\ run.memory.input = drills[r].memory.input
            /\ Len(run.memory.stages) >= Len(drills[r].memory.stages)
            /\ Len(run.memory.stages) \in Nat /\ Len(drills[r].memory.stages) \in Nat
          BY <1>2, <1>4
      <4> SUFFICES ASSUME run.alone, checkpoint \in DrillFile
                   PROVE  checkpoint.input = run.memory.input /\ Len(checkpoint.stages) <= Len(run.memory.stages)
          OBVIOUS
      <4>2. PICK x, y, z : x = Len(checkpoint.stages) /\ y = Len(drills[r].memory.stages) /\ z = Len(run.memory.stages)
          OBVIOUS
      <4>3. x \in Nat /\ y \in Nat /\ z \in Nat /\ x <= y /\ z >= y
          BY <3>1, <3>2, <4>1, <4>2
      <4>4. x <= z
          BY ONLY <4>3
      <4>5. checkpoint.input = run.memory.input
          BY <3>2, <4>1
      <4> QED BY <4>2, <4>4, <4>5
    <3> QED BY <1>1, <1>4, <3>3 DEF RunAhead
  <2> QED BY <1>1, <1>4, <2>1, <2>2, <2>3, KeepsRun
<1>5. ASSUME produced \subseteq produced', StagesInOrder', RunGoes(r, Raising(drills[r])) PROVE DrillInv'
  <2>1. PICK run : run = Raising(drills[r])
      OBVIOUS
  <2>2. FileSound(drills[r].memory, produced')
      BY <1>2, <1>5, MoreIsDone
  <2>3. run \in DrillRow /\ RunSound(run, produced') /\ run.pc = "write" /\ run.alone = drills[r].alone
        /\ run.memory = drills[r].memory
      BY <1>1, <1>2, <2>1, <2>2, RaisingIs
  <2>4. drills' = [drills EXCEPT ![r] = run]
      BY <1>5, <2>1 DEF RunGoes
  <2>5. /\ run.memory.input = drills[r].memory.input
        /\ Len(run.memory.stages) >= Len(drills[r].memory.stages) /\ Len(run.memory.stages) \in Nat
      BY ONLY <1>2, <2>3
  <2> QED BY ONLY <1>4, <1>5, <2>3, <2>4, <2>5
<1>6. CASE produced' = produced /\ RunGoes(r, Raising(drills[r]))
  <2>1. StagesInOrder'
      BY <1>6, FilesAre DEF StagesInOrder
  <2> QED BY <1>5, <1>6, <2>1
<1>7. ASSUME NEW evidence \in Evidence(stage),
             produced' = produced \cup {[input |-> drills[r].input, stage |-> stage, evidence |-> evidence]}
      PROVE  /\ evidence \in DrillEvidence /\ produced \subseteq produced' /\ StagesInOrder'
             /\ [input |-> drills[r].input, stage |-> stage, evidence |-> evidence] \in produced'
  <2>1. evidence \in DrillEvidence
      BY <1>7, FilesAre DEF Evidence, DrillEvidence
  <2>2. StagesInOrder'
      BY <1>1, <1>3, <1>7, StagesStayInOrder
  <2> QED BY <1>7, <2>1, <2>2
<1>8. ASSUME NEW evidence \in Evidence(stage),
             produced' = produced \cup {[input |-> drills[r].input, stage |-> stage, evidence |-> evidence]},
             Accepted(stage, evidence),
             NEW kept, kept = [drills[r] EXCEPT !.memory.stages =
                                  Append(@, [evidence |-> evidence, hash |-> evidence])],
             \/ RunGoes(r, [kept EXCEPT !.pc = "write", !.next = NextStage(kept.memory.stages)])
             \/ RunGoes(r, Raising(kept))
      PROVE  DrillInv'
  <2>1. PICK file : file = KeptFile(drills[r].memory, evidence)
      OBVIOUS
  <2>2. /\ evidence \in DrillEvidence /\ produced \subseteq produced' /\ StagesInOrder'
        /\ [input |-> drills[r].input, stage |-> stage, evidence |-> evidence] \in produced'
      BY <1>7, <1>8
  <2>3. /\ file \in DrillFile /\ file.input = drills[r].memory.input /\ FileSound(file, produced')
        /\ Intact(file.stages) /\ Len(file.stages) = Len(drills[r].memory.stages) + 1
    <3>1. Accepted(StageOf(drills[r].memory.stages), evidence)
        BY <1>3, <1>8
    <3>2. [input |-> drills[r].memory.input, stage |-> StageOf(drills[r].memory.stages),
           evidence |-> evidence] \in produced'
        BY <1>2, <1>3, <2>2
    <3> QED BY ONLY <1>2, <2>1, <2>2, <3>1, <3>2, KeptFileIs
  <2>4. /\ kept \in DrillRow /\ kept.memory = file /\ kept.pc = "stage" /\ kept.alone = drills[r].alone
        /\ kept.input = drills[r].input
      BY <1>1, <1>2, <1>8, <2>1, <2>3 DEF DrillRow, KeptFile
  <2>5. /\ Len(file.stages) \in Nat /\ Len(file.stages) >= Len(drills[r].memory.stages)
        /\ Len(file.stages) <= Len(DrillStages) /\ Len(DrillStages) \in Nat
    <3>1. PICK n : n = Len(drills[r].memory.stages)
        OBVIOUS
    <3>2. PICK m : m = Len(DrillStages)
        OBVIOUS
    <3>3. n \in Nat /\ m \in Nat /\ n < m /\ Len(file.stages) = n + 1
        BY <1>2, <2>3, <3>1, <3>2, StagesAre
    <3>4. n + 1 \in Nat /\ n + 1 >= n /\ n + 1 <= m
        BY ONLY <3>3
    <3> QED BY ONLY <3>1, <3>2, <3>3, <3>4
  <2>6. CASE RunGoes(r, Raising(kept))
    <3>1. PICK run : run = Raising(kept)
        OBVIOUS
    <3>2. run \in DrillRow /\ RunSound(run, produced') /\ run.pc = "write" /\ run.alone = drills[r].alone
          /\ run.memory = file
        BY <1>2, <2>3, <2>4, <3>1, RaisingIs
    <3>3. drills' = [drills EXCEPT ![r] = run]
        BY <2>6, <3>1 DEF RunGoes
    <3> QED BY ONLY <1>4, <2>2, <2>3, <2>5, <3>2, <3>3
  <2>7. CASE RunGoes(r, [kept EXCEPT !.pc = "write", !.next = NextStage(kept.memory.stages)])
    <3>1. PICK next : next = NextStage(file.stages)
        OBVIOUS
    <3>2. next \in {"stage", "report"} /\ Ready(file.stages, next)
        BY ONLY <2>3, <2>5, <3>1 DEF NextStage, Ready
    <3>3. PICK run : run = [kept EXCEPT !.pc = "write", !.next = next]
        OBVIOUS
    <3>4. /\ run \in DrillRow /\ run.pc = "write" /\ run.next = next /\ run.alone = drills[r].alone
          /\ run.memory = file /\ run.input = drills[r].input
        BY <2>4, <3>2, <3>3 DEF DrillRow, RunPhase
    <3>5. RunSound(run, produced')
        BY <1>2, <2>3, <3>2, <3>4 DEF RunSound, Ready
    <3>6. drills' = [drills EXCEPT ![r] = run]
        BY <2>4, <2>7, <3>1, <3>3 DEF RunGoes
    <3> QED BY ONLY <1>4, <2>2, <2>3, <2>5, <3>4, <3>5, <3>6
  <2> QED BY <1>8, <2>6, <2>7
<1>9. ASSUME NEW evidence \in Evidence(stage),
             produced' = produced \cup {[input |-> drills[r].input, stage |-> stage, evidence |-> evidence]},
             RunGoes(r, Raising(drills[r]))
      PROVE  DrillInv'
    BY <1>5, <1>7, <1>9
<1>10. \/ produced' = produced /\ RunGoes(r, Raising(drills[r]))
       \/ \E evidence \in Evidence(stage) :
              /\ produced' = produced \cup {[input |-> drills[r].input, stage |-> stage, evidence |-> evidence]}
              /\ \/ RunGoes(r, Raising(drills[r]))
                 \/ \E kept :
                        /\ kept = [drills[r] EXCEPT !.memory.stages =
                                      Append(@, [evidence |-> evidence, hash |-> evidence])]
                        /\ Accepted(stage, evidence)
                        /\ \/ RunGoes(r, [kept EXCEPT !.pc = "write", !.next = NextStage(kept.memory.stages)])
                           \/ RunGoes(r, Raising(kept))
    BY <1>3 DEF ExecuteStage
<1> QED BY <1>6, <1>8, <1>9, <1>10

LEMMA KeepsWriteReport == ASSUME DrillInv, NEW r \in Drill, WriteReport(r) PROVE DrillInv'
<1>1. drills[r].pc = "report" /\ drillReport' = drills[r].memory /\ RunGoes(r, NoRun)
      /\ UNCHANGED <<bundle, checkpoint, temporary, produced>>
    BY DEF WriteReport
<1>2. ReportWhole'
    BY <1>1, RunIs DEF ReportWhole, Ready
<1> QED BY <1>1, <1>2, RunIs, FilesAre, KeepsEnd

LEMMA KeepsStopDrill == ASSUME DrillInv, NEW r \in Drill, StopDrill(r) PROVE DrillInv'
<1>1. /\ drills[r].pc # "idle" /\ RunGoes(r, NoRun) /\ UNCHANGED <<bundle, checkpoint, drillReport, produced>>
      /\ temporary' = temporary \/ temporary' = Torn
    BY DEF StopDrill, LeavesTorn
<1>2. ReportWhole'
    BY <1>1, FilesAre DEF ReportWhole
<1>3. temporary' \in DrillFile \cup {NoDrillFile, Torn} /\ FileSound(temporary', produced)
    BY <1>1, FilesAre, NoFileIsSound
<1> QED BY <1>1, <1>2, <1>3, FilesAre, KeepsEnd

LEMMA KeepsReplaceBundle == ASSUME DrillInv, NEW b \in Bundle, ReplaceBundle(b) PROVE DrillInv'
BY DEF DrillInv, ReplaceBundle, DrillTyped, FilesSoundly, ReportWhole, StagesInOrder, AloneIsAlone

\* Who changes the file by hand changes the evidence, not its hash.
LEMMA AlteredFile ==
    ASSUME NEW file \in DrillFile, NEW i \in DOMAIN file.stages
    PROVE  LET altered == [file EXCEPT !.stages[i].evidence = "altered"]
           IN  /\ altered \in DrillFile /\ altered.input = file.input
               /\ Len(altered.stages) = Len(file.stages)
               /\ DOMAIN altered.stages = DOMAIN file.stages
               /\ \A j \in DOMAIN file.stages : altered.stages[j].hash = file.stages[j].hash
<1>1. /\ file.stages \in Kept /\ file.input \in DrillInput /\ Len(file.stages) \in Nat
      /\ DOMAIN file.stages = 1 .. Len(file.stages)
    BY FilesAreFiles
<1> DEFINE n == Len(file.stages)
           Entry == [evidence : DrillEvidence, hash : DrillEvidence]
<1>2. PICK stages : stages = [file.stages EXCEPT ![i].evidence = "altered"]
    OBVIOUS
<1>3. file.stages \in [1 .. n -> Entry]
    BY <1>1, LenProperties DEF Kept
<1>4. [file.stages[i] EXCEPT !.evidence = "altered"] \in Entry
      /\ [file.stages[i] EXCEPT !.evidence = "altered"].hash = file.stages[i].hash
    BY <1>1, <1>3 DEF DrillEvidence
<1>5. stages = [file.stages EXCEPT ![i] = [file.stages[i] EXCEPT !.evidence = "altered"]]
    BY <1>2
<1>6. stages \in [1 .. n -> Entry] /\ \A j \in 1 .. n : stages[j].hash = file.stages[j].hash
    BY <1>1, <1>3, <1>4, <1>5
<1>7. stages \in Kept /\ Len(stages) = n /\ DOMAIN stages = 1 .. n
  <2>1. stages \in Kept
      BY <1>1, <1>6 DEF Kept
  <2> QED BY <1>1, <1>6, <2>1, LenProperties DEF Kept
<1>8. PICK altered : altered = [file EXCEPT !.stages[i].evidence = "altered"]
    OBVIOUS
<1>9. altered = [input |-> file.input, stages |-> stages]
    BY <1>2, <1>8 DEF DrillFile
<1>10. altered \in DrillFile
    BY <1>1, <1>7, <1>9 DEF DrillFile, Kept
<1> QED BY <1>1, <1>6, <1>7, <1>8, <1>9, <1>10

LEMMA KeepsAlterCheckpoint ==
    ASSUME DrillInv, Legible(checkpoint), NEW i \in DOMAIN checkpoint.stages, AlterCheckpoint(i)
    PROVE  DrillInv'
<1>1. checkpoint \in DrillFile /\ UNCHANGED <<bundle, temporary, drillReport, drills, produced>>
    BY FilesAre DEF Legible, AlterCheckpoint
<1>2. checkpoint' = [checkpoint EXCEPT !.stages[i].evidence = "altered"]
    BY DEF AlterCheckpoint
<1>3. /\ checkpoint' \in DrillFile /\ checkpoint'.input = checkpoint.input
      /\ Len(checkpoint'.stages) = Len(checkpoint.stages)
      /\ DOMAIN checkpoint'.stages = DOMAIN checkpoint.stages
      /\ \A j \in DOMAIN checkpoint.stages : checkpoint'.stages[j].hash = checkpoint.stages[j].hash
    BY <1>1, <1>2, AlteredFile
<1>4. FileSound(checkpoint', produced)
    BY <1>1, <1>3, FilesAre DEF FileSound, BackedBy
<1>5. DrillTyped' /\ FilesSoundly'
    BY <1>1, <1>3, <1>4 DEF DrillInv, DrillTyped, FilesSoundly
<1>6. ReportWhole' /\ StagesInOrder' /\ AloneIsAlone'
    BY <1>1 DEF DrillInv, ReportWhole, StagesInOrder, AloneIsAlone
<1>7. ASSUME NEW r \in Drill
      PROVE  RunSound(drills'[r], produced') /\ RunAhead(drills'[r], checkpoint', temporary')
  <2>1. drills' = drills /\ temporary' = temporary /\ produced' = produced
        /\ RunSound(drills[r], produced) /\ RunAhead(drills[r], checkpoint, temporary)
      BY <1>1 DEF DrillInv
  <2> QED BY <1>1, <1>3, <2>1 DEF RunAhead
<1> QED BY <1>5, <1>6, <1>7 DEF DrillInv

Narrowed(row, b) == [row EXCEPT !.alone = b /\ @]

LEMMA NarrowedIs ==
    ASSUME NEW row \in DrillRow, NEW b
    PROVE  /\ Narrowed(row, b) \in DrillRow /\ Narrowed(row, b).pc = row.pc
           /\ Narrowed(row, b).next = row.next /\ Narrowed(row, b).input = row.input
           /\ Narrowed(row, b).memory = row.memory /\ (Narrowed(row, b).alone => b)
<1>1. PICK alone \in BOOLEAN : alone = (b /\ row.alone)
    OBVIOUS
<1>2. Narrowed(row, b) = [row EXCEPT !.alone = alone]
    BY <1>1 DEF Narrowed
<1>3. /\ [row EXCEPT !.alone = alone] \in DrillRow /\ [row EXCEPT !.alone = alone].pc = row.pc
      /\ [row EXCEPT !.alone = alone].next = row.next /\ [row EXCEPT !.alone = alone].input = row.input
      /\ [row EXCEPT !.alone = alone].memory = row.memory /\ [row EXCEPT !.alone = alone].alone = alone
    BY DEF DrillRow
<1>4. alone => b
    BY <1>1
<1> HIDE DEF Narrowed
<1> QED BY <1>2, <1>3, <1>4

LEMMA KeepsStartDrill ==
    ASSUME DrillInv, NEW r \in Drill, NEW change \in ChangeId, StartDrill(r, change)
    PROVE  DrillInv'
<1>1. drills[r].pc = "idle" /\ UNCHANGED <<bundle, checkpoint, temporary, drillReport, produced>>
    BY DEF StartDrill
<1>2. PICK pc \in {"write", "check"}, memory \in DrillFile :
          /\ FileSound(memory, produced) /\ memory.input = <<bundle, change>>
          /\ checkpoint \in DrillFile => checkpoint = memory
          /\ drills' = [q \in Drill |->
                 IF q = r THEN [pc |-> pc, next |-> "check", input |-> <<bundle, change>>,
                                alone |-> Others(r) = {}, memory |-> memory]
                 ELSE [drills[q] EXCEPT !.alone = q \notin Others(r) /\ @]]
  <2>1. CASE /\ checkpoint = NoDrillFile
             /\ drills' = [q \in Drill |->
                 IF q = r THEN [pc |-> "write", next |-> "check", input |-> <<bundle, change>>,
                                alone |-> Others(r) = {}, memory |-> NewCheckpoint(<<bundle, change>>)]
                 ELSE [drills[q] EXCEPT !.alone = q \notin Others(r) /\ @]]
    <3>1. PICK memory : memory = NewCheckpoint(<<bundle, change>>)
        OBVIOUS
    <3>2. memory \in DrillFile /\ memory.input = <<bundle, change>> /\ memory.stages = <<>>
        BY <3>1, FilesAre, EmptySeq DEF NewCheckpoint, DrillFile, DrillInput
    <3>3. FileSound(memory, produced)
        BY <3>2, StagesAre DEF FileSound, BackedBy
    <3>4. checkpoint \notin DrillFile
        BY <2>1, FilesAreFiles
    <3> QED BY <2>1, <3>1, <3>2, <3>3, <3>4
  <2>2. CASE /\ Legible(checkpoint) /\ SameInputs(checkpoint, <<bundle, change>>)
             /\ \E pc \in {"write", "check"}, memory \in {checkpoint, [checkpoint EXCEPT !.stages = Recorded(checkpoint)]} :
                 drills' = [q \in Drill |->
                     IF q = r THEN [pc |-> pc, next |-> "check", input |-> <<bundle, change>>,
                                    alone |-> Others(r) = {}, memory |-> memory]
                     ELSE [drills[q] EXCEPT !.alone = q \notin Others(r) /\ @]]
    <3>1. checkpoint \in DrillFile /\ FileSound(checkpoint, produced) /\ checkpoint.input = <<bundle, change>>
        BY <2>2, FilesAre DEF Legible, SameInputs
    <3>2. [checkpoint EXCEPT !.stages = Recorded(checkpoint)] = checkpoint
        BY <3>1 DEF Recorded, DrillFile
    <3> QED BY <2>2, <3>1, <3>2
  <2> QED BY <2>1, <2>2 DEF StartDrill
<1>3. PICK started : started = [pc |-> pc, next |-> "check", input |-> <<bundle, change>>,
                                alone |-> Others(r) = {}, memory |-> memory]
    OBVIOUS
<1>4. /\ started \in DrillRow /\ started.pc = pc /\ started.next = "check" /\ started.input = <<bundle, change>>
      /\ started.memory = memory /\ (started.alone => Others(r) = {})
  <2>1. PICK alone \in BOOLEAN : alone = (Others(r) = {})
      OBVIOUS
  <2>2. started = [pc |-> pc, next |-> "check", input |-> <<bundle, change>>, alone |-> alone, memory |-> memory]
      BY <1>3, <2>1
  <2>3. <<bundle, change>> \in DrillInput
      BY FilesAre DEF DrillInput
  <2>4. started \in DrillRow
      BY <2>2, <2>3 DEF DrillRow, RunPhase
  <2> QED BY <2>1, <2>2, <2>4
<1>5. RunSound(started, produced) /\ RunAhead(started, checkpoint, temporary)
    BY <1>2, <1>4, FilesAreFiles DEF RunSound, Ready, RunAhead
<1>6. drills \in [Drill -> DrillRow]
    BY DEF DrillInv, DrillTyped
<1>7. drills'[r] = started /\ \A q \in Drill : q # r => drills'[q] = Narrowed(drills[q], q \notin Others(r))
    BY <1>2, <1>3 DEF Narrowed
<1>8. ASSUME NEW q \in Drill, q # r
      PROVE  /\ drills'[q] \in DrillRow /\ drills'[q].pc = drills[q].pc /\ RunSound(drills'[q], produced)
             /\ ~(drills'[q].pc # "idle" /\ drills'[q].alone)
  <2> drills[q] \in DrillRow
      BY <1>6
  <2>0. PICK b \in BOOLEAN : b = (q \notin Others(r))
      OBVIOUS
  <2>1. PICK row : row = Narrowed(drills[q], b) /\ row = drills'[q]
      BY <1>7, <1>8, <2>0
  <2>2. /\ row \in DrillRow /\ row.pc = drills[q].pc /\ row.next = drills[q].next /\ row.input = drills[q].input
        /\ row.memory = drills[q].memory /\ (row.alone => q \notin Others(r))
    <3>1. /\ Narrowed(drills[q], b) \in DrillRow /\ Narrowed(drills[q], b).pc = drills[q].pc
          /\ Narrowed(drills[q], b).next = drills[q].next /\ Narrowed(drills[q], b).input = drills[q].input
          /\ Narrowed(drills[q], b).memory = drills[q].memory /\ (Narrowed(drills[q], b).alone => b)
        BY NarrowedIs
    <3> QED BY <2>0, <2>1, <3>1
  <2>3. drills[q].pc # "idle" => q \in Others(r)
      BY <1>8 DEF Others
  <2>4. RunSound(drills[q], produced)
      BY DEF DrillInv
  <2>5. RunSound(row, produced)
      BY <2>2, <2>4 DEF RunSound
  <2> QED BY <2>1, <2>2, <2>3, <2>5
<1>9. DrillTyped'
  <2>1. DOMAIN drills' = Drill /\ drills' = [q \in Drill |-> drills'[q]]
      BY <1>2
  <2>2. drills' \in [Drill -> DrillRow]
      BY <1>4, <1>7, <1>8, <2>1
  <2> QED BY <1>1, <2>2 DEF DrillInv, DrillTyped
<1>10. FilesSoundly' /\ ReportWhole' /\ StagesInOrder'
    BY <1>1 DEF DrillInv, FilesSoundly, ReportWhole, StagesInOrder
<1>11. AloneIsAlone'
  <2> SUFFICES ASSUME NEW p \in Drill, NEW q \in Drill, p # q, drills'[p].pc # "idle", drills'[p].alone
               PROVE  drills'[q].pc = "idle"
      BY DEF AloneIsAlone
  <2>1. p = r
      BY <1>8
  <2>2. q \notin Others(r)
      BY <1>4, <1>7, <2>1
  <2> QED BY <1>8, <2>1, <2>2 DEF Others
<1>12. ASSUME NEW q \in Drill
       PROVE  RunSound(drills'[q], produced') /\ RunAhead(drills'[q], checkpoint', temporary')
  <2>1. CASE q = r
      BY <1>1, <1>5, <1>7, <2>1
  <2>2. CASE q # r
    <3>1. RunSound(drills'[q], produced) /\ ~(drills'[q].pc # "idle" /\ drills'[q].alone)
        BY <1>8, <2>2
    <3>2. produced' = produced
        BY <1>1
    <3> QED BY <3>1, <3>2 DEF RunAhead
  <2> QED BY <2>1, <2>2
<1> QED BY <1>9, <1>10, <1>11, <1>12 DEF DrillInv

LEMMA DrillStep == DrillInv /\ [DrillNext]_drillVars => DrillInv'
<1> SUFFICES ASSUME DrillInv, [DrillNext]_drillVars PROVE DrillInv'
    OBVIOUS
<1>1. CASE UNCHANGED drillVars
    BY <1>1 DEF drillVars, DrillInv, DrillTyped, FilesSoundly, ReportWhole, StagesInOrder, AloneIsAlone
<1>2. ASSUME NEW r \in Drill, NEW change \in ChangeId, StartDrill(r, change) PROVE DrillInv'
    BY <1>2, KeepsStartDrill
<1>3. ASSUME NEW r \in Drill, WriteTemporary(r) \/ ReplaceCheckpoint(r) \/ CheckRecorded(r) PROVE DrillInv'
    BY <1>3, KeepsWriteTemporary, KeepsReplaceCheckpoint, KeepsCheckRecorded
<1>4. ASSUME NEW r \in Drill, ExecuteStage(r) \/ WriteReport(r) \/ StopDrill(r) PROVE DrillInv'
    BY <1>4, KeepsExecuteStage, KeepsWriteReport, KeepsStopDrill
<1>5. ASSUME Legible(checkpoint), NEW i \in DOMAIN checkpoint.stages, AlterCheckpoint(i) PROVE DrillInv'
    BY <1>5, KeepsAlterCheckpoint
<1>6. ASSUME NEW b \in Bundle, ReplaceBundle(b) PROVE DrillInv'
    BY <1>6, KeepsReplaceBundle
<1> QED BY <1>1, <1>2, <1>3, <1>4, <1>5, <1>6 DEF DrillNext

LEMMA DrillShown == DrillInv => CheckpointBacked /\ ReportBacked /\ StagesInOrder
<1> SUFFICES ASSUME DrillInv PROVE CheckpointBacked /\ ReportBacked /\ StagesInOrder
    OBVIOUS
<1>1. \A file \in DrillFile : FileSound(file, produced) => Backed(file)
    BY DEF FileSound, BackedBy, Backed
<1>2. CheckpointBacked
    BY <1>1, FilesAre DEF CheckpointBacked, Legible
<1>3. ReportBacked
    BY <1>1, FilesAre DEF ReportBacked, ReportWhole, Intact
<1> QED BY <1>2, <1>3, FilesAre

LEMMA NotRepeated ==
    ASSUME DrillInv, NEW r \in Drill, drills[r].pc = "stage", drills[r].alone, Legible(checkpoint)
    PROVE  Len(checkpoint.stages) <= Len(drills[r].memory.stages)
<1>1. checkpoint \in DrillFile
    BY FilesAre DEF Legible
<1> QED BY <1>1, RunIs DEF RunAhead

LEMMA Stays ==
    ASSUME DrillInv, DrillNext, checkpoint' # checkpoint, Legible(checkpoint),
           \A r \in Drill : drills[r].pc # "idle" => drills[r].alone
    PROVE  /\ Legible(checkpoint') /\ checkpoint'.input = checkpoint.input
           /\ Len(checkpoint'.stages) >= Len(checkpoint.stages)
<1>1. checkpoint \in DrillFile /\ Len(checkpoint.stages) \in Nat
    BY FilesAre, FilesAreFiles DEF Legible
<1>2. CASE \E r \in Drill : ReplaceCheckpoint(r)
  <2>1. PICK r \in Drill : ReplaceCheckpoint(r)
      BY <1>2
  <2>2. drills[r].pc = "replace" /\ checkpoint' = temporary
      BY <2>1 DEF ReplaceCheckpoint
  <2>3. /\ temporary = drills[r].memory /\ drills[r].memory \in DrillFile
        /\ checkpoint.input = drills[r].memory.input
        /\ Len(checkpoint.stages) <= Len(drills[r].memory.stages)
      BY <1>1, <2>2, RunIs DEF RunAhead
  <2>4. Legible(temporary) /\ Len(temporary.stages) \in Nat
      BY <2>3, FilesAreFiles
  <2> QED BY <1>1, <2>2, <2>3, <2>4
<1>3. CASE \E i \in DOMAIN checkpoint.stages : AlterCheckpoint(i)
  <2>1. PICK i \in DOMAIN checkpoint.stages : AlterCheckpoint(i)
      BY <1>3
  <2>2. checkpoint' = [checkpoint EXCEPT !.stages[i].evidence = "altered"]
      BY <2>1 DEF AlterCheckpoint
  <2>3. checkpoint' \in DrillFile /\ checkpoint'.input = checkpoint.input
        /\ Len(checkpoint'.stages) = Len(checkpoint.stages)
      BY <1>1, <2>2, AlteredFile
  <2> QED BY <1>1, <2>3, FilesAreFiles
<1>4. \/ \E r \in Drill : ReplaceCheckpoint(r)
      \/ \E i \in DOMAIN checkpoint.stages : AlterCheckpoint(i)
  <2>1. \A r \in Drill, change \in ChangeId : ~StartDrill(r, change)
      BY DEF StartDrill
  <2>2. \A r \in Drill : ~(WriteTemporary(r) \/ CheckRecorded(r) \/ ExecuteStage(r) \/ WriteReport(r))
      BY DEF WriteTemporary, CheckRecorded, ExecuteStage, WriteReport
  <2>3. \A r \in Drill : ~StopDrill(r)
      BY DEF StopDrill, LeavesTorn
  <2>4. \A b \in Bundle : ~ReplaceBundle(b)
      BY DEF ReplaceBundle
  <2> QED BY <2>1, <2>2, <2>3, <2>4 DEF DrillNext
<1> QED BY <1>2, <1>3, <1>4

\* Whatever stops a run, whoever overlaps it and whatever is done to the checkpoint
\* between runs: a checkpoint and a report hold what was done, stages are done in
\* order and, by runs that were alone, once.
THEOREM DrillIsSound == DrillSpec => DrillSound
<1>1. DrillSpec => []DrillInv
    BY DrillInitially, DrillStep, PTL DEF DrillSpec
<1>2. DrillInv => CheckpointBacked /\ ReportBacked /\ StagesInOrder
    BY DrillShown
<1>3. DrillInv /\ [DrillNext]_drillVars =>
          [\A r \in Drill :
              (drills[r].pc = "stage" /\ drills'[r].pc = "write" /\ drills[r].alone
               /\ Legible(checkpoint)) =>
                  Len(checkpoint.stages) <= Len(drills[r].memory.stages)]_drillVars
    BY NotRepeated
<1>4. DrillInv /\ [DrillNext]_drillVars =>
          [(checkpoint' # checkpoint /\ Legible(checkpoint)
            /\ \A r \in Drill : drills[r].pc # "idle" => drills[r].alone) =>
                /\ Legible(checkpoint')
                /\ checkpoint'.input = checkpoint.input
                /\ Len(checkpoint'.stages) >= Len(checkpoint.stages)]_drillVars
    BY Stays
<1>5. DrillSpec => RecordedNotRepeated /\ RecordedStays
    BY <1>1, <1>3, <1>4, PTL DEF DrillSpec, RecordedNotRepeated, RecordedStays
<1> QED BY <1>1, <1>2, <1>5, PTL DEF DrillSound

=============================================================================
