--------------------------- MODULE GovernedVersions ---------------------------
(***************************************************************************)
(* The governed versions a monthly run needs: the scope of companies, the  *)
(* dictionary of suggested accounts and the artifacts of the model.  One   *)
(* person uploads a version, another approves it and anybody publishes it; *)
(* what is published covers a period and is never changed or retired.      *)
(***************************************************************************)
EXTENDS Integers, FiniteSets

CONSTANTS
    Scope,       \* scope workbooks, each with its sender: by, from, to, companies
    Dictionary,  \* dictionary workbooks: by, from, to, name
    Artifact,    \* requests for an artifact: by, from, to, name, type
    ArtifactType,
    Governed,    \* companies that scopes name
    Person,
    Folded,      \* a person's name without its case
    Publisher,   \* publications that can be under way at once
    NoUpload

ASSUME VersionAssumption ==
    /\ \A u \in Scope \cup Dictionary \cup Artifact : u.from \in Int /\ u.to \in Int
    /\ IsFiniteSet(Artifact) /\ \A u \in Artifact : u.type \in ArtifactType
    /\ "free" \notin Publisher /\ "none" \notin Person

VARIABLES
    family,          \* which of the three is governed in this behaviour
    version,         \* the version each upload led to
    publishers,      \* publications
    publicationLock, \* publisher that has the scopes' advisory lock, or "free"
    activeGoverned   \* companies that are active

versionVars == <<family, version, publishers, publicationLock, activeGoverned>>

Upload == Scope \cup Dictionary \cup Artifact
Family == IF family = "scope" THEN Scope ELSE IF family = "dictionary" THEN Dictionary ELSE Artifact

Unsent == [status |-> "none", reviewer |-> "none"]
Resting == [pc |-> "idle", upload |-> NoUpload]

VersionInit ==
    /\ family \in {"scope", "dictionary", "artifact"}
    /\ version = [u \in Upload |-> Unsent]
    /\ publishers = [p \in Publisher |-> Resting]
    /\ publicationLock = "free"
    /\ activeGoverned = Governed

Versions(status) == {u \in Family : version[u].status = status}
Exists(u) == version[u].status \notin {"none", "refused"}

Become(u, status) == version' = [version EXCEPT ![u].status = status]

-----------------------------------------------------------------------------
(* Uploads.  The same workbook of the same sender is answered with what it *)
(* led to before, which is no step.                                        *)

\* A company that is not active refuses the workbook for good: the batch with
\* its errors is kept under the workbook's key.
ImportScope(u) ==
    /\ family = "scope" /\ version[u].status = "none"
    /\ Become(u, IF u.companies \subseteq activeGoverned THEN "DRAFT" ELSE "refused")
    /\ UNCHANGED <<family, publishers, publicationLock, activeGoverned>>

\* Mutant: only published versions keep their name.
MutNameTaken(u) == \E v \in Versions("PUBLISHED") : v.name = u.name

NameTaken(u) == \E v \in Family : Exists(v) /\ v.name = u.name

\* The name of a dictionary and the name and type of an artifact are unique:
\* another upload of it leaves nothing.
ImportDictionary(u) ==
    /\ family = "dictionary" /\ version[u].status = "none" /\ ~NameTaken(u)
    /\ Become(u, "DRAFT")
    /\ UNCHANGED <<family, publishers, publicationLock, activeGoverned>>

TypedNameTaken(u) == \E v \in Artifact : Exists(v) /\ v.type = u.type /\ v.name = u.name

CreateArtifact(u) ==
    /\ family = "artifact" /\ version[u].status = "none" /\ ~TypedNameTaken(u)
    /\ Become(u, "DRAFT")
    /\ UNCHANGED <<family, publishers, publicationLock, activeGoverned>>

-----------------------------------------------------------------------------
(* Review and publication.                                                 *)

\* Mutant: anybody may review.
MutMayReview(u, who) == TRUE

\* The sender may not.  Artifacts look past the case of the name, the others
\* do not.
MayReview(u, who) == IF family = "artifact" THEN Folded[who] # Folded[u.by] ELSE who # u.by

RowFree(u) == \A p \in Publisher : publishers[p].pc = "publish" => publishers[p].upload # u

Approve(u, who) ==
    /\ version[u].status = "DRAFT" /\ RowFree(u) /\ MayReview(u, who)
    /\ version' = [version EXCEPT ![u] = [status |-> "APPROVED", reviewer |-> who]]
    /\ UNCHANGED <<family, publishers, publicationLock, activeGoverned>>

\* Mutant: a period may begin on the last day of another.
MutMeet(u, v) == u.from < v.to /\ u.to > v.from

Meet(u, v) == u.from <= v.to /\ u.to >= v.from

SameKind(u, v) == family = "artifact" => u.type = v.type

Overlaps(u) == {v \in Versions("PUBLISHED") \ {u} : SameKind(u, v) /\ Meet(v, u)}

\* Only scopes take a lock for the whole table; it comes before the row's.
\* Mutant: they do not.
MutTakeLock(p) == UNCHANGED publicationLock

TakeLock(p) ==
    IF family = "scope" THEN publicationLock = "free" /\ publicationLock' = p
    ELSE UNCHANGED publicationLock

\* The row is locked and found approved, and no published version overlaps.
BeginPublish(p, u) ==
    /\ publishers[p].pc = "idle" /\ RowFree(u)
    /\ version[u].status = "APPROVED" /\ Overlaps(u) = {}
    /\ TakeLock(p)
    /\ publishers' = [publishers EXCEPT ![p] = [pc |-> "publish", upload |-> u]]
    /\ UNCHANGED <<family, version, activeGoverned>>

Rest(p) ==
    /\ publishers' = [publishers EXCEPT ![p] = Resting]
    /\ publicationLock' = IF publicationLock = p THEN "free" ELSE publicationLock

CommitPublish(p) ==
    /\ publishers[p].pc = "publish"
    /\ Become(publishers[p].upload, "PUBLISHED")
    /\ Rest(p)
    /\ UNCHANGED <<family, activeGoverned>>

AbortPublish(p) ==
    /\ publishers[p].pc = "publish"
    /\ Rest(p)
    /\ UNCHANGED <<family, version, activeGoverned>>

\* Companies come and go with the events of their master, whatever names them.
ChangeGoverned(companies) ==
    /\ family = "scope" /\ companies # activeGoverned
    /\ activeGoverned' = companies
    /\ UNCHANGED <<family, version, publishers, publicationLock>>

VersionNext ==
    \/ \E u \in Scope : ImportScope(u)
    \/ \E u \in Dictionary : ImportDictionary(u)
    \/ \E u \in Artifact : CreateArtifact(u)
    \/ \E u \in Family, who \in Person : Approve(u, who)
    \/ \E p \in Publisher, u \in Family : BeginPublish(p, u)
    \/ \E p \in Publisher : CommitPublish(p) \/ AbortPublish(p)
    \/ \E companies \in SUBSET Governed : ChangeGoverned(companies)

VersionSpec == VersionInit /\ [][VersionNext]_versionVars

-----------------------------------------------------------------------------
(* What a run is given.                                                    *)

Covering(day) == {u \in Versions("PUBLISHED") : u.from <= day /\ day <= u.to}

\* Mutant: inactive companies are left out.
MutReadyScope(u) == u.companies \cap activeGoverned # {}

\* A scope is good while all its companies are active.
ReadyScope(u) == u.companies # {} /\ u.companies \subseteq activeGoverned

\* The companies a run is given for a day, none if it is not ready.
ResolvedScope(day) ==
    IF Cardinality(Covering(day)) # 1 THEN {}
    ELSE LET u == CHOOSE v \in Covering(day) : TRUE IN IF ReadyScope(u) THEN u.companies ELSE {}

\* The artifacts of a day, none unless there is one of each type.
ResolvedArtifacts(day) ==
    IF \A t \in ArtifactType : Cardinality({u \in Covering(day) : u.type = t}) = 1
    THEN Covering(day) ELSE {}

\* A dictionary is asked for by its name.
ResolvedDictionary(name, day) == {u \in Covering(day) : u.name = name}

Day == UNION {u.from .. u.to : u \in Upload}
Name == {u.name : u \in Dictionary}

-----------------------------------------------------------------------------
(* What governance promises.                                               *)

VersionTypeOK ==
    /\ \A u \in Upload :
           /\ version[u].status \in {"none", "refused", "DRAFT", "APPROVED", "PUBLISHED"}
           /\ version[u].reviewer \in Person \cup {"none"}
    /\ \A p \in Publisher : publishers[p].upload \in Upload \cup {NoUpload}
    /\ publicationLock \in Publisher \cup {"free"}
    /\ activeGoverned \subseteq Governed

\* Published scopes never overlap, though two are published at once: every day
\* has at most one.
ScopesDisjoint == family = "scope" => \A day \in Day : Cardinality(Covering(day)) <= 1

\* Nothing is in force that its own sender has reviewed.
MakerIsNotChecker ==
    \A u \in Family : version[u].status \in {"APPROVED", "PUBLISHED"} =>
        /\ version[u].reviewer \in Person \ {u.by}
        /\ family = "artifact" => Folded[version[u].reviewer] # Folded[u.by]

\* Whoever asks for a dictionary by its name is told of one, at most.
NamesOneDictionary ==
    family = "dictionary" =>
        \A name \in Name, day \in Day : Cardinality(ResolvedDictionary(name, day)) <= 1

\* Runs of one day never work with different scopes or artifacts: what a day is
\* given stays, or the day is not ready, and no run is given a company that has
\* left.
DayKeepsItsVersions ==
    [][<<version, activeGoverned>>' # <<version, activeGoverned>> => \A day \in Day :
           /\ family = "scope" =>
                  /\ ResolvedScope(day) # {} => ResolvedScope(day)' \in {{}, ResolvedScope(day)}
                  /\ ResolvedScope(day)' \subseteq activeGoverned'
           /\ family = "artifact" /\ ResolvedArtifacts(day) # {} =>
                  ResolvedArtifacts(day)' \in {{}, ResolvedArtifacts(day)}]_versionVars

VersionsSound ==
    /\ [](VersionTypeOK /\ ScopesDisjoint /\ MakerIsNotChecker /\ NamesOneDictionary)
    /\ DayKeepsItsVersions
=============================================================================
