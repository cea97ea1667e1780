---------------------------- MODULE SemanticCase ----------------------------
(***************************************************************************)
(* Semantic detections, evidence tasks and risk cases of one company: a    *)
(* detection is routed to a case of its own, and a case of a business      *)
(* document that was later found in the ledger is merged into the case of  *)
(* the SAP voucher.                                                        *)
(*                                                                         *)
(* A route holds the company row, a merge does not: they meet in the case  *)
(* rows, and in the unique fingerprint when both create the same case.     *)
(* The fingerprint of a case is the voucher if there is one and else the   *)
(* document, so documents and vouchers name the cases here.                *)
(***************************************************************************)
EXTENDS Naturals, FiniteSets

CONSTANTS
    Document,       \* canonical business documents
    Voucher,        \* SAP observations
    NoVoucher,      \* of a detection that is not linked, of a case not merged
    Detected,       \* detections that the monitors make, by document and voucher (a bound)
    ExactLink,      \* persisted exact evidence, by document and voucher
    Label,          \* labels a detection may get
    Suspicious,     \* those that open a case
    Insufficient,   \* those that ask for evidence, labels without a route of their own included
    Client,         \* transactions that may be under way (a bound)
    MaxCaseVersion  \* changes of one case in one behaviour (a bound)

ASSUME SemanticCaseAssumption ==
    /\ Suspicious \cup Insufficient \subseteq Label
    /\ Suspicious \cap Insufficient = {}
    /\ "unrouted" \notin Label
    /\ NoVoucher \notin Voucher \cup Document
    /\ Document \cap Voucher = {}
    /\ Detected \subseteq [document : Document, voucher : Voucher \cup {NoVoucher}]
    /\ ExactLink \subseteq [document : Document, voucher : Voucher]
    /\ MaxCaseVersion \in Nat

VARIABLES
    detected,    \* per detection key: its label
    evidenceTask,\* keys with an open evidence task
    rootCase,    \* risk_case with its detail, by fingerprint
    companyLock, \* clients that hold the company row
    client       \* transactions

semanticVars == <<detected, evidenceTask, rootCase, companyLock, client>>

-----------------------------------------------------------------------------

DetectionKey == [document : Document, voucher : Voucher \cup {NoVoucher}]
SemanticCases == Document \cup Voucher
Fingerprint(key) == IF key.voucher = NoVoucher THEN key.document ELSE key.voucher

Unrouted == "unrouted"
NoLink == [document |-> NoVoucher, voucher |-> NoVoucher]
CaseRow ==
    [version : 0 .. MaxCaseVersion + 1, document : Document \cup {NoVoucher}, link : DetectionKey \cup {NoLink},
     mergedInto : Voucher \cup {NoVoucher}]
NoCaseRow == [version |-> 0, document |-> NoVoucher, link |-> NoLink, mergedInto |-> NoVoucher]

IdleClient ==
    [op |-> "none", phase |-> "idle", key |-> NoLink, label |-> Unrouted, seen |-> 0,
     case |-> NoVoucher, read |-> NoCaseRow]
ClientState ==
    [op : {"none", "route", "merge"}, phase : {"idle", "viewed", "locked", "ready"},
     key : DetectionKey \cup {NoLink}, label : Label \cup {Unrouted}, seen : 0 .. MaxCaseVersion + 1,
     case : SemanticCases \cup {NoVoucher}, read : CaseRow]

\* The case of a detection that suspects, the evidence it lacks, or neither.
DetectionRoute(label) ==
    IF label \in Suspicious THEN "RISK_CASE"
    ELSE IF label \in Insufficient THEN "EVIDENCE_TASK" ELSE "DETECTION_ONLY"

\* Case rows that a transaction holds: a merge its source, and both their case.
CaseLocks(c) ==
    (IF client[c].op = "merge" /\ client[c].phase \in {"locked", "ready"}
     THEN {client[c].case} ELSE {})
        \cup (IF client[c].phase = "ready" /\ client[c].read.version # 0
              THEN {Fingerprint(client[c].key)} ELSE {})

\* Mutant: the case is read without its row lock.
MutLocked(case, c) == FALSE

Locked(case, c) == \E other \in Client \ {c} : case \in CaseLocks(other)

SemanticInit ==
    /\ detected = [key \in Detected |-> Unrouted]
    /\ evidenceTask = {}
    /\ rootCase = [case \in SemanticCases |-> NoCaseRow]
    /\ companyLock = {}
    /\ client = [c \in Client |-> IdleClient]

-----------------------------------------------------------------------------
(* Routing a detection.                                                    *)

\* The company row, and the lineage of the detection.  A replay must carry the
\* label of the first routing.
BeginRoute(c, key, label) ==
    /\ client[c] = IdleClient
    /\ companyLock = {}
    /\ detected[key] \in {Unrouted, label}
    /\ companyLock' = {c}
    /\ client' = [client EXCEPT ![c] =
           [IdleClient EXCEPT !.op = "route", !.phase = "locked", !.key = key, !.label = label]]
    /\ UNCHANGED <<detected, evidenceTask, rootCase>>

\* The case by its fingerprint, FOR UPDATE.
ReadCase(c) ==
    LET case == Fingerprint(client[c].key)
    IN  /\ client[c].phase = "locked"
        /\ client[c].op = "route" => DetectionRoute(client[c].label) = "RISK_CASE"
        /\ ~Locked(case, c)
        /\ rootCase[case].version <= MaxCaseVersion
        /\ client' = [client EXCEPT ![c].phase = "ready", ![c].read = rootCase[case]]
        /\ UNCHANGED <<detected, evidenceTask, rootCase, companyLock>>

\* What create_or_update_semantic_case makes of the row it read: the refresh of
\* a case leaves its document, link and merge alone.
Refreshed(read, key) ==
    IF read.version = 0
    THEN [version |-> 1, document |-> key.document,
          link |-> IF key.voucher = NoVoucher THEN NoLink ELSE key, mergedInto |-> NoVoucher]
    ELSE [read EXCEPT !.version = @ + 1]

\* The unique fingerprint refuses a case that was created meanwhile.
NotRaced(c) ==
    client[c].read.version = 0 => rootCase[Fingerprint(client[c].key)].version = 0

Close(c) ==
    /\ client' = [client EXCEPT ![c] = IdleClient]
    /\ companyLock' = companyLock \ {c}

\* Mutant: the detection is committed before its case.
MutAbandon(c) ==
    /\ client[c].phase \in {"locked", "ready"}
    /\ detected' = IF client[c].op = "route"
                   THEN [detected EXCEPT ![client[c].key] = client[c].label] ELSE detected
    /\ Close(c)
    /\ UNCHANGED <<evidenceTask, rootCase>>

\* An outcome without a case: the detection, and a task if evidence lacks.
CommitDetection(c) ==
    LET key == client[c].key
        outcome == DetectionRoute(client[c].label)
    IN  /\ client[c].op = "route" /\ client[c].phase = "locked"
        /\ outcome # "RISK_CASE"
        /\ detected' = [detected EXCEPT ![key] = client[c].label]
        /\ evidenceTask' = IF outcome = "EVIDENCE_TASK" THEN evidenceTask \cup {key} ELSE evidenceTask
        /\ Close(c)
        /\ UNCHANGED rootCase

CommitRoute(c) ==
    LET key == client[c].key
    IN  /\ client[c].op = "route" /\ client[c].phase = "ready"
        /\ NotRaced(c)
        /\ detected' = [detected EXCEPT ![key] = client[c].label]
        /\ rootCase' = [rootCase EXCEPT ![Fingerprint(key)] = Refreshed(client[c].read, key)]
        /\ Close(c)
        /\ UNCHANGED evidenceTask

-----------------------------------------------------------------------------
(* Merging a document's case into that of its voucher.                     *)

\* The user looks at the case and sends its row_version with the request.
ViewCase(c, case) ==
    /\ client[c] = IdleClient
    /\ rootCase[case].version \in 1 .. MaxCaseVersion
    /\ client' = [client EXCEPT ![c] =
           [IdleClient EXCEPT !.op = "merge", !.phase = "viewed", !.case = case,
                              !.seen = rootCase[case].version]]
    /\ UNCHANGED <<detected, evidenceTask, rootCase, companyLock>>

\* Mutant: the case of a voucher may be merged into that of another one.
MutMergeable(case, link) ==
    /\ rootCase[case].mergedInto = NoVoucher
    /\ link.document = rootCase[case].document

\* Mutant: the link may be that of another document.
MutMergeableOther(case, link) == rootCase[case].mergedInto = NoVoucher /\ case \in Document

\* Not merged, of a document without a voucher, and the link is its own.
Mergeable(case, link) ==
    /\ rootCase[case].mergedInto = NoVoucher
    /\ case \in Document
    /\ link.document = rootCase[case].document

\* Mutant: the row_version of the request is not compared.
MutUnchangedSince(c) == TRUE

UnchangedSince(c) == rootCase[client[c].case].version = client[c].seen

\* Under the lock of the source case: an exact link of this document to a
\* voucher of the company.  A merge that was done already changes nothing.
BeginMerge(c, link) ==
    LET case == client[c].case
    IN  /\ client[c].op = "merge" /\ client[c].phase = "viewed"
        /\ ~Locked(case, c)
        /\ IF UnchangedSince(c) /\ Mergeable(case, link)
           THEN client' = [client EXCEPT ![c].phase = "locked", ![c].key = link]
           ELSE client' = [client EXCEPT ![c] = IdleClient]
        /\ UNCHANGED <<detected, evidenceTask, rootCase, companyLock>>

\* The derived detection has a key of its own, by source detection and link;
\* it keeps the label of the source and is not among the routed ones.
CommitMerge(c) ==
    LET key == client[c].key
        source == client[c].case
        root == Fingerprint(key)
    IN  /\ client[c].op = "merge" /\ client[c].phase = "ready"
        /\ NotRaced(c)
        /\ root # source
        /\ rootCase' = [rootCase EXCEPT
               ![root] = Refreshed(client[c].read, key),
               ![source].mergedInto = root, ![source].version = @ + 1]
        /\ Close(c)
        /\ UNCHANGED <<detected, evidenceTask>>

\* The transaction rolls back: an error, or a case that was raced.
Abandon(c) ==
    /\ client[c].phase \in {"locked", "ready"}
    /\ Close(c)
    /\ UNCHANGED <<detected, evidenceTask, rootCase>>

-----------------------------------------------------------------------------

ClientStep(c) ==
    \/ ReadCase(c) \/ CommitDetection(c) \/ CommitRoute(c) \/ CommitMerge(c) \/ Abandon(c)
    \/ \E link \in ExactLink : BeginMerge(c, link)

SemanticNext ==
    \E c \in Client :
        \/ ClientStep(c)
        \/ \E key \in Detected, label \in Label : BeginRoute(c, key, label)
        \/ \E case \in SemanticCases : ViewCase(c, case)

SemanticSpec == SemanticInit /\ [][SemanticNext]_semanticVars

-----------------------------------------------------------------------------
(* What routing and merging guarantee.                                     *)

SemanticTypeOK ==
    /\ detected \in [Detected -> Label \cup {Unrouted}]
    /\ evidenceTask \subseteq Detected
    /\ rootCase \in [SemanticCases -> CaseRow]
    /\ companyLock \subseteq Client
    /\ client \in [Client -> ClientState]

Leads(case) == IF rootCase[case].mergedInto = NoVoucher THEN case ELSE rootCase[case].mergedInto

\* Every detection that suspects something is behind a case that the lists
\* show: its own, or the root its own was merged into.  Lists, exports and
\* figures only count cases that are not merged.
SuspicionIsVisible ==
    \A key \in Detected :
        detected[key] \in Suspicious =>
            /\ rootCase[Fingerprint(key)].version # 0
            /\ rootCase[Leads(Fingerprint(key))].version # 0
            /\ rootCase[Leads(Fingerprint(key))].mergedInto = NoVoucher

\* A merged case is that of a document, an exact link names its document and
\* the voucher that it leads to, and it leads there in one step
\* (case_merge.py:85-134).
MergesAreFlat ==
    \A case \in SemanticCases :
        LET root == rootCase[case].mergedInto
        IN  root # NoVoucher =>
                /\ \E link \in ExactLink : link.document = case /\ link.voucher = root
                /\ rootCase[root].version # 0
                /\ rootCase[root].mergedInto = NoVoucher

\* Each change of a case counts: no writer overwrites what it did not read,
\* so the row_version a user sends detects every change since it was seen.
CaseVersionCounts ==
    [][\A case \in SemanticCases :
           rootCase'[case] # rootCase[case] => rootCase'[case].version = rootCase[case].version + 1]_semanticVars

\* A merge changes the case only as its user saw it, and a merged case keeps
\* its root.
MergeIsInformed ==
    [][\A case \in SemanticCases :
           rootCase'[case].mergedInto # rootCase[case].mergedInto =>
               /\ rootCase[case].mergedInto = NoVoucher
               /\ \E c \in Client : client[c].case = case /\ client[c].seen = rootCase[case].version]_semanticVars

\* What routing and merging promise to the users of the cases.
SemanticSound ==
    [](SemanticTypeOK /\ SuspicionIsVisible /\ MergesAreFlat) /\ CaseVersionCounts /\ MergeIsInformed
=============================================================================
