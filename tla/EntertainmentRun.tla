--------------------------- MODULE EntertainmentRun ---------------------------
(***************************************************************************)
(* The monthly run of one company's business entertainment: documents of   *)
(* Hesi and OA are linked to the vouchers of a published snapshot by exact *)
(* references, each is evaluated once, and the model's judgment of each is *)
(* routed in a transaction of its own.  Workers stop and are given the     *)
(* task again, failures are retried, and two deliveries may overlap.       *)
(***************************************************************************)
EXTENDS Integers, FiniteSets, FiniteSetsExt

CONSTANTS
    Books,           \* what a snapshot may hold: vouchers, papers and the labels they may get
    NoRef,           \* a reference that is empty
    Attempt,         \* deliveries of the company's task
    MaxTaskRetries,
    TaskFaults,      \* what may go wrong: a gate, the model's answer, a technical failure, a stop
    MaxTaskFaults    \* how often, in one behaviour (a bound)

ASSUME EntertainmentAssumption ==
    /\ MaxTaskRetries \in Nat /\ MaxTaskFaults \in Nat
    /\ \A b \in Books :
           /\ IsFiniteSet(b.papers) /\ IsFiniteSet(b.vouchers)
           /\ \A i, j \in b.papers \cup b.vouchers :
                  i.number \in Nat /\ (i.number = j.number => i = j)

\* A voucher has a number, two references and perhaps a text.  A paper has a
\* number, in the order of its key, a kind ("hesi", "oa" or "child"), a document id, the OA it
\* names, its parent with the parent's kind, the voucher it names, and whether
\* it has an amount and a text.

VARIABLES
    books,       \* what the snapshot holds
    links,       \* persisted exact links
    evaluations, \* persisted evaluations
    coverages,   \* persisted coverages of vouchers
    detections,  \* the label routed for each evaluation
    companyOpen, \* TRUE while the company is active
    attempts,    \* deliveries
    taskFaults   \* faults so far

entertainmentVars ==
    <<books, links, evaluations, coverages, detections, companyOpen, attempts, taskFaults>>

Canonicals(b) == {p \in b.papers : p.kind # "child"}
Named(b, ref) == {p \in b.papers : ref # NoRef /\ p.document = ref}

-----------------------------------------------------------------------------
(* Linking: only a reference that is met once is evidence.                 *)

\* Mutant: one OA is as good as another.
MutNamedOa(b, h) ==
    {p \in Named(b, h.oa) : p.kind = "oa" /\ \A q \in Named(b, h.oa) : p.number <= q.number}

NamedOa(b, h) == {p \in Named(b, h.oa) : p.kind = "oa"}

StandsFor(b, h, oa) == h.kind = "hesi" /\ NamedOa(b, h) = {oa}

\* Mutant: the OA is linked itself.
MutCanonical(b, p) == p

\* A Hesi stands for the OA it names; of several the last one does.
Canonical(b, p) ==
    LET heirs == {h \in b.papers : h.oa # NoRef /\ StandsFor(b, h, p)}
    IN  IF heirs = {} THEN p ELSE CHOOSE h \in heirs : \A o \in heirs : o.number <= h.number

Parents(b, c) == {p \in Named(b, c.parent) : p.kind = c.parentKind}

\* A paper that names the voucher comes before the papers the voucher names.
Claimants(b, v) ==
    LET direct == {p \in b.papers : p.voucher = v.number}
        named == {Canonical(b, p) : p \in Named(b, v.assignment) \cup Named(b, v.reference)}
    IN  IF direct # {} THEN direct ELSE {p \in named : p.kind # "child"}

Link(kind, source, target) == [kind |-> kind, source |-> source, target |-> target]

HesiLinks(b) ==
    UNION {{Link("HESI_TO_OA", h.number, oa.number) :
                oa \in {o \in b.papers : h.oa # NoRef /\ StandsFor(b, h, o)}} : h \in b.papers}
ChildLinks(b) ==
    UNION {{Link("CHILD_TO_PARENT", c.number, p.number) :
                p \in {q \in b.papers : c.kind = "child" /\ Parents(b, c) = {q}}} : c \in b.papers}
VoucherLinks(b) ==
    UNION {{Link("BUSINESS_TO_SAP", p.number, v.number) :
                p \in {q \in b.papers : Claimants(b, v) = {q}}} : v \in b.vouchers}

ExactLinks(b) == HesiLinks(b) \cup ChildLinks(b) \cup VoucherLinks(b)

Vouchers(found, p) == {l.target : l \in {k \in found : k.kind = "BUSINESS_TO_SAP" /\ k.source = p.number}}

-----------------------------------------------------------------------------
(* What is evaluated, given the links.                                     *)

\* Mutant: an OA is evaluated beside the Hesi that stands for it.
MutSuppressed(found, p) == FALSE

Suppressed(found, p) == \E l \in found : l.kind = "HESI_TO_OA" /\ l.target = p.number

\* Neither two vouchers of one paper nor a paper without an amount has an
\* evaluation: the whole company has none.
Buildable(b, found) ==
    /\ \A p \in b.papers : Cardinality(Vouchers(found, p)) <= 1
    /\ \A p \in Canonicals(b) : Suppressed(found, p) \/ p.amount

Evaluation(found, p) ==
    [paper |-> p.number,
     voucher |-> IF Vouchers(found, p) = {} THEN NoRef ELSE CHOOSE v \in Vouchers(found, p) : TRUE]

EvaluationsOf(b, found) == {Evaluation(found, p) : p \in {q \in Canonicals(b) : ~Suppressed(found, q)}}

\* Mutant: vouchers without a paper are not covered.
MutCoveragesOf(b, found) ==
    {[voucher |-> l.target, linked |-> TRUE] : l \in {k \in found : k.kind = "BUSINESS_TO_SAP"}}

Linked(found, v) == \E l \in found : l.kind = "BUSINESS_TO_SAP" /\ l.target = v.number

CoveragesOf(b, found) == {[voucher |-> v.number, linked |-> Linked(found, v)] : v \in b.vouchers}

Numbers(b) == {i.number : i \in b.papers \cup b.vouchers}

\* A voucher leads to one paper, a child to its parent and a Hesi to its OA.
Upward(b, found) ==
    [n \in Numbers(b) |->
        LET ups == {l \in found : n = IF l.kind = "BUSINESS_TO_SAP" THEN l.target ELSE l.source}
            up == CHOOSE l \in ups : TRUE
        IN  IF ups = {} THEN n ELSE IF up.kind = "BUSINESS_TO_SAP" THEN up.source ELSE up.target]

\* So whatever is linked, directly or not, leads to one item in three steps.
Topmost(b, found) ==
    LET up == Upward(b, found) IN [n \in Numbers(b) |-> up[up[up[n]]]]

\* All of it is a paper's evidence.
HasText(b, found, e) ==
    LET top == Topmost(b, found)
    IN  \E i \in b.papers \cup b.vouchers : i.text /\ top[i.number] = top[e.paper]

-----------------------------------------------------------------------------
(* The task.                                                               *)

Ended == {"SUCCEEDED", "BLOCKED", "FAILED"}
Sent ==
    [pc |-> "ready", tries |-> 0, items |-> {}, judged |-> [e \in {} |-> "none"], routed |-> {}]

EntertainmentInit ==
    /\ books \in Books
    /\ links = {} /\ evaluations = {} /\ coverages = {}
    /\ detections = [e \in {} |-> "none"]
    /\ companyOpen = TRUE
    /\ attempts = [a \in Attempt |-> Sent]
    /\ taskFaults = 0

At(a, pc) == attempts[a].pc = pc
Enter(a, pc) == attempts' = [attempts EXCEPT ![a].pc = pc]

\* What a task keeps in memory goes with the attempt.
Finish(a, status) == attempts' = [attempts EXCEPT ![a] = [Sent EXCEPT !.pc = status]]
Begin(a, tries) == attempts' = [attempts EXCEPT ![a] = [Sent EXCEPT !.tries = tries]]

Fault(f) == f \in TaskFaults /\ taskFaults < MaxTaskFaults /\ taskFaults' = taskFaults + 1

MayRetry(a) == attempts[a].tries < MaxTaskRetries

\* Mutant: retries are not counted.
MutRetryOrFail(a) == Begin(a, attempts[a].tries)

RetryOrFail(a) == IF MayRetry(a) THEN Begin(a, attempts[a].tries + 1) ELSE Finish(a, "FAILED")

\* The scope covers the company, the versions are in force, the set is
\* published and has a member for the company.
Load(a) ==
    /\ At(a, "ready")
    /\ IF companyOpen THEN Enter(a, "link") ELSE Finish(a, "BLOCKED")
    /\ UNCHANGED <<books, links, evaluations, coverages, detections, companyOpen, taskFaults>>

GateCloses(a) ==
    /\ At(a, "ready") /\ Fault("gate")
    /\ Finish(a, "BLOCKED")
    /\ UNCHANGED <<books, links, evaluations, coverages, detections, companyOpen>>

\* Rows are inserted unless they are there, and read again.
KeptLinks(found) == links \cup found
KeptEvaluations(items) == evaluations \cup items
KeptCoverages(items) == coverages \cup items

\* Links are committed first, then everything that is linked is read again.
LinkInput(a) ==
    /\ At(a, "link")
    /\ \E found \in {KeptLinks(ExactLinks(books))} :
           /\ links' = found
           /\ IF Buildable(books, found)
              THEN attempts' = [attempts EXCEPT ![a] = [@ EXCEPT !.pc = "persist",
                                                                 !.items = EvaluationsOf(books, found)]]
              ELSE RetryOrFail(a)
    /\ UNCHANGED <<books, evaluations, coverages, detections, companyOpen, taskFaults>>

\* Coverages and evaluations are written together, or read again if they are
\* there; then a paper without a text blocks the company.
Persist(a) ==
    /\ At(a, "persist")
    /\ coverages' = KeptCoverages(CoveragesOf(books, links))
    /\ evaluations' = KeptEvaluations(attempts[a].items)
    /\ IF \A e \in attempts[a].items : HasText(books, links, e)
       THEN Enter(a, "evaluate") ELSE Finish(a, "BLOCKED")
    /\ UNCHANGED <<books, links, detections, companyOpen, taskFaults>>

\* The model is asked about every evaluation before any is routed.
Judge(a) ==
    /\ At(a, "evaluate")
    /\ \E judged \in [attempts[a].items -> books.labels] :
           attempts' = [attempts EXCEPT ![a] = [@ EXCEPT !.pc = "route", !.judged = judged]]
    /\ UNCHANGED <<books, links, evaluations, coverages, detections, companyOpen, taskFaults>>

\* A citation, an account or a wording that does not pass is a ValueError.
AnswerRejected(a) ==
    /\ At(a, "evaluate") /\ Fault("answer")
    /\ Finish(a, "BLOCKED")
    /\ UNCHANGED <<books, links, evaluations, coverages, detections, companyOpen>>

\* Papers with a voucher are routed first, then the others, in their order.
Before(e, o) ==
    \/ e.voucher # NoRef /\ o.voucher = NoRef
    \/ (e.voucher # NoRef <=> o.voucher # NoRef) /\ e.paper <= o.paper

Unrouted(a) == DOMAIN attempts[a].judged \ attempts[a].routed
NextUp(a) == CHOOSE e \in Unrouted(a) : \A o \in Unrouted(a) : Before(e, o)

\* Mutant: a detection that is there is good enough.
MutReplays(a, e) == TRUE

Replays(a, e) == e \in DOMAIN detections => detections[e] = attempts[a].judged[e]

Extend(f, e, x) == [o \in DOMAIN f \cup {e} |-> IF o \in DOMAIN f THEN f[o] ELSE x]

\* One detection, in a transaction that holds the company's row.  Judged
\* otherwise before, or of a company that has left, it blocks the task.
Route1(a) ==
    /\ At(a, "route") /\ Unrouted(a) # {}
    /\ LET e == NextUp(a)
       IN  IF companyOpen /\ Replays(a, e)
           THEN /\ detections' = Extend(detections, e, attempts[a].judged[e])
                /\ attempts' = [attempts EXCEPT ![a].routed = @ \cup {e}]
           ELSE /\ Finish(a, "BLOCKED")
                /\ UNCHANGED detections
    /\ UNCHANGED <<books, links, evaluations, coverages, companyOpen, taskFaults>>

\* Mutant: the task ends as its first detection is routed.
MutAllRouted(a) == attempts[a].routed # {}

AllRouted(a) == Unrouted(a) = {}

Succeed(a) ==
    /\ At(a, "route") /\ AllRouted(a)
    /\ Enter(a, "SUCCEEDED")
    /\ UNCHANGED <<books, links, evaluations, coverages, detections, companyOpen, taskFaults>>

\* The database or the model's provider fails: nothing of the open transaction
\* stays.
TaskFails(a) ==
    /\ ~At(a, "ready") /\ attempts[a].pc \notin Ended /\ Fault("technical")
    /\ RetryOrFail(a)
    /\ UNCHANGED <<books, links, evaluations, coverages, detections, companyOpen>>

\* The worker is lost and the message is delivered again, its retries as before.
WorkerStops(a) ==
    /\ ~At(a, "ready") /\ attempts[a].pc \notin Ended /\ Fault("stop")
    /\ Begin(a, attempts[a].tries)
    /\ UNCHANGED <<books, links, evaluations, coverages, detections, companyOpen>>

CompanyLeaves ==
    /\ companyOpen /\ Fault("company")
    /\ companyOpen' = FALSE
    /\ UNCHANGED <<books, links, evaluations, coverages, detections, attempts>>

TaskStep(a) ==
    \/ Load(a) \/ LinkInput(a) \/ Persist(a) \/ Judge(a) \/ Route1(a) \/ Succeed(a)

EntertainmentNext ==
    \/ \E a \in Attempt : TaskStep(a) \/ GateCloses(a) \/ AnswerRejected(a) \/ TaskFails(a) \/ WorkerStops(a)
    \/ CompanyLeaves

\* Workers run.
EntertainmentSpec ==
    /\ EntertainmentInit /\ [][EntertainmentNext]_entertainmentVars
    /\ \A a \in Attempt : WF_entertainmentVars(TaskStep(a))

-----------------------------------------------------------------------------
(* What the run promises.                                                  *)

EntertainmentTypeOK ==
    /\ books \in Books
    /\ \A l \in links : l.kind \in {"HESI_TO_OA", "CHILD_TO_PARENT", "BUSINESS_TO_SAP"}
    /\ DOMAIN detections \subseteq evaluations
    /\ \A a \in Attempt : /\ attempts[a].pc \in Ended \cup {"ready", "link", "persist", "evaluate", "route"}
                          /\ attempts[a].tries \in 0 .. MaxTaskRetries

Evaluated(p) == \E e \in evaluations : e.paper = p.number

\* Every document of Hesi and OA is evaluated once: itself, or an OA through a
\* Hesi that names it and no other, never both.
EveryPaperOnce ==
    evaluations # {} =>
        /\ \A p \in Canonicals(books) :
               Evaluated(p) <=> ~\E h \in books.papers :
                   h.kind = "hesi" /\ p.kind = "oa" /\ Evaluated(h) /\ Named(books, h.oa) \ {q \in books.papers : q.kind # "oa"} = {p}
        /\ \A p \in books.papers \ Canonicals(books) : ~Evaluated(p)
        /\ \A e, o \in evaluations : e.paper = o.paper => e = o

\* No voucher's amount counts for two documents; all vouchers are covered with
\* the evaluations, and one that names a document is evaluated with it.
VouchersAccounted ==
    evaluations # {} =>
        /\ {c.voucher : c \in coverages} = {v.number : v \in books.vouchers}
        /\ \A c, o \in coverages : c.voucher = o.voucher => c = o
        /\ \A e \in evaluations : e.voucher # NoRef =>
               /\ [voucher |-> e.voucher, linked |-> TRUE] \in coverages
               /\ \A o \in evaluations : o.voucher = e.voucher => o = e
        /\ \A c \in coverages :
               c.linked /\ (\A p \in books.papers : p.voucher # c.voucher)
                   => \E e \in evaluations : e.voucher = c.voucher

\* A task that succeeds has routed every evaluation, under the labels it was
\* given itself, whatever other deliveries did.
SuccessIsOwn ==
    \A a \in Attempt : At(a, "SUCCEEDED") =>
        /\ DOMAIN detections = evaluations
        /\ \A e \in evaluations : detections[e] = attempts[a].judged[e]

\* A label that was routed stays, and nothing persisted is taken back.
JudgmentStays ==
    [][<<links, evaluations, coverages, detections>>' # <<links, evaluations, coverages, detections>> =>
           /\ links \subseteq links' /\ evaluations \subseteq evaluations' /\ coverages \subseteq coverages'
           /\ \A e \in DOMAIN detections : e \in DOMAIN detections' /\ detections'[e] = detections[e]]_entertainmentVars

EntertainmentSound ==
    /\ [](EntertainmentTypeOK /\ EveryPaperOnce /\ VouchersAccounted /\ SuccessIsOwn)
    /\ JudgmentStays

\* A delivery, and its end with whatever result.
TaskDue(a) == At(a, "link")
TaskOver(a) == attempts[a].pc \in Ended
=============================================================================
