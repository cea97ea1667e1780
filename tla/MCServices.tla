----------------------------- MODULE MCServices -----------------------------
(***************************************************************************)
(* Services that share nothing: the export jobs, the cached reads of       *)
(* external sources, the client of the DGC data service and the monthly    *)
(* run of business entertainment.  A behaviour is one of a single service, *)
(* the subject; the others stay as they begin.                             *)
(***************************************************************************)
EXTENDS ExportJob, FetchCache, DgcReader, EntertainmentRun

VARIABLE subject \* the service that runs

serviceVars == <<exportVars, fetchVars, dgcVars, entertainmentVars, subject>>

\* An empty table, and tables of one and a half and of two and a half pages,
\* with pages that differ and with equal rows.
MCSourceTable == {<<>>, <<"x", "x", "y">>, <<"x", "y", "x", "y", "y">>}

MCFirstService == [table |-> <<>>, rowsPerPage |-> 1, mode |-> "plain", iam |-> FALSE]

PaperOf(number, kind, document, oa, parent, voucher, text) ==
    [number |-> number, kind |-> kind, document |-> document, oa |-> oa, parent |-> parent,
     parentKind |-> IF parent = "h2" THEN "hesi" ELSE "oa", voucher |-> voucher,
     amount |-> number # 9, text |-> text]
VoucherOf(number, assignment, reference) ==
    [number |-> number, assignment |-> assignment, reference |-> reference, text |-> FALSE]

\* Two documents, one with a voucher through the OA it names, that may be judged
\* either way.
MCTwoPapers ==
    [papers |-> {PaperOf(1, "oa", "o1", NoRef, NoRef, NoRef, TRUE),
                 PaperOf(2, "hesi", "h2", "o1", NoRef, NoRef, FALSE),
                 PaperOf(3, "hesi", "h3", "none", NoRef, NoRef, TRUE)},
     vouchers |-> {VoucherOf(11, "o1", NoRef)}, labels |-> {"reasonable", "misclassified"}]

\* Two Hesi of one OA, a child that names a voucher which names its parent.
MCOneOa ==
    [papers |-> {PaperOf(1, "oa", "o1", NoRef, NoRef, NoRef, TRUE),
                 PaperOf(2, "hesi", "h2", "o1", NoRef, NoRef, FALSE),
                 PaperOf(3, "hesi", "h3", "o1", NoRef, NoRef, FALSE),
                 PaperOf(4, "child", "c4", NoRef, "h2", 12, FALSE)},
     vouchers |-> {VoucherOf(11, "o1", "h3"), VoucherOf(12, "h2", NoRef)},
     labels |-> {"reasonable"}]

\* An OA of two lines with a Hesi and a child, a voucher that names two
\* documents and one that names the child.
MCTwoLines ==
    [papers |-> {PaperOf(1, "oa", "o1", NoRef, NoRef, NoRef, TRUE),
                 PaperOf(2, "oa", "o1", NoRef, NoRef, NoRef, TRUE),
                 PaperOf(3, "hesi", "h3", "o1", NoRef, NoRef, TRUE),
                 PaperOf(4, "child", "c4", NoRef, "o1", NoRef, FALSE)},
     vouchers |-> {VoucherOf(11, "o1", "h3"), VoucherOf(12, NoRef, "c4")},
     labels |-> {"reasonable"}]

\* Two vouchers of one document; a document without an amount; one without a text.
MCBooks ==
    {MCTwoPapers, MCOneOa, MCTwoLines,
     [papers |-> {PaperOf(1, "hesi", "h1", NoRef, NoRef, NoRef, TRUE)},
      vouchers |-> {VoucherOf(11, "h1", NoRef), VoucherOf(12, NoRef, "h1")}, labels |-> {"reasonable"}],
     [papers |-> {PaperOf(9, "hesi", "h9", NoRef, NoRef, NoRef, TRUE)}, vouchers |-> {},
      labels |-> {"reasonable"}],
     [papers |-> {PaperOf(1, "hesi", "h1", NoRef, NoRef, NoRef, FALSE)}, vouchers |-> {},
      labels |-> {"reasonable"}]}

ServiceInit ==
    /\ subject \in {"export", "fetch", "dgc", "entertainment"}
    /\ ExportInit /\ FetchInit /\ DgcInit /\ EntertainmentInit
    /\ subject # "entertainment" => books = MCTwoPapers
    /\ subject # "dgc" => service = MCFirstService

ServiceNext ==
    \/ subject = "export" /\ ExportNext /\ UNCHANGED <<fetchVars, dgcVars, entertainmentVars, subject>>
    \/ subject = "fetch" /\ FetchNext /\ UNCHANGED <<exportVars, dgcVars, entertainmentVars, subject>>
    \/ subject = "dgc" /\ DgcNext /\ UNCHANGED <<exportVars, fetchVars, entertainmentVars, subject>>
    \/ subject = "entertainment" /\ EntertainmentNext /\ UNCHANGED <<exportVars, fetchVars, dgcVars, subject>>

\* Workers and threads run, as the specifications of the services assume.  Only
\* one service runs, so the workers of each are the same values.
Worker == Delivery \cup Reader \cup Fetcher \cup Attempt

WorkStep(w) ==
    \/ /\ subject = "export" /\ w \in Delivery /\ RenderStep(w)
       /\ UNCHANGED <<fetchVars, dgcVars, entertainmentVars, subject>>
    \/ /\ subject = "fetch" /\ w \in Reader /\ FetchStep(w)
       /\ UNCHANGED <<exportVars, dgcVars, entertainmentVars, subject>>
    \/ /\ subject = "dgc" /\ w \in Fetcher /\ DgcStep(w)
       /\ UNCHANGED <<exportVars, fetchVars, entertainmentVars, subject>>
    \/ /\ subject = "entertainment" /\ w \in Attempt /\ TaskStep(w)
       /\ UNCHANGED <<exportVars, fetchVars, dgcVars, subject>>

Fairness == \A w \in Worker : WF_serviceVars(WorkStep(w))

ServiceSpec == ServiceInit /\ [][ServiceNext]_serviceVars /\ Fairness

\* Every export that was sent, every call for external data, every fetch and
\* every company's task comes to its end.
Due(w) ==
    \/ subject = "export" /\ w \in Delivery /\ RenderDue(w)
    \/ subject = "fetch" /\ w \in Reader /\ FetchDue(w)
    \/ subject = "dgc" /\ w \in Fetcher /\ DgcDue(w)
    \/ subject = "entertainment" /\ w \in Attempt /\ TaskDue(w)
Over(w) ==
    \/ subject = "export" /\ w \in Delivery /\ RenderOver(w)
    \/ subject = "fetch" /\ w \in Reader /\ FetchOver(w)
    \/ subject = "dgc" /\ w \in Fetcher /\ DgcOver(w)
    \/ subject = "entertainment" /\ w \in Attempt /\ TaskOver(w)
ServicesEnd == \A w \in Worker : Due(w) ~> Over(w)
=============================================================================
