----------------------------- MODULE RefundScan -----------------------------
(***************************************************************************)
(* The income-tax refund check of one refund tax year: annual targets      *)
(* imported from the refund ledger, evidence batches of SAP lines, monthly *)
(* scans that match a target against one batch, the risk case and the      *)
(* outbox entry a scan leaves behind.                                      *)
(*                                                                         *)
(* A scan is one transaction that holds the pending targets FOR UPDATE.    *)
(* An import reads its targets without a lock and writes them when it      *)
(* commits (READ COMMITTED), so it is two steps that scans may come        *)
(* between; one import is under way at a time (a bound).                   *)
(*                                                                         *)
(* Amounts are quantised, all in one currency and scale.  The record key   *)
(* of a target is its company's row in the ledger and never changes.       *)
(***************************************************************************)
EXTENDS Naturals, FiniteSets

CONSTANTS
    Company,   \* companies of the master data
    Month,     \* scan months
    Line,      \* SAP lines that may ever be delivered, see LineType
    Batch,     \* evidence batch keys
    Amount,    \* expected refund amounts
    Version    \* source versions of the ledger

Families == {"INCOME_TAX_EXPENSE", "OTHER_INCOME", "TAXES_PAYABLE"}
Primary  == {"INCOME_TAX_EXPENSE", "OTHER_INCOME"}

LineType == [id : Nat, company : Company, family : Families, month : 1 .. 12,
             amount : Nat, credit : BOOLEAN, reversed : BOOLEAN]

ASSUME MonthAssumption == Month \subseteq 3 .. 12
ASSUME LineAssumption == Line \subseteq LineType
ASSUME AmountAssumption == Amount \subseteq Nat \ {0}

VARIABLES
    target,    \* income_tax_refund_target, by company
    evidence,  \* sap_refund_evidence_batch and its lines
    results,   \* income_tax_refund_scan_result, by company and month
    cases,     \* direction of the refund case of each company
    outbox,    \* companies with a writeback to deliver
    import     \* the import between its read and its write

vars == <<target, evidence, results, cases, outbox, import>>

-----------------------------------------------------------------------------

NoTarget == [receipt |-> "NONE", amount |-> 0, version |-> "none"]
Target == [receipt : {"PENDING", "RECEIVED"}, amount : Amount, version : Version]

NoEvidence == [through |-> 0, companies |-> {}, lines |-> {}]

NoResult == [receipt |-> "NONE", account |-> "NONE", batch |-> "none", expected |-> 0]
Result(receipt, account, b, expected) ==
    [receipt |-> receipt, account |-> account, batch |-> b, expected |-> expected]

Draft == [amount : Amount, version : Version, received : BOOLEAN]

NoImport == [drafts |-> <<>>, seen |-> <<>>]

Scanned(c) == \E m \in Month : results[c][m] # NoResult

-----------------------------------------------------------------------------
(* Matching one target against one batch.                                  *)

\* Credit lines, not reversed, of the scan year up to the month, equal in amount.
Eligible(c, b, m, amount) ==
    {l \in evidence[b].lines :
        /\ l.company = c /\ l.month <= m
        /\ l.credit /\ ~l.reversed /\ l.amount = amount}

\* Taxes payable only count when no primary account matches.
Matches(c, b, m, amount) ==
    LET all == Eligible(c, b, m, amount)
        primary == {l \in all : l.family \in Primary}
    IN  IF primary # {} THEN primary ELSE all

Evaluate(c, b, m) ==
    LET amount  == target[c].amount
        matched == Matches(c, b, m, amount)
    IN  IF matched = {} THEN Result("NOT_RECEIVED", "NOT_APPLICABLE", b, amount)
        ELSE IF Cardinality(matched) > 1 THEN Result("AMBIGUOUS", "AMBIGUOUS", b, amount)
        ELSE IF \A l \in matched : l.family = "INCOME_TAX_EXPENSE"
             THEN Result("RECEIVED", "CORRECT", b, amount)
             ELSE Result("RECEIVED", "WRONG_ACCOUNT", b, amount)

-----------------------------------------------------------------------------

Init ==
    /\ target = [c \in Company |-> NoTarget]
    /\ evidence = [b \in Batch |-> NoEvidence]
    /\ results = [c \in Company |-> [m \in Month |-> NoResult]]
    /\ cases = [c \in Company |-> "NONE"]
    /\ outbox = {}
    /\ import = NoImport

\* A batch key is used once: the same evidence again is a replay, other
\* evidence a conflict.  Lines lie within the declared companies and period.
ImportEvidence(b, through, companies, lines) ==
    /\ evidence[b] = NoEvidence
    /\ companies # {}
    /\ \A l \in lines : l.month <= through /\ l.company \in companies
    /\ \A k, l \in lines : k.id = l.id => k = l
    /\ evidence' = [evidence EXCEPT ![b] =
                       [through |-> through, companies |-> companies, lines |-> lines]]
    /\ UNCHANGED <<target, results, cases, outbox, import>>

\* What an import makes of a target as it saw it, "conflict" if it must not.
SameValue(t, d) == t.receipt # "NONE" /\ t.amount = d.amount

Created(d) == [receipt |-> IF d.received THEN "RECEIVED" ELSE "PENDING",
               amount |-> d.amount, version |-> d.version]

Immutable(c) == target[c].receipt = "RECEIVED" \/ Scanned(c)

Replay(c, d) == SameValue(target[c], d) /\ (d.received \/ target[c].version = d.version)

\* The read of an import: one draft that conflicts refuses the whole of it.
ImportRead(drafts) ==
    /\ import = NoImport
    /\ \A c \in DOMAIN drafts :
          Immutable(c) => Replay(c, drafts[c])
    /\ import' = [drafts |-> drafts, seen |-> target]
    /\ UNCHANGED <<target, evidence, results, cases, outbox>>

\* The columns an import sets.  It decided on the row it saw; the columns it
\* does not set keep the value they have by now.
Written(c) ==
    LET d == import.drafts[c]
        seen == import.seen[c]
    IN  IF seen.receipt = "NONE" THEN Created(d)
        ELSE [receipt |-> IF d.received THEN "RECEIVED" ELSE target[c].receipt,
              amount  |-> IF seen.amount = d.amount THEN target[c].amount ELSE d.amount,
              version |-> IF seen.version = d.version THEN target[c].version ELSE d.version]

ImportWrite ==
    /\ import # NoImport
    /\ target' = [c \in Company |-> IF c \in DOMAIN import.drafts THEN Written(c)
                                    ELSE target[c]]
    /\ import' = NoImport
    /\ UNCHANGED <<evidence, results, cases, outbox>>

Pending == {c \in Company : target[c].receipt = "PENDING"}

\* Mutant: a month may mix evidence batches.
MutComplete(b, m) == evidence[b].through >= m

\* The batch covers the month and every pending company, and the month has
\* not been scanned with another batch.
Complete(b, m) ==
    /\ evidence[b].through >= m
    /\ Pending \subseteq evidence[b].companies
    /\ \A c \in Company : results[c][m] # NoResult => results[c][m].batch = b

\* Mutant: a received target is scanned again.
MutToScan(m) == {c \in Company : target[c].receipt # "NONE" /\ results[c][m] = NoResult}

ToScan(m) == {c \in Pending : results[c][m] = NoResult}

\* Mutant: the case gets the account status of the match for its direction.
MutDirection(result) ==
    IF result.account \in {"WRONG_ACCOUNT", "AMBIGUOUS"} THEN result.account ELSE "NONE"

Direction(result) ==
    IF result.account = "WRONG_ACCOUNT" THEN "REFUND_BOOKED_TO_WRONG_ACCOUNT"
    ELSE IF result.account = "AMBIGUOUS" THEN "AMBIGUOUS_REFUND_MATCH"
    ELSE "NONE"

\* Mutant: an ambiguous match opens no case.
MutOpenCase(c, result) ==
    IF cases[c] = "NONE" /\ result.account = "WRONG_ACCOUNT" THEN Direction(result) ELSE cases[c]

\* An alert opens the case of its company; an open one is left as it is.
OpenCase(c, result) == IF cases[c] = "NONE" THEN Direction(result) ELSE cases[c]

\* Mutant: a repeated receipt, also a manual one, is written back.
MutWriteback(scanned) == {c \in scanned : target'[c].receipt = "RECEIVED"} \cup
                         {c \in Company : target[c].receipt = "RECEIVED"}

\* The receipts of this scan.
Writeback(scanned) == {c \in scanned : target'[c].receipt = "RECEIVED"}

Scan(b, m) ==
    /\ Complete(b, m)
    /\ LET scanned == ToScan(m)
       IN  /\ results' = [c \in Company |->
                             IF c \in scanned THEN [results[c] EXCEPT ![m] = Evaluate(c, b, m)]
                             ELSE results[c]]
           /\ target' = [c \in Company |->
                            IF c \in scanned /\ results'[c][m].receipt = "RECEIVED"
                            THEN [target[c] EXCEPT !.receipt = "RECEIVED"] ELSE target[c]]
           /\ cases' = [c \in Company |->
                           IF c \in scanned THEN OpenCase(c, results'[c][m]) ELSE cases[c]]
           /\ outbox' = outbox \cup Writeback(scanned)
    /\ UNCHANGED <<evidence, import>>

-----------------------------------------------------------------------------
(* What is shown of a month.                                               *)

\* Mutant: the first result counts.
MutLatest(c, m) ==
    LET until == {n \in Month : n <= m /\ results[c][n] # NoResult}
    IN  IF until = {} THEN 0 ELSE CHOOSE n \in until : \A k \in until : n <= k

\* The last month until m that has a result for c, 0 for none.
Latest(c, m) ==
    LET until == {n \in Month : n <= m /\ results[c][n] # NoResult}
    IN  IF until = {} THEN 0 ELSE CHOOSE n \in until : \A k \in until : n >= k

\* Where a company is listed for a month.  A receipt that no scan until then has
\* found is shown as one recorded by hand.
ListedAs(c, m) ==
    LET n == Latest(c, m)
        found == n # 0 /\ results[c][n].receipt = "RECEIVED"
    IN  IF target[c].receipt = "RECEIVED" /\ ~found THEN "RECEIVED_BY_HAND"
        ELSE IF found THEN "RECEIVED"
        ELSE IF n # 0 /\ n = m THEN results[c][n].receipt
        ELSE "ABSENT"

Drafts == UNION {[S -> Draft] : S \in (SUBSET Company) \ {{}}}

Next ==
    \/ \E b \in Batch, m \in Month :
          \/ Scan(b, m)
          \/ \E companies \in SUBSET Company, lines \in SUBSET Line :
                ImportEvidence(b, m, companies, lines)
    \/ \E drafts \in Drafts : ImportRead(drafts)
    \/ ImportWrite

Spec == Init /\ [][Next]_vars

-----------------------------------------------------------------------------
(* What the check guarantees.                                              *)

TypeOK ==
    /\ target \in [Company -> Target \cup {NoTarget}]
    /\ \A b \in Batch : /\ evidence[b].through \in Month \cup {0}
                        /\ evidence[b].companies \subseteq Company
                        /\ evidence[b].lines \subseteq Line
    /\ \A c \in Company, m \in Month :
          results[c][m] = NoResult \/ /\ results[c][m].receipt \in {"NOT_RECEIVED", "RECEIVED", "AMBIGUOUS"}
                                      /\ results[c][m].batch \in Batch
                                      /\ results[c][m].expected \in Amount
    /\ cases \in [Company -> {"NONE", "REFUND_BOOKED_TO_WRONG_ACCOUNT", "AMBIGUOUS_REFUND_MATCH"}]
    /\ outbox \subseteq Company

\* A company is written back exactly when a scan found its refund: never for a
\* receipt recorded by hand, and never twice, because only one scan finds it.
OutboxMatchesReceipts ==
    /\ \A c \in Company :
          c \in outbox <=> \E m \in Month : results[c][m].receipt = "RECEIVED"
    /\ \A c \in Company : Cardinality({m \in Month : results[c][m].receipt = "RECEIVED"}) <= 1
    /\ \A c \in outbox : target[c].receipt = "RECEIVED"

\* All results of a month come from one batch, which was complete for each of
\* their companies, in whatever order months are scanned and targets imported.
MonthHasOneBatch ==
    \A m \in Month, c, d \in Company :
        results[c][m] # NoResult =>
            /\ c \in evidence[results[c][m].batch].companies
            /\ results[d][m] # NoResult => results[d][m].batch = results[c][m].batch

\* A result that raises an alert has a case behind it.
AlertHasCase ==
    \A c \in Company :
        (\E m \in Month : Direction(results[c][m]) # "NONE") <=> cases[c] # "NONE"

\* A company that a month was scanned for is listed for it, and it is listed as
\* received, for every month, exactly when its target is
\* (income_tax_refunds.py:748).
ListingAgrees ==
    \A c \in Company, m \in Month :
        /\ results[c][m] # NoResult => ListedAs(c, m) # "ABSENT"
        /\ ListedAs(c, m) \in {"RECEIVED", "RECEIVED_BY_HAND"} <=> target[c].receipt = "RECEIVED"

\* What a scan books in one place agrees with what it books in the others:
\* results with targets and outbox, evidence, cases and the lists shown.
ScanSound ==
    TypeOK /\ OutboxMatchesReceipts /\ MonthHasOneBatch /\ AlertHasCase /\ ListingAgrees

\* "a scanned or received refund target cannot be changed": its results and
\* its writeback were decided on the amount it has.
ScannedTargetFrozen ==
    \A c \in Company, m \in Month :
        results[c][m] # NoResult => results[c][m].expected = target[c].amount

\* A received refund stays received, and no later scan looks at it again.
ReceiptStops ==
    [][\A c \in Company : target[c].receipt = "RECEIVED" =>
          target'[c].receipt = "RECEIVED" /\ results'[c] = results[c]]_vars

\* A refund that its newest scanned month finds uniquely on a wrong account has
\* a wrong-account risk, whatever earlier months found
\* (income_tax_refunds.py:610).
WrongAccountHasRisk ==
    \A c \in Company, m \in Month :
        /\ results[c][m].account = "WRONG_ACCOUNT"
        /\ \A n \in Month : n > m => results[c][n] = NoResult
        => cases[c] = "REFUND_BOOKED_TO_WRONG_ACCOUNT"
=============================================================================
