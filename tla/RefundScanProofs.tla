--------------------------- MODULE RefundScanProofs ---------------------------
(***************************************************************************)
(* Proofs about RefundScan, for any companies, months, lines, evidence     *)
(* batches, amounts and versions of the ledger, and about RefundBook, for  *)
(* any workbooks, years, companies, permits and roundings.                 *)
(***************************************************************************)
EXTENDS RefundScan, RefundBook, FiniteSetTheorems, WellFoundedInduction, TLAPS

-----------------------------------------------------------------------------
(* The shape of the state.                                                 *)

Results == [receipt : {"NOT_RECEIVED", "RECEIVED", "AMBIGUOUS"},
            account : {"NOT_APPLICABLE", "AMBIGUOUS", "CORRECT", "WRONG_ACCOUNT"},
            batch : Batch, expected : Amount]

Evidence == [through : Month \cup {0}, companies : SUBSET Company, lines : SUBSET Line]

Directions == {"NONE", "REFUND_BOOKED_TO_WRONG_ACCOUNT", "AMBIGUOUS_REFUND_MATCH"}

\* An import under way knows which targets there are: only imports create them,
\* and there is one at a time.
ImportInformed ==
    \/ import = NoImport
    \/ /\ \E S \in SUBSET Company : import.drafts \in [S -> Draft]
       /\ import.seen \in [Company -> Target \cup {NoTarget}]
       /\ \A c \in Company : import.seen[c].receipt = "NONE" <=> target[c].receipt = "NONE"

Shape ==
    /\ target \in [Company -> Target \cup {NoTarget}]
    /\ evidence \in [Batch -> Evidence]
    /\ results \in [Company -> [Month -> Results \cup {NoResult}]]
    /\ cases \in [Company -> Directions]
    /\ outbox \in SUBSET Company
    /\ ImportInformed

\* What the scan evaluates a pending target to is a result of its batch.
LEMMA EvaluateType ==
    ASSUME Shape, NEW c \in Pending, NEW b \in Batch, NEW m \in Month
    PROVE  /\ Evaluate(c, b, m) \in Results
           /\ Evaluate(c, b, m).batch = b
<1>1. target[c].amount \in Amount
    BY DEF Shape, Pending, Target, NoTarget
<1> HIDE DEF Shape
<1> QED
    BY <1>1 DEF Evaluate, Result, Results

\* Results and their absence differ.
LEMMA ResultPresent == NoResult \notin Results
    BY DEF NoResult, Results

\* The state a scan leaves, and which companies it is about.
LEMMA ScanShape ==
    ASSUME Shape, NEW b \in Batch, NEW m \in Month, Scan(b, m)
    PROVE  /\ Shape'
           /\ \A c \in Company, n \in Month :
                  results'[c][n] = IF c \in ToScan(m) /\ n = m THEN Evaluate(c, b, m)
                                   ELSE results[c][n]
           /\ \A c \in Company :
                  target'[c].receipt = IF c \in ToScan(m) /\ results'[c][m].receipt = "RECEIVED"
                                       THEN "RECEIVED" ELSE target[c].receipt
<1>0. ToScan(m) \subseteq Pending /\ Pending \subseteq Company
    BY DEF ToScan, Pending
<1>1. results' = [c \in Company |->
                     IF c \in ToScan(m) THEN [results[c] EXCEPT ![m] = Evaluate(c, b, m)]
                     ELSE results[c]]
    BY DEF Scan
<1>2. \A c \in Company : results[c] \in [Month -> Results \cup {NoResult}]
    BY DEF Shape
<1>3. results' \in [Company -> [Month -> Results \cup {NoResult}]]
    BY <1>0, <1>1, <1>2, EvaluateType
<1>4. \A c \in Company, n \in Month :
          results'[c][n] = IF c \in ToScan(m) /\ n = m THEN Evaluate(c, b, m) ELSE results[c][n]
    BY <1>1, <1>2
<1>5. target' = [c \in Company |->
                    IF c \in ToScan(m) /\ results'[c][m].receipt = "RECEIVED"
                    THEN [target[c] EXCEPT !.receipt = "RECEIVED"] ELSE target[c]]
    BY DEF Scan
<1>6. \A c \in Pending : target[c] \in Target
    BY DEF Shape, Pending, NoTarget
<1>7. \A c \in Pending : /\ [target[c] EXCEPT !.receipt = "RECEIVED"] \in Target
                         /\ [target[c] EXCEPT !.receipt = "RECEIVED"].receipt = "RECEIVED"
    BY <1>6 DEF Target
<1>8. target' \in [Company -> Target \cup {NoTarget}]
    BY <1>0, <1>5, <1>7 DEF Shape
<1>9. \A c \in Company :
          target'[c].receipt = IF c \in ToScan(m) /\ results'[c][m].receipt = "RECEIVED"
                               THEN "RECEIVED" ELSE target[c].receipt
    BY <1>0, <1>5, <1>7
<1>10. cases' \in [Company -> Directions] /\ outbox' \in SUBSET Company
  <2>1. \A c \in Company : OpenCase(c, results'[c][m]) \in Directions
    BY DEF Shape, OpenCase, Direction, Directions
  <2>2. cases' = [c \in Company |->
                     IF c \in ToScan(m) THEN OpenCase(c, results'[c][m]) ELSE cases[c]]
    BY DEF Scan
  <2>3. outbox' = outbox \cup Writeback(ToScan(m))
    BY DEF Scan
  <2> QED
    BY <1>0, <2>1, <2>2, <2>3 DEF Shape, Writeback
<1>11. ImportInformed'
  <2>1. \A c \in Company : target'[c].receipt = "NONE" <=> target[c].receipt = "NONE"
    BY <1>0, <1>9 DEF Pending
  <2>2. import' = import
    BY DEF Scan
  <2> QED
    BY <2>1, <2>2 DEF Shape, ImportInformed
<1>12. evidence' = evidence
    BY DEF Scan
<1> QED
    BY <1>3, <1>4, <1>8, <1>9, <1>10, <1>11, <1>12 DEF Shape

\* The columns an import writes make a target of the row as it is by then, and
\* they take no receipt back.
LEMMA WriteShape ==
    ASSUME Shape, ImportWrite
    PROVE  /\ Shape'
           /\ \A c \in Company : target[c].receipt = "RECEIVED" => target'[c].receipt = "RECEIVED"
<1>1. PICK S \in SUBSET Company : import.drafts \in [S -> Draft]
    BY DEF Shape, ImportWrite, ImportInformed
<1>2. \A c \in Company : import.seen[c].receipt = "NONE" <=> target[c].receipt = "NONE"
    BY DEF Shape, ImportWrite, ImportInformed
<1>3. target' = [c \in Company |-> IF c \in DOMAIN import.drafts THEN Written(c) ELSE target[c]]
    BY DEF ImportWrite
<1>4. ASSUME NEW c \in S
      PROVE  Written(c) \in Target /\ (target[c].receipt = "RECEIVED" => Written(c).receipt = "RECEIVED")
  <2> DEFINE d == import.drafts[c]
  <2>1. d \in Draft
    BY <1>1
  <2>2. CASE import.seen[c].receipt = "NONE"
    <3>1. target[c].receipt = "NONE" /\ Written(c) = Created(d)
        BY <1>2, <2>2 DEF Written
    <3> QED
        BY <2>1, <3>1 DEF Created, Draft, Target
  <2>3. CASE import.seen[c].receipt # "NONE"
    <3>1. target[c] \in Target
        BY <1>2, <2>3 DEF Shape, NoTarget
    <3>2. Written(c) =
              [receipt |-> IF d.received THEN "RECEIVED" ELSE target[c].receipt,
               amount  |-> IF import.seen[c].amount = d.amount THEN target[c].amount ELSE d.amount,
               version |-> IF import.seen[c].version = d.version THEN target[c].version ELSE d.version]
        BY <2>3 DEF Written
    <3> HIDE DEF d
    <3> QED
        BY <2>1, <3>1, <3>2 DEF Target, Draft
  <2> QED
    BY <2>2, <2>3
<1>5. DOMAIN import.drafts = S
    BY <1>1
<1>6. target' \in [Company -> Target \cup {NoTarget}]
    BY <1>3, <1>4, <1>5 DEF Shape
<1>7. \A c \in Company : target[c].receipt = "RECEIVED" => target'[c].receipt = "RECEIVED"
    BY <1>3, <1>4, <1>5
<1>8. import' = NoImport /\ UNCHANGED <<evidence, results, cases, outbox>>
    BY DEF ImportWrite
<1> QED
    BY <1>6, <1>7, <1>8 DEF Shape, ImportInformed

\* An import that begins has seen the targets there are.
LEMMA ReadShape ==
    ASSUME Shape, NEW drafts \in Drafts, ImportRead(drafts)
    PROVE  Shape'
<1>1. import' = [drafts |-> drafts, seen |-> target] /\ target' = target
    BY DEF ImportRead
<1>2. \E S \in SUBSET Company : drafts \in [S -> Draft]
    BY DEF Drafts
<1>3. ImportInformed'
    BY <1>1, <1>2 DEF Shape, ImportInformed
<1> QED
    BY <1>3 DEF Shape, ImportRead

\* Evidence is imported for a key that has none, and stays.
LEMMA EvidenceShape ==
    ASSUME Shape, NEW b \in Batch, NEW m \in Month, NEW companies \in SUBSET Company,
           NEW lines \in SUBSET Line, ImportEvidence(b, m, companies, lines)
    PROVE  /\ Shape'
           /\ \A a \in Batch : evidence[a].companies # {} => evidence'[a] = evidence[a]
<1>1. evidence' = [evidence EXCEPT ![b] =
                      [through |-> m, companies |-> companies, lines |-> lines]]
    BY DEF ImportEvidence
<1>2. evidence[b].companies = {}
    BY DEF ImportEvidence, NoEvidence
<1>3. evidence' \in [Batch -> Evidence]
    BY <1>1 DEF Shape, Evidence
<1>4. \A a \in Batch : evidence[a].companies # {} => evidence'[a] = evidence[a]
    BY <1>1, <1>2 DEF Shape
<1>5. UNCHANGED <<target, results, cases, outbox, import>>
    BY DEF ImportEvidence
<1> QED
    BY <1>3, <1>4, <1>5 DEF Shape, ImportInformed

-----------------------------------------------------------------------------
(* Results, receipts and cases.                                            *)

Receipt(c, m) == results[c][m].receipt = "RECEIVED"

\* The parts of OutboxMatchesReceipts without counting.
ReceiptsAgree ==
    /\ \A c \in Company : c \in outbox <=> \E m \in Month : Receipt(c, m)
    /\ \A c \in Company, m, n \in Month : Receipt(c, m) /\ Receipt(c, n) => m = n
    /\ \A c \in outbox : target[c].receipt = "RECEIVED"

ScanInvariant == Shape /\ ReceiptsAgree /\ MonthHasOneBatch /\ AlertHasCase

LEMMA InitInvariant == Init => ScanInvariant
<1> SUFFICES ASSUME Init PROVE ScanInvariant
    OBVIOUS
<1>1. \A c \in Company, m \in Month : results[c][m] = NoResult
    BY DEF Init
<1>2. Shape
  <2>1. NoEvidence \in Evidence
    BY DEF NoEvidence, Evidence
  <2> QED
    BY <2>1 DEF Init, Shape, ImportInformed, Directions
<1>3. ReceiptsAgree /\ MonthHasOneBatch
    BY <1>1 DEF Init, ReceiptsAgree, Receipt, MonthHasOneBatch, NoResult
<1>4. AlertHasCase
    BY <1>1 DEF Init, AlertHasCase, Direction, NoResult
<1> QED
    BY <1>2, <1>3, <1>4 DEF ScanInvariant

\* A scan finds at most one receipt of a company, and stops with it.
LEMMA ScanReceipts ==
    ASSUME ScanInvariant, NEW b \in Batch, NEW m \in Month, Scan(b, m)
    PROVE  ReceiptsAgree'
<1>1. \A c \in Company, n \in Month :
          results'[c][n] = IF c \in ToScan(m) /\ n = m THEN Evaluate(c, b, m) ELSE results[c][n]
    BY ScanShape DEF ScanInvariant
<1>2. \A c \in Company :
          target'[c].receipt = IF c \in ToScan(m) /\ results'[c][m].receipt = "RECEIVED"
                               THEN "RECEIVED" ELSE target[c].receipt
    BY ScanShape DEF ScanInvariant
<1>3. \A c \in ToScan(m) : c \in Company /\ target[c].receipt = "PENDING"
    BY DEF ToScan, Pending
<1>4. \A c \in ToScan(m), n \in Month : ~Receipt(c, n)
    BY <1>3 DEF ScanInvariant, ReceiptsAgree
<1>5. \A c \in Company, n \in Month :
          Receipt(c, n)' <=> Receipt(c, n) \/ (c \in ToScan(m) /\ n = m /\ Receipt(c, m)')
    BY <1>1, <1>4 DEF Receipt
<1>6. \A c \in Company : c \in outbox' <=> c \in outbox \/ (c \in ToScan(m) /\ Receipt(c, m)')
    BY <1>2, <1>3 DEF Scan, Writeback, Receipt
<1>7. \A c \in outbox' : target'[c].receipt = "RECEIVED"
    BY <1>2, <1>3, <1>6, ScanShape DEF ScanInvariant, ReceiptsAgree, Receipt, Shape
<1> HIDE DEF Receipt
<1>8. \A c \in Company : c \in outbox' <=> \E n \in Month : Receipt(c, n)'
    BY <1>5, <1>6 DEF ScanInvariant, ReceiptsAgree
<1>9. \A c \in Company, k, n \in Month : Receipt(c, k)' /\ Receipt(c, n)' => k = n
    BY <1>4, <1>5 DEF ScanInvariant, ReceiptsAgree
<1> QED
    BY <1>7, <1>8, <1>9 DEF ReceiptsAgree

\* The results of a scan are of the batch that those of its month are of.
LEMMA ScanBatches ==
    ASSUME ScanInvariant, NEW b \in Batch, NEW m \in Month, Scan(b, m)
    PROVE  MonthHasOneBatch'
<1>1. \A c \in Company, n \in Month :
          results'[c][n] = IF c \in ToScan(m) /\ n = m THEN Evaluate(c, b, m) ELSE results[c][n]
    BY ScanShape DEF ScanInvariant
<1>2. \A c \in ToScan(m) : c \in evidence[b].companies /\ Evaluate(c, b, m).batch = b
    BY EvaluateType DEF ScanInvariant, ToScan, Scan, Complete
<1>3. \A c \in Company : results[c][m] # NoResult => results[c][m].batch = b
    BY DEF Scan, Complete
<1>4. evidence' = evidence
    BY DEF Scan
<1> QED
    BY <1>1, <1>2, <1>3, <1>4 DEF ScanInvariant, MonthHasOneBatch

\* A scan opens a case for an alert, unless there is one.
LEMMA ScanCases ==
    ASSUME ScanInvariant, NEW b \in Batch, NEW m \in Month, Scan(b, m)
    PROVE  AlertHasCase'
<1> DEFINE Alert(c, n) == Direction(results[c][n]) # "NONE"
<1>1. \A c \in Company, n \in Month :
          results'[c][n] = IF c \in ToScan(m) /\ n = m THEN Evaluate(c, b, m) ELSE results[c][n]
    BY ScanShape DEF ScanInvariant
<1>2. \A c \in ToScan(m) : ~Alert(c, m)
    BY DEF ToScan, Direction, NoResult
<1>3. \A c \in Company, n \in Month :
          Alert(c, n)' <=> Alert(c, n) \/ (c \in ToScan(m) /\ n = m /\ Alert(c, m)')
    BY <1>1, <1>2
<1>4. \A c \in Company : cases'[c] # "NONE" <=> cases[c] # "NONE" \/ (c \in ToScan(m) /\ Alert(c, m)')
    BY DEF Scan, OpenCase, Direction
<1>5. \A c \in Company : (\E n \in Month : Alert(c, n)) <=> cases[c] # "NONE"
    BY DEF ScanInvariant, AlertHasCase
<1> HIDE DEF Alert
<1>6. \A c \in Company : (\E n \in Month : Alert(c, n)') <=> cases'[c] # "NONE"
    BY <1>3, <1>4, <1>5
<1> QED
    BY <1>6 DEF AlertHasCase, Alert

LEMMA NextInvariant == ScanInvariant /\ [Next]_vars => ScanInvariant'
<1> SUFFICES ASSUME ScanInvariant, [Next]_vars PROVE ScanInvariant'
    OBVIOUS
<1>1. ASSUME NEW b \in Batch, NEW m \in Month, Scan(b, m) PROVE ScanInvariant'
    BY <1>1, ScanShape, ScanReceipts, ScanBatches, ScanCases DEF ScanInvariant
<1>2. ASSUME NEW b \in Batch, NEW m \in Month, NEW companies \in SUBSET Company,
             NEW lines \in SUBSET Line, ImportEvidence(b, m, companies, lines)
      PROVE  ScanInvariant'
  <2>1. Shape' /\ \A a \in Batch : evidence[a].companies # {} => evidence'[a] = evidence[a]
    BY <1>2, EvidenceShape DEF ScanInvariant
  <2>2. UNCHANGED <<target, results, cases, outbox>>
    BY <1>2 DEF ImportEvidence
  <2>3. \A c \in Company, n \in Month : results[c][n] # NoResult => results[c][n].batch \in Batch
    BY DEF ScanInvariant, Shape, Results
  <2>4. MonthHasOneBatch'
    BY <2>1, <2>2, <2>3 DEF ScanInvariant, MonthHasOneBatch
  <2> QED
    BY <2>1, <2>2, <2>4 DEF ScanInvariant, ReceiptsAgree, Receipt, AlertHasCase
<1>3. ASSUME NEW drafts \in Drafts, ImportRead(drafts) PROVE ScanInvariant'
  <2>1. Shape' /\ UNCHANGED <<target, evidence, results, cases, outbox>>
    BY <1>3, ReadShape DEF ScanInvariant, ImportRead
  <2> QED
    BY <2>1 DEF ScanInvariant, ReceiptsAgree, Receipt, MonthHasOneBatch, AlertHasCase
<1>4. ASSUME ImportWrite PROVE ScanInvariant'
  <2>1. /\ Shape' /\ UNCHANGED <<evidence, results, cases, outbox>>
        /\ \A c \in Company : target[c].receipt = "RECEIVED" => target'[c].receipt = "RECEIVED"
    BY <1>4, WriteShape DEF ScanInvariant, ImportWrite
  <2>2. ReceiptsAgree'
    BY <2>1 DEF ScanInvariant, Shape, ReceiptsAgree, Receipt
  <2> QED
    BY <2>1, <2>2 DEF ScanInvariant, MonthHasOneBatch, AlertHasCase
<1>5. CASE UNCHANGED vars
  <2>1. UNCHANGED <<target, evidence, results, cases, outbox, import>>
    BY <1>5 DEF vars
  <2>2. Shape'
    BY <2>1 DEF ScanInvariant, Shape, ImportInformed
  <2> QED
    BY <2>1, <2>2 DEF ScanInvariant, ReceiptsAgree, Receipt, MonthHasOneBatch, AlertHasCase
<1> QED
    BY <1>1, <1>2, <1>3, <1>4, <1>5 DEF Next

-----------------------------------------------------------------------------
(* What follows for the month that is shown.                               *)

\* A set of months that is not empty has a last one.
LEMMA LastMonth ==
    ASSUME NEW S \in SUBSET Month, S # {}
    PROVE  \E n \in S : \A k \in S : n >= k
<1>1. \A n \in S : n \in 3 .. 12
    BY MonthAssumption
<1>2. \A n \in 3 .. 12 : n \in {3, 4, 5, 6, 7, 8, 9, 10, 11, 12}
    OBVIOUS
<1> QED
    BY <1>1, <1>2

\* Latest gives the last month that has a result.
LEMMA LatestIsLast ==
    ASSUME NEW c \in Company, NEW m \in Month, NEW k \in Month, k <= m, results[c][k] # NoResult
    PROVE  /\ Latest(c, m) \in Month /\ Latest(c, m) <= m /\ Latest(c, m) >= k
           /\ results[c][Latest(c, m)] # NoResult
<1> DEFINE until == {n \in Month : n <= m /\ results[c][n] # NoResult}
<1>1. until # {} /\ k \in until /\ until \in SUBSET Month
    OBVIOUS
<1>2. Latest(c, m) = CHOOSE n \in until : \A x \in until : n >= x
    BY <1>1 DEF Latest
<1>3. \E n \in until : \A x \in until : n >= x
    BY <1>1, LastMonth
<1> HIDE DEF until
<1>4. Latest(c, m) \in until /\ \A x \in until : Latest(c, m) >= x
    BY <1>2, <1>3
<1> QED
    BY <1>1, <1>4 DEF until

\* Where there is no result yet there is no last one.
LEMMA LatestIsMonth ==
    ASSUME NEW c \in Company, NEW m \in Month, Latest(c, m) # 0
    PROVE  Latest(c, m) \in Month /\ results[c][Latest(c, m)] # NoResult
<1> DEFINE until == {n \in Month : n <= m /\ results[c][n] # NoResult}
<1>1. until # {}
    BY DEF Latest
<1>2. PICK k \in Month : k <= m /\ results[c][k] # NoResult
    BY <1>1
<1> QED
    BY <1>2, LatestIsLast

LEMMA InvariantListing == ScanInvariant => ListingAgrees
<1> SUFFICES ASSUME ScanInvariant, NEW c \in Company, NEW m \in Month
             PROVE  /\ results[c][m] # NoResult => ListedAs(c, m) # "ABSENT"
                    /\ ListedAs(c, m) \in {"RECEIVED", "RECEIVED_BY_HAND"} <=> target[c].receipt = "RECEIVED"
    BY DEF ListingAgrees
<1> DEFINE n == Latest(c, m)
           found == n # 0 /\ results[c][n].receipt = "RECEIVED"
<1>1. n # 0 => n \in Month /\ results[c][n].receipt \in {"NOT_RECEIVED", "RECEIVED", "AMBIGUOUS"}
    BY LatestIsMonth DEF ScanInvariant, Shape, Results
<1>2. found => target[c].receipt = "RECEIVED"
    BY <1>1 DEF ScanInvariant, ReceiptsAgree, Receipt
<1>3. m \in 3 .. 12
    BY MonthAssumption
<1>4. ASSUME results[c][m] # NoResult PROVE n = m
  <2>1. m <= m
    BY <1>3
  <2>2. n \in Month /\ n <= m /\ n >= m
    BY <1>4, <2>1, LatestIsLast
  <2>3. n \in 3 .. 12
    BY <2>2, MonthAssumption
  <2> HIDE DEF n
  <2> QED
    BY <1>3, <2>2, <2>3
<1>5. ListedAs(c, m) = IF target[c].receipt = "RECEIVED" /\ ~found THEN "RECEIVED_BY_HAND"
                       ELSE IF found THEN "RECEIVED"
                       ELSE IF n # 0 /\ n = m THEN results[c][n].receipt
                       ELSE "ABSENT"
    BY DEF ListedAs
<1>6. m # 0
    BY <1>3
<1> HIDE DEF n
<1> QED
    BY <1>1, <1>2, <1>4, <1>5, <1>6

\* At most one month is at most one element.
LEMMA InvariantReceipts == ScanInvariant => OutboxMatchesReceipts
<1> SUFFICES ASSUME ScanInvariant, NEW c \in Company
             PROVE  Cardinality({m \in Month : results[c][m].receipt = "RECEIVED"}) <= 1
    BY DEF ScanInvariant, ReceiptsAgree, Receipt, OutboxMatchesReceipts
<1> DEFINE S == {m \in Month : results[c][m].receipt = "RECEIVED"}
<1>1. \A m, n \in S : m = n
    BY DEF ScanInvariant, ReceiptsAgree, Receipt
<1>2. CASE S = {}
    BY <1>2, FS_EmptySet
<1>3. ASSUME NEW m \in S PROVE Cardinality(S) <= 1
  <2>1. S = {m}
    BY <1>1, <1>3
  <2>2. Cardinality({m}) = 1
    BY FS_Singleton
  <2> HIDE DEF S
  <2> QED
    BY <2>1, <2>2
<1> QED
    BY <1>2, <1>3

LEMMA InvariantType == ScanInvariant => TypeOK
    BY DEF ScanInvariant, Shape, TypeOK, Evidence, Results, Directions

\* No step takes a receipt back or scans a received refund again.
LEMMA NextStops ==
    ScanInvariant /\ [Next]_vars =>
        \A c \in Company : target[c].receipt = "RECEIVED" =>
            target'[c].receipt = "RECEIVED" /\ results'[c] = results[c]
<1> SUFFICES ASSUME ScanInvariant, [Next]_vars, NEW c \in Company, target[c].receipt = "RECEIVED"
             PROVE  target'[c].receipt = "RECEIVED" /\ results'[c] = results[c]
    OBVIOUS
<1>1. ASSUME NEW b \in Batch, NEW m \in Month, Scan(b, m)
      PROVE  target'[c].receipt = "RECEIVED" /\ results'[c] = results[c]
  <2>1. c \notin ToScan(m)
    BY DEF ToScan, Pending
  <2> QED
    BY <1>1, <2>1 DEF Scan
<1>2. ASSUME NEW b \in Batch, NEW m \in Month, NEW companies, NEW lines,
             ImportEvidence(b, m, companies, lines)
      PROVE  target'[c].receipt = "RECEIVED" /\ results'[c] = results[c]
    BY <1>2 DEF ImportEvidence
<1>3. ASSUME NEW drafts, ImportRead(drafts)
      PROVE  target'[c].receipt = "RECEIVED" /\ results'[c] = results[c]
    BY <1>3 DEF ImportRead
<1>4. ASSUME ImportWrite PROVE target'[c].receipt = "RECEIVED" /\ results'[c] = results[c]
  <2>1. target'[c].receipt = "RECEIVED"
    BY <1>4, WriteShape DEF ScanInvariant
  <2> QED
    BY <1>4, <2>1 DEF ImportWrite
<1>5. CASE UNCHANGED vars
    BY <1>5 DEF vars
<1> QED
    BY <1>1, <1>2, <1>3, <1>4, <1>5 DEF Next

\* The state of the check stays well formed.
THEOREM TypeCorrect == Spec => []TypeOK
<1>1. Init => ScanInvariant
    BY InitInvariant
<1>2. ScanInvariant /\ [Next]_vars => ScanInvariant'
    BY NextInvariant
<1>3. ScanInvariant => TypeOK
    BY InvariantType
<1> QED
    BY <1>1, <1>2, <1>3, PTL DEF Spec

\* Results, receipts, writebacks, evidence batches, cases and lists agree with
\* each other, in whatever order targets and evidence come and months are scanned.
THEOREM ScansAreSound == Spec => []ScanSound
<1>1. Init => ScanInvariant
    BY InitInvariant
<1>2. ScanInvariant /\ [Next]_vars => ScanInvariant'
    BY NextInvariant
<1>3. ScanInvariant => ScanSound
    BY InvariantType, InvariantReceipts, InvariantListing DEF ScanSound, ScanInvariant
<1> QED
    BY <1>1, <1>2, <1>3, PTL DEF Spec

\* A refund that was received, by whatever way, stays received, and no scan
\* looks at it again.
THEOREM ReceiptsStop == Spec => ReceiptStops
<1> DEFINE Stopped == \A c \in Company : target[c].receipt = "RECEIVED" =>
                          target'[c].receipt = "RECEIVED" /\ results'[c] = results[c]
<1>1. Init => ScanInvariant
    BY InitInvariant
<1>2. ScanInvariant /\ [Next]_vars => ScanInvariant' /\ [Stopped]_vars
    BY NextInvariant, NextStops
<1>3. Spec => [][Stopped]_vars
    BY <1>1, <1>2, PTL DEF Spec
<1> QED
    BY <1>3 DEF ReceiptStops

-----------------------------------------------------------------------------
(* The refund workbook.                                                    *)

\* The least of some natural numbers is one of them.
LEMMA NaturalsHaveMin ==
    ASSUME NEW S \in SUBSET Nat, S # {}
    PROVE  Min(S) \in S
<1>1. PICK x \in S : \A y \in S : <<y, x>> \notin OpToRel(<, Nat)
    BY ONLY S \in SUBSET Nat, S # {}, NatLessThanWellFounded, WFMin
<1>2. \A y \in S : ~(y < x)
  <2> TAKE y \in S
  <2>1. <<y, x>> \in OpToRel(<, Nat) <=> y < x
      BY DEF OpToRel
  <2>2. <<y, x>> \notin OpToRel(<, Nat)
      BY <1>1
  <2> QED BY ONLY <2>1, <2>2
<1>3. \A y \in S : x =< y
    BY <1>2
<1> QED BY <1>3 DEF Min

LEMMA HalfGrain ==
    ASSUME NEW x \in Int, NEW z \in Int, NEW g \in Int, NEW r \in Int,
           2 * x + g = 2 * z + r, r >= 0, r <= 2 * g - 1
    PROVE  2 * (z - x) <= g /\ -2 * (z - x) <= g
<1>1. 2 * (z - x) = g - r
    OBVIOUS
<1>2. -2 * (z - x) = r - g
    OBVIOUS
<1> QED BY <1>1, <1>2

\* Rounding moves an amount by half a grain at most.
LEMMA NearestIsNear ==
    ASSUME NEW x \in Int, NEW g \in Nat \ {0}
    PROVE  /\ Nearest(x, g) \in Int
           /\ 2 * (Nearest(x, g) - x) <= g /\ -2 * (Nearest(x, g) - x) <= g
<1> DEFINE n == 2 * x + g
           d == 2 * g
           q == n \div d
           r == n % d
<1>1. n \in Int /\ d \in Int /\ d > 0
    OBVIOUS
<1>2. q \in Int /\ r \in 0 .. d - 1 /\ n = d * q + r
  <2> HIDE DEF n, d
  <2> QED BY <1>1
<1> HIDE DEF q, r
<1>3. d * q = 2 * (q * g) /\ q * g \in Int
    BY <1>2
<1> DEFINE z == q * g
<1>4. z \in Int /\ 2 * x + g = 2 * z + r /\ r >= 0 /\ r <= 2 * g - 1
    BY <1>2, <1>3
<1> HIDE DEF z
<1>5. 2 * (z - x) <= g /\ -2 * (z - x) <= g
    BY <1>2, <1>4, HalfGrain
<1>6. Nearest(x, g) = z
    BY DEF Nearest, z, q
<1> QED BY <1>4, <1>5, <1>6

LEMMA NearestIsNotNegative ==
    ASSUME NEW x \in Int, x > 0, NEW g \in Nat \ {0}
    PROVE  Nearest(x, g) >= 0
<1> DEFINE q == (2 * x + g) \div (2 * g)
<1>1. q \in Int /\ q >= 0
    OBVIOUS
<1> HIDE DEF q
<1>2. q * g >= 0
    BY <1>1
<1> QED BY <1>2 DEF Nearest, q

\* The two roundings of an amount together.
LEMMA BookedIsNear ==
    ASSUME NEW row, NEW y, row.amount[y] \in Int
    PROVE  LET off == Booked(row, y) - row.amount[y]
           IN /\ Booked(row, y) \in Int
              /\ 2 * off <= CentGrain + FloatGrain /\ -2 * off <= CentGrain + FloatGrain
<1> DEFINE x == row.amount[y]
           raw == RawAmount(row, y)
           booked == Nearest(raw, CentGrain)
<1>1. x \in Int /\ FloatGrain \in Nat \ {0} /\ CentGrain \in Nat \ {0}
    BY RefundBookAssumption
<1>2. raw \in Int /\ 2 * (raw - x) <= FloatGrain /\ -2 * (raw - x) <= FloatGrain
  <2>1. CASE row.cell = "number"
    <3>1. raw = Nearest(x, FloatGrain)
        BY <2>1 DEF RawAmount
    <3> HIDE DEF raw, x
    <3> QED BY <1>1, <3>1, NearestIsNear
  <2>2. CASE row.cell # "number"
    <3>1. raw = x
        BY <2>2 DEF RawAmount
    <3> HIDE DEF raw, x
    <3> QED BY <1>1, <3>1
  <2> QED BY <2>1, <2>2
<1> HIDE DEF raw, x
<1>3. booked \in Int /\ 2 * (booked - raw) <= CentGrain /\ -2 * (booked - raw) <= CentGrain
    BY <1>1, <1>2, NearestIsNear
<1>4. Booked(row, y) = booked
    BY DEF Booked, raw
<1> HIDE DEF booked
<1>5. 2 * (booked - x) <= CentGrain + FloatGrain /\ -2 * (booked - x) <= CentGrain + FloatGrain
    BY <1>1, <1>2, <1>3
<1> QED BY <1>3, <1>4, <1>5 DEF x

LEMMA RefundRowsTyped ==
    ASSUME NEW b \in RefundWorkbook, NEW y \in RefundYear, SheetsOf(b, y) # {}
    PROVE  LET rows == SheetRows(b, y)
           IN /\ Len(rows) \in Nat /\ DOMAIN rows = 1 .. Len(rows)
              /\ \A i \in DOMAIN rows : rows[i].blank \in BOOLEAN /\ rows[i].amount[y] \in Int
<1>1. IsRefundWorkbook(b)
    BY RefundBookAssumption
<1>2. DOMAIN b.sheets = 1 .. Len(b.sheets) /\ Len(b.sheets) \in Nat
    BY <1>1 DEF IsRefundWorkbook
<1> DEFINE n == Min(SheetsOf(b, y))
<1>3. n \in DOMAIN b.sheets
  <2>1. SheetsOf(b, y) \subseteq DOMAIN b.sheets /\ DOMAIN b.sheets \subseteq Nat
      BY <1>2 DEF SheetsOf
  <2> QED BY <2>1, NaturalsHaveMin
<1> HIDE DEF n
<1>4. IsRefundSheet(b.sheets[n])
    BY <1>1, <1>3 DEF IsRefundWorkbook
<1>5. SheetRows(b, y) = b.sheets[n].rows
    BY DEF SheetRows, n
<1>6. b.sheets[n].rows \in Seq({b.sheets[n].rows[i] : i \in DOMAIN b.sheets[n].rows})
    BY <1>4 DEF IsRefundSheet
<1> QED BY <1>4, <1>5, <1>6 DEF IsRefundSheet

\* Rows without errors: those that are due are whole, one for each company.
LEMMA RowsWithoutErrors ==
    ASSUME NEW b \in RefundWorkbook, NEW y \in RefundYear, SheetsOf(b, y) # {},
           RefundRowErrors(SheetRows(b, y), y) = {}
    PROVE  LET rows == SheetRows(b, y)
           IN /\ \A i \in DOMAIN rows : rows[i].blank \/ rows[i].involved[y] \in {"yes", "no"}
              /\ \A i, j \in Due(rows, y) : rows[i].company = rows[j].company => i = j
<1> DEFINE rows == SheetRows(b, y)
<1>1. DOMAIN rows \subseteq Int /\ \A i \in DOMAIN rows : rows[i].blank \in BOOLEAN
    BY RefundRowsTyped
<1>2. Unsure(rows, y) = {} /\ Twice(rows, y) = {} /\ \A i \in Due(rows, y) : Whole(rows[i], y)
    BY DEF RefundRowErrors
<1> HIDE DEF rows
<1>3. \A i \in DOMAIN rows : rows[i].blank \/ rows[i].involved[y] \in {"yes", "no"}
    BY <1>1, <1>2 DEF Unsure
<1>4. \A i, j \in Due(rows, y) : i < j => rows[i].company # rows[j].company
    BY <1>2 DEF Twice
<1>5. \A i, j \in Due(rows, y) : rows[i].company = rows[j].company => i = j
  <2>1. Due(rows, y) \subseteq Int
      BY <1>1 DEF Due
  <2> SUFFICES ASSUME NEW i \in Due(rows, y), NEW j \in Due(rows, y),
                      rows[i].company = rows[j].company, i # j
               PROVE  FALSE
      OBVIOUS
  <2>2. i < j \/ j < i
      BY <2>1
  <2> QED BY <1>4, <2>2
<1> QED BY <1>3, <1>5 DEF rows

-----------------------------------------------------------------------------

IsRefundTarget(t, y) ==
    \/ t = NoRefundTarget
    \/ /\ t = [receipt |-> t.receipt, key |-> t.key, amount |-> t.amount, version |-> t.version,
               book |-> t.book, scanned |-> t.scanned]
       /\ t.receipt \in {"PENDING", "RECEIVED"} /\ t.scanned \in BOOLEAN

\* A target is one row's of its workbook, all of whose rows are sure.
TargetTrue(t, y, c) ==
    LET rows == SheetRows(t.book, y)
    IN /\ \A i \in DOMAIN rows : rows[i].blank \/ rows[i].involved[y] \in {"yes", "no"}
       /\ \E i \in Due(rows, y) :
             /\ {k \in Due(rows, y) : rows[k].company = c} = {i}
             /\ 2 * (t.amount - rows[i].amount[y]) <= CentGrain + FloatGrain
             /\ -2 * (t.amount - rows[i].amount[y]) <= CentGrain + FloatGrain
             /\ t.amount > 0
             /\ rows[i].receipt = "received" => t.receipt = "RECEIVED"

UploaderState ==
    {AtRestUploader}
    \cup [pc : {"inside"}, book : RefundWorkbook, version : GivenVersion \cup RefundWorkbook,
          year : RefundYear]

RefundBookType ==
    /\ refundTarget \in [RefundYear -> [Taxpayer -> {refundTarget[y][c] : y \in RefundYear, c \in Taxpayer}]]
    /\ \A y \in RefundYear, c \in Taxpayer : IsRefundTarget(refundTarget[y][c], y)
    /\ uploaders \in [Uploader -> UploaderState]
    /\ permits \in Int

RefundBookInv ==
    /\ RefundBookType
    /\ \A y \in RefundYear, c \in Taxpayer : HasTarget(y, c) =>
           TargetTrue(refundTarget[y][c], y, c)
    /\ PermitsAccounted

LEMMA TargetStays ==
    ASSUME NEW t, NEW u, NEW y, NEW c, TargetTrue(t, y, c),
           u.book = t.book, u.amount = t.amount,
           t.receipt = "RECEIVED" => u.receipt = "RECEIVED"
    PROVE  TargetTrue(u, y, c)
BY DEF TargetTrue

\* A row that is due in a book without errors or conflicts makes a target.
LEMMA ImportedIsTrue ==
    ASSUME NEW b \in RefundWorkbook, NEW y \in RefundYear, NEW v, NEW c \in Taxpayer, NEW t,
           IsRefundTarget(t, y), SheetsOf(b, y) # {},
           RefundRowErrors(SheetRows(b, y), y) = {}, ~Conflicts(SheetRows(b, y), y, v),
           \E i \in Due(SheetRows(b, y), y) : SheetRows(b, y)[i].company = c
    PROVE  LET rows == SheetRows(b, y)
               i == RowOfTaxpayer(rows, y, c)
               new == Imported(t, rows[i], y, b, v)
           IN /\ i \in Due(rows, y) /\ rows[i].company = c
              /\ IsRefundTarget(new, y) /\ new # NoRefundTarget /\ new.receipt # "none"
              /\ new.book = b /\ TargetTrue(new, y, c)
<1> DEFINE rows == SheetRows(b, y)
           i == RowOfTaxpayer(rows, y, c)
           new == Imported(t, rows[i], y, b, v)
<1>1. i \in Due(rows, y) /\ rows[i].company = c
    BY DEF RowOfTaxpayer
<1>2. new = [receipt |-> IF rows[i].receipt = "received" \/ t.receipt = "RECEIVED" THEN "RECEIVED" ELSE "PENDING",
             key |-> RecordKey(rows[i]), amount |-> Booked(rows[i], y), version |-> v, book |-> b,
             scanned |-> t.receipt # "none" /\ t.scanned]
    BY DEF Imported
<1>3. t.receipt # "none" => t.scanned \in BOOLEAN
    BY DEF IsRefundTarget, NoRefundTarget
<1> DEFINE off == Booked(rows[i], y) - rows[i].amount[y]
<1>4. /\ Booked(rows[i], y) \in Int /\ rows[i].amount[y] \in Int
      /\ 2 * off <= CentGrain + FloatGrain /\ -2 * off <= CentGrain + FloatGrain
  <2>1. i \in DOMAIN rows
      BY <1>1 DEF Due
  <2>2. rows[i].amount[y] \in Int
      BY <2>1, RefundRowsTyped
  <2> QED BY ONLY <2>2, BookedIsNear
<1>5. {k \in Due(rows, y) : rows[k].company = c} = {i}
  <2>1. \A j, k \in Due(rows, y) : rows[j].company = rows[k].company => j = k
      BY RowsWithoutErrors
  <2> HIDE DEF rows, i
  <2> QED BY <1>1, <2>1
<1>6. Booked(rows[i], y) > 0
  <2>1. Booked(rows[i], y) # 0 /\ RawAmount(rows[i], y) > 0
      BY <1>1 DEF Conflicts, RefundRowErrors, Whole
  <2>2. RawAmount(rows[i], y) \in Int
      BY <1>4, NearestIsNear, RefundBookAssumption DEF RawAmount
  <2> DEFINE raw == RawAmount(rows[i], y)
  <2> HIDE DEF raw
  <2>3. Nearest(raw, CentGrain) \in Int /\ -2 * (Nearest(raw, CentGrain) - raw) <= CentGrain
      BY <2>2, NearestIsNear, RefundBookAssumption DEF raw
  <2>4. Nearest(raw, CentGrain) >= 0
      BY <2>1, <2>2, RefundBookAssumption, NearestIsNotNegative DEF raw
  <2> QED BY <2>1, <2>3, <2>4 DEF Booked, raw
<1>7. \A k \in DOMAIN rows : rows[k].blank \/ rows[k].involved[y] \in {"yes", "no"}
    BY RowsWithoutErrors
<1> HIDE DEF rows, i, new, off
<1>8. new.book = b /\ new.amount = Booked(rows[i], y) /\ new.receipt \in {"PENDING", "RECEIVED"}
      /\ (rows[i].receipt = "received" => new.receipt = "RECEIVED")
    BY <1>2
<1>9. IsRefundTarget(new, y) /\ new # NoRefundTarget
    BY <1>2, <1>3 DEF IsRefundTarget, NoRefundTarget
<1>10. TargetTrue(new, y, c)
  <2>1. rows = SheetRows(new.book, y)
      BY <1>8 DEF rows
  <2>2. new.amount - rows[i].amount[y] = off
      BY <1>8 DEF off
  <2> QED BY <1>1, <1>4, <1>5, <1>6, <1>7, <1>8, <2>1, <2>2 DEF TargetTrue
<1> QED BY <1>1, <1>8, <1>9, <1>10 DEF rows, i, new

LEMMA RefundBookStarts == RefundBookInit => RefundBookInv
<1> SUFFICES ASSUME RefundBookInit PROVE RefundBookInv
    OBVIOUS
<1>1. RefundBookType
    BY RefundBookAssumption DEF RefundBookInit, RefundBookType, IsRefundTarget, UploaderState
<1>2. \A y \in RefundYear, c \in Taxpayer : ~HasTarget(y, c)
    BY DEF RefundBookInit, HasTarget, NoRefundTarget
<1>3. PermitsAccounted
  <2>1. {u \in Uploader : uploaders[u].pc = "inside"} = {}
      BY DEF RefundBookInit, AtRestUploader
  <2>2. permits = Permit /\ Permit \in Nat
      BY RefundBookAssumption DEF RefundBookInit
  <2> QED BY <2>1, <2>2, FS_EmptySet DEF PermitsAccounted
<1> QED BY <1>1, <1>2, <1>3 DEF RefundBookInv

\* What a step leaves of a target: nothing taken back, what is settled kept.
TargetGrows(y, c) ==
    LET t == refundTarget[y][c]
        u == refundTarget'[y][c]
    IN /\ t.receipt # "none" => u.receipt # "none"
       /\ t.receipt = "RECEIVED" => u.receipt = "RECEIVED"
       /\ t.receipt # "none" /\ (t.scanned \/ t.receipt = "RECEIVED") => u.amount = t.amount

\* A workbook that is refused changes nothing, one that is not makes its targets.
NamedIn(b, y, c) == \E i \in Due(SheetRows(b, y), y) : SheetRows(b, y)[i].company = c
BookImported(b, y, v) ==
    /\ SheetsOf(b, y) # {} /\ RefundRowErrors(SheetRows(b, y), y) = {} /\ ~Conflicts(SheetRows(b, y), y, v)
    /\ refundTarget' \in [RefundYear -> [Taxpayer ->
           {refundTarget'[z][c] : z \in RefundYear, c \in Taxpayer}]]
    /\ \A z \in RefundYear, c \in Taxpayer :
          refundTarget'[z][c] =
              IF z = y /\ NamedIn(b, y, c)
              THEN Imported(refundTarget[y][c],
                            SheetRows(b, y)[RowOfTaxpayer(SheetRows(b, y), y, c)], y, b, v)
              ELSE refundTarget[z][c]

LEMMA FinishUploadImports ==
    ASSUME RefundBookInv, NEW u \in Uploader, FinishUpload(u)
    PROVE  \/ refundTarget' = refundTarget
           \/ \E b \in RefundWorkbook, y \in RefundYear :
                  \E v \in GivenVersion \cup RefundWorkbook : BookImported(b, y, v)
<1> SUFFICES ASSUME refundTarget' # refundTarget
             PROVE  \E b \in RefundWorkbook, y \in RefundYear :
                  \E v \in GivenVersion \cup RefundWorkbook : BookImported(b, y, v)
    OBVIOUS
<1> DEFINE b == uploaders[u].book
           y == uploaders[u].year
           v == uploaders[u].version
           rows == SheetRows(b, y)
<1>1. b \in RefundWorkbook /\ y \in RefundYear /\ v \in GivenVersion \cup RefundWorkbook
    BY DEF RefundBookInv, RefundBookType, FinishUpload, UploaderState, AtRestUploader
<1>2. SheetsOf(b, y) # {} /\ ImportBook(b, y, v, rows)
    BY DEF FinishUpload
<1> HIDE DEF b, y, v, rows
<1>3. RefundRowErrors(rows, y) = {} /\ ~Conflicts(rows, y, v)
    BY <1>2 DEF ImportBook
<1> DEFINE Named(c) == \E i \in Due(rows, y) : rows[i].company = c
           New(c) == Imported(refundTarget[y][c], rows[RowOfTaxpayer(rows, y, c)], y, b, v)
           year == [c \in Taxpayer |-> IF Named(c) THEN New(c) ELSE refundTarget[y][c]]
<1>4. refundTarget' = [refundTarget EXCEPT ![y] = year]
    BY <1>2, <1>3 DEF ImportBook, Given, DueCompanies
<1> HIDE DEF Named, New
<1>5. DOMAIN refundTarget = RefundYear /\ \A z \in RefundYear : DOMAIN refundTarget[z] = Taxpayer
      /\ refundTarget[z] = [c \in Taxpayer |-> refundTarget[z][c]]
    BY DEF RefundBookInv, RefundBookType
<1>6. \A z \in RefundYear, c \in Taxpayer :
          refundTarget'[z][c] = IF z = y /\ Named(c) THEN New(c) ELSE refundTarget[z][c]
    BY <1>1, <1>4, <1>5 DEF RefundBookInv, RefundBookType
<1>7. refundTarget' \in [RefundYear -> [Taxpayer ->
              {refundTarget'[z][c] : z \in RefundYear, c \in Taxpayer}]]
  <2> DEFINE all == {refundTarget'[z][c] : z \in RefundYear, c \in Taxpayer}
  <2>1. \A z \in RefundYear : refundTarget'[z] \in [Taxpayer -> all]
    <3> TAKE z \in RefundYear
    <3>1. refundTarget'[z] = IF z = y THEN year ELSE refundTarget[z]
        BY <1>1, <1>4, <1>5 DEF RefundBookInv, RefundBookType
    <3> HIDE DEF year
    <3>2. refundTarget'[z] = [c \in Taxpayer |-> refundTarget'[z][c]]
        BY <1>5, <3>1 DEF year
    <3>3. \A c \in Taxpayer : refundTarget'[z][c] \in all
        OBVIOUS
    <3> QED BY <3>2, <3>3
  <2>2. refundTarget' = [z \in RefundYear |-> refundTarget'[z]]
      BY <1>4, <1>5 DEF RefundBookInv, RefundBookType
  <2> HIDE DEF all
  <2>3. refundTarget' \in [RefundYear -> [Taxpayer -> all]]
      BY <2>1, <2>2
  <2> QED BY <2>3 DEF all
<1>8. BookImported(b, y, v)
    BY <1>2, <1>3, <1>6, <1>7 DEF BookImported, NamedIn, rows, Named, New
<1> QED BY <1>1, <1>8

LEMMA ImportKeepsSettled ==
    ASSUME RefundBookInv, NEW b \in RefundWorkbook, NEW z \in RefundYear, NEW v, BookImported(b, z, v),
           NEW y \in RefundYear, NEW c \in Taxpayer
    PROVE  /\ IsRefundTarget(refundTarget'[y][c], y)
           /\ TargetGrows(y, c)
           /\ refundTarget'[y][c].receipt # "none" => TargetTrue(refundTarget'[y][c], y, c)
           /\ \/ refundTarget'[y][c] = refundTarget[y][c]
              \/ y = z /\ refundTarget'[y][c].book = b /\ refundTarget'[y][c].receipt # "none"
<1> DEFINE rows == SheetRows(b, z)
           Named == NamedIn(b, z, c)
           i == RowOfTaxpayer(rows, z, c)
           t == refundTarget[y][c]
           u == refundTarget'[y][c]
<1>0. IsRefundTarget(t, y) /\ (t.receipt # "none" => TargetTrue(t, y, c))
    BY DEF RefundBookInv, RefundBookType, HasTarget
<1>3. /\ SheetsOf(b, z) # {} /\ RefundRowErrors(rows, z) = {} /\ ~Conflicts(rows, z, v)
      /\ u = IF y = z /\ Named THEN Imported(t, rows[i], z, b, v) ELSE t
  <2>1. SheetsOf(b, z) # {} /\ RefundRowErrors(rows, z) = {} /\ ~Conflicts(rows, z, v)
      BY DEF BookImported
  <2>2. \A x \in RefundYear, w \in Taxpayer :
            refundTarget'[x][w] =
                IF x = z /\ NamedIn(b, z, w)
                THEN Imported(refundTarget[z][w], rows[RowOfTaxpayer(rows, z, w)], z, b, v)
                ELSE refundTarget[x][w]
      BY DEF BookImported
  <2>3. u = IF y = z /\ Named THEN Imported(refundTarget[z][c], rows[i], z, b, v) ELSE t
    <3> HIDE DEF rows
    <3> QED BY <2>2
  <2> QED BY <2>1, <2>3
<1>1. CASE ~(y = z /\ Named)
  <2>1. u = t
      BY <1>1, <1>3
  <2> HIDE DEF t, u
  <2> QED BY <1>0, <2>1 DEF TargetGrows, t, u
<1>2. CASE y = z /\ Named
  <2>0. y = z
      BY <1>2
  <2>1. u = Imported(t, rows[i], z, b, v)
      BY <1>2, <1>3
  <2>2. /\ i \in Due(rows, z) /\ rows[i].company = c
        /\ IsRefundTarget(u, z) /\ u.receipt # "none" /\ u.book = b /\ TargetTrue(u, z, c)
    <3>1. \E k \in Due(SheetRows(b, z), z) : SheetRows(b, z)[k].company = c
        BY <1>2 DEF NamedIn
    <3>2. u = Imported(t, SheetRows(b, z)[RowOfTaxpayer(SheetRows(b, z), z, c)], z, b, v)
        BY <2>1
    <3>3. IsRefundTarget(t, z)
        BY <1>0, <2>0
    <3> HIDE DEF t, u
    <3> QED BY <1>3, <3>1, <3>2, <3>3, ImportedIsTrue
  <2>3. ~RefusedBook(t, rows[i], z, v)
    <3>1. \A j \in Due(rows, z) : ~RefusedBook(refundTarget[z][rows[j].company], rows[j], z, v)
        BY <1>3 DEF Conflicts
    <3> HIDE DEF i, rows
    <3> QED BY <2>0, <2>2, <3>1
  <2>4. u.amount = Booked(rows[i], z) /\ (t.receipt = "RECEIVED" => u.receipt = "RECEIVED")
      BY <2>1 DEF Imported
  <2> HIDE DEF t, u, rows, i
  <2>5. t.receipt # "none" /\ (t.scanned \/ t.receipt = "RECEIVED") => u.amount = t.amount
    <3> SUFFICES ASSUME t.receipt # "none", t.scanned \/ t.receipt = "RECEIVED"
                 PROVE  u.amount = t.amount
        OBVIOUS
    <3>1. Settled(t)
        BY <1>0 DEF Settled, IsRefundTarget, NoRefundTarget
    <3>2. SameAmount(t, rows[i], z)
        BY <2>3, <3>1 DEF RefusedBook, Confirmed, Replayed
    <3> QED BY <2>4, <3>2 DEF SameAmount
  <2>6. TargetGrows(y, c)
      BY <2>2, <2>4, <2>5 DEF TargetGrows, t, u
  <2>7. IsRefundTarget(u, y) /\ TargetTrue(u, y, c)
      BY <2>0, <2>2
  <2> QED BY <2>0, <2>2, <2>6, <2>7 DEF u
<1> QED BY <1>1, <1>2

LEMMA ScanKeeps ==
    ASSUME RefundBookInv, NEW z \in RefundYear, NEW w \in Taxpayer, NEW received \in BOOLEAN,
           ScanTarget(z, w, received), NEW y \in RefundYear, NEW c \in Taxpayer
    PROVE  LET t == refundTarget[y][c]
               u == refundTarget'[y][c]
           IN /\ IsRefundTarget(u, y)
              /\ TargetGrows(y, c)
              /\ u.receipt # "none" => t.receipt # "none" /\ u.book = t.book /\ u.amount = t.amount
<1> DEFINE t == refundTarget[y][c]
           u == refundTarget'[y][c]
<1>1. IsRefundTarget(t, y)
    BY DEF RefundBookInv, RefundBookType
<1>2. \/ u = t
      \/ /\ t.receipt = "PENDING"
         /\ u = [t EXCEPT !.scanned = TRUE, !.receipt = IF received THEN "RECEIVED" ELSE "PENDING"]
  <2>1. refundTarget[z] = [v \in Taxpayer |-> refundTarget[z][v]] /\ DOMAIN refundTarget = RefundYear
      BY DEF RefundBookInv, RefundBookType
  <2> QED BY <2>1 DEF ScanTarget
<1>3. t.receipt = "PENDING" =>
          t = [receipt |-> t.receipt, key |-> t.key, amount |-> t.amount, version |-> t.version,
               book |-> t.book, scanned |-> t.scanned]
    BY <1>1 DEF IsRefundTarget, NoRefundTarget
<1> HIDE DEF t, u
<1>4. CASE u = t
    BY <1>1, <1>4 DEF TargetGrows, t, u
<1>5. CASE u # t
  <2>1. u = [receipt |-> IF received THEN "RECEIVED" ELSE t.receipt, key |-> t.key, amount |-> t.amount,
             version |-> t.version, book |-> t.book, scanned |-> TRUE] /\ t.receipt = "PENDING"
      BY <1>2, <1>3, <1>5
  <2>2. IsRefundTarget(u, y)
      BY <1>2, <1>5, <2>1 DEF IsRefundTarget
  <2>3. u.book = t.book /\ u.amount = t.amount /\ t.receipt = "PENDING" /\ u.receipt # "none"
      BY <1>2, <1>5, <2>1
  <2> QED BY <2>2, <2>3 DEF TargetGrows, t, u
<1> QED BY <1>4, <1>5 DEF t, u

LEMMA UploadersStay ==
    ASSUME RefundBookInv, RefundBookNext
    PROVE  /\ uploaders' \in [Uploader -> UploaderState]
           /\ permits' \in Int
           /\ PermitsAccounted'
<1> DEFINE Inside == {u \in Uploader : uploaders[u].pc = "inside"}
<1>0. IsFiniteSet(Inside) /\ Cardinality(Inside) \in Nat /\ permits \in Int
      /\ permits + Cardinality(Inside) = Permit
  <2>1. IsFiniteSet(Inside)
      BY RefundBookAssumption, FS_Subset
  <2> QED BY <2>1, FS_CardinalityType DEF RefundBookInv, RefundBookType, PermitsAccounted
<1>1. ASSUME NEW u \in Uploader, NEW b \in RefundWorkbook, NEW y \in RefundYear,
             NEW v \in GivenVersion \cup {b}, TakePermit(u, b, y, v)
      PROVE  /\ uploaders' \in [Uploader -> UploaderState]
             /\ permits' \in Int /\ PermitsAccounted'
  <2>1. uploaders' = [uploaders EXCEPT ![u] = [pc |-> "inside", book |-> b, version |-> v, year |-> y]]
        /\ uploaders[u].pc = "idle" /\ permits' = permits - 1
      BY <1>1 DEF TakePermit
  <2> DEFINE now == {x \in Uploader : uploaders'[x].pc = "inside"}
  <2>2. now = Inside \cup {u} /\ u \notin Inside
      BY <2>1 DEF RefundBookInv, RefundBookType, UploaderState, AtRestUploader
  <2>3. Cardinality(Inside \cup {u}) = Cardinality(Inside) + 1
      BY <1>0, <2>2, FS_AddElement
  <2>4. PermitsAccounted'
    <3>1. PermitsAccounted' <=> permits' + Cardinality(now) = Permit
        BY DEF PermitsAccounted
    <3> HIDE DEF Inside, now
    <3> QED BY <1>0, <2>1, <2>2, <2>3, <3>1, RefundBookAssumption
  <2>5. uploaders' \in [Uploader -> UploaderState]
      BY <2>1 DEF RefundBookInv, RefundBookType, UploaderState, AtRestUploader
  <2> QED BY <1>0, <2>1, <2>4, <2>5
<1>2. ASSUME NEW u \in Uploader, FinishUpload(u)
      PROVE  /\ uploaders' \in [Uploader -> UploaderState]
             /\ permits' \in Int /\ PermitsAccounted'
  <2>1. uploaders' = [uploaders EXCEPT ![u] = AtRestUploader]
        /\ uploaders[u].pc = "inside" /\ permits' = permits + 1
      BY <1>2 DEF FinishUpload, Released
  <2> DEFINE now == {v \in Uploader : uploaders'[v].pc = "inside"}
  <2>2. now = Inside \ {u} /\ u \in Inside
      BY <2>1 DEF RefundBookInv, RefundBookType, UploaderState, AtRestUploader
  <2>3. Cardinality(Inside \ {u}) = Cardinality(Inside) - 1
      BY <1>0, <2>2, FS_RemoveElement
  <2>4. PermitsAccounted'
    <3>1. PermitsAccounted' <=> permits' + Cardinality(now) = Permit
        BY DEF PermitsAccounted
    <3> HIDE DEF Inside, now
    <3> QED BY <1>0, <2>1, <2>2, <2>3, <3>1, RefundBookAssumption
  <2>5. uploaders' \in [Uploader -> UploaderState]
      BY <2>1 DEF RefundBookInv, RefundBookType, UploaderState, AtRestUploader
  <2> QED BY <1>0, <2>1, <2>4, <2>5
<1>3. ASSUME UNCHANGED <<uploaders, permits>>
      PROVE  /\ uploaders' \in [Uploader -> UploaderState]
             /\ permits' \in Int /\ PermitsAccounted'
    BY <1>3 DEF RefundBookInv, RefundBookType, PermitsAccounted
<1> QED BY <1>1, <1>2, <1>3 DEF RefundBookNext, ScanTarget

LEMMA RefundBookTypeStays ==
    ASSUME RefundBookInv, RefundBookNext
    PROVE  refundTarget' \in
               [RefundYear -> [Taxpayer -> {refundTarget'[y][c] : y \in RefundYear, c \in Taxpayer}]]
<1> DEFINE all == {refundTarget'[y][c] : y \in RefundYear, c \in Taxpayer}
<1>1. ASSUME NEW y \in RefundYear, NEW c \in Taxpayer, NEW received \in BOOLEAN, ScanTarget(y, c, received)
      PROVE  refundTarget' \in [RefundYear -> [Taxpayer -> all]]
  <2>1. /\ refundTarget' = [z \in RefundYear |-> refundTarget'[z]]
        /\ \A z \in RefundYear : refundTarget'[z] = [w \in Taxpayer |-> refundTarget'[z][w]]
    <3>1. PICK new : refundTarget' = [refundTarget EXCEPT ![y] = [refundTarget[y] EXCEPT ![c] = new]]
        BY <1>1 DEF ScanTarget
    <3>2. refundTarget = [z \in RefundYear |-> refundTarget[z]]
          /\ \A z \in RefundYear : refundTarget[z] = [w \in Taxpayer |-> refundTarget[z][w]]
        BY DEF RefundBookInv, RefundBookType
    <3>3. refundTarget' = [z \in RefundYear |-> refundTarget'[z]]
        BY <3>1, <3>2
    <3>4. ASSUME NEW z \in RefundYear
          PROVE  refundTarget'[z] = [w \in Taxpayer |-> refundTarget'[z][w]]
      <4>1. refundTarget'[z] = IF z = y THEN [refundTarget[y] EXCEPT ![c] = new] ELSE refundTarget[z]
          BY <3>1, <3>2
      <4> QED BY <3>2, <4>1
    <3> QED BY <3>3, <3>4
  <2>2. \A z \in RefundYear, w \in Taxpayer : refundTarget'[z][w] \in all
      OBVIOUS
  <2> HIDE DEF all
  <2>3. \A z \in RefundYear : refundTarget'[z] \in [Taxpayer -> all]
      BY <2>1, <2>2
  <2> QED BY <2>1, <2>3
<1>2. ASSUME NEW u \in Uploader, FinishUpload(u)
      PROVE  refundTarget' \in [RefundYear -> [Taxpayer -> all]]
  <2>1. CASE refundTarget' = refundTarget
      BY <2>1 DEF RefundBookInv, RefundBookType
  <2>2. CASE \E b \in RefundWorkbook, y \in RefundYear :
                  \E v \in GivenVersion \cup RefundWorkbook : BookImported(b, y, v)
      BY <2>2 DEF BookImported
  <2> QED BY <1>2, <2>1, <2>2, FinishUploadImports
<1>3. ASSUME refundTarget' = refundTarget
      PROVE  refundTarget' \in [RefundYear -> [Taxpayer -> all]]
    BY <1>3 DEF RefundBookInv, RefundBookType
<1> QED BY <1>1, <1>2, <1>3 DEF RefundBookNext, TakePermit

LEMMA TargetsStayTrue ==
    ASSUME RefundBookInv, RefundBookNext
    PROVE  \A y \in RefundYear, c \in Taxpayer :
              /\ IsRefundTarget(refundTarget'[y][c], y)
              /\ TargetGrows(y, c)
              /\ refundTarget'[y][c].receipt # "none" => TargetTrue(refundTarget'[y][c], y, c)
<1> SUFFICES ASSUME NEW y \in RefundYear, NEW c \in Taxpayer
             PROVE  /\ IsRefundTarget(refundTarget'[y][c], y)
                    /\ TargetGrows(y, c)
                    /\ refundTarget'[y][c].receipt # "none" => TargetTrue(refundTarget'[y][c], y, c)
    OBVIOUS
<1> DEFINE t == refundTarget[y][c]
           u == refundTarget'[y][c]
<1>0. IsRefundTarget(t, y) /\ (t.receipt # "none" => TargetTrue(t, y, c))
    BY DEF RefundBookInv, RefundBookType, HasTarget
<1>1. CASE refundTarget' = refundTarget
  <2>1. u = t
      BY <1>1
  <2> QED BY <1>0, <2>1 DEF TargetGrows
<1>2. ASSUME NEW b \in RefundWorkbook, NEW z \in RefundYear, NEW v, BookImported(b, z, v)
      PROVE  IsRefundTarget(u, y) /\ TargetGrows(y, c) /\ (u.receipt # "none" => TargetTrue(u, y, c))
    BY <1>2, ImportKeepsSettled
<1>3. ASSUME NEW z \in RefundYear, NEW w \in Taxpayer, NEW received \in BOOLEAN, ScanTarget(z, w, received)
      PROVE  IsRefundTarget(u, y) /\ TargetGrows(y, c) /\ (u.receipt # "none" => TargetTrue(u, y, c))
  <2>1. /\ IsRefundTarget(u, y) /\ TargetGrows(y, c)
        /\ u.receipt # "none" => t.receipt # "none" /\ u.book = t.book /\ u.amount = t.amount
      BY <1>3, ScanKeeps
  <2>2. ASSUME u.receipt # "none" PROVE TargetTrue(u, y, c)
    <3>1. t.receipt = "RECEIVED" => u.receipt = "RECEIVED"
        BY <2>1 DEF TargetGrows
    <3>2. TargetTrue(t, y, c)
        BY <1>0, <2>1, <2>2
    <3> HIDE DEF t, u
    <3> QED BY <2>1, <2>2, <3>1, <3>2, TargetStays
  <2> QED BY <2>1, <2>2
<1>4. ASSUME NEW w \in Uploader, FinishUpload(w)
      PROVE  IsRefundTarget(u, y) /\ TargetGrows(y, c) /\ (u.receipt # "none" => TargetTrue(u, y, c))
    BY <1>1, <1>2, <1>4, FinishUploadImports
<1> HIDE DEF t, u
<1> QED BY <1>1, <1>3, <1>4 DEF RefundBookNext, TakePermit, t, u

LEMMA RefundBookStays == RefundBookInv /\ [RefundBookNext]_refundBookVars => RefundBookInv'
<1> SUFFICES ASSUME RefundBookInv, [RefundBookNext]_refundBookVars PROVE RefundBookInv'
    OBVIOUS
<1>1. CASE UNCHANGED refundBookVars
  <2>1. UNCHANGED <<refundTarget, uploaders, permits>>
      BY <1>1 DEF refundBookVars
  <2>2. RefundBookType' /\ PermitsAccounted'
      BY <2>1 DEF RefundBookInv, RefundBookType, PermitsAccounted
  <2>3. \A y \in RefundYear, c \in Taxpayer :
            HasTarget(y, c)' => TargetTrue(refundTarget[y][c], y, c)
      BY <2>1 DEF RefundBookInv, HasTarget
  <2>4. refundTarget' = refundTarget
      BY <2>1
  <2> QED BY <2>2, <2>3, <2>4 DEF RefundBookInv
<1>2. CASE RefundBookNext
  <2>1. RefundBookType'
      BY <1>2, UploadersStay, TargetsStayTrue, RefundBookTypeStays DEF RefundBookType
  <2>2. PermitsAccounted'
      BY <1>2, UploadersStay
  <2>3. \A y \in RefundYear, c \in Taxpayer : refundTarget'[y][c].receipt # "none" =>
            TargetTrue(refundTarget'[y][c], y, c)
      BY <1>2, TargetsStayTrue
  <2> QED BY <2>1, <2>2, <2>3 DEF RefundBookInv, HasTarget
<1> QED BY <1>1, <1>2

LEMMA RefundBookInvIsEnough == RefundBookInv => TargetsMatchBook /\ PermitsAccounted
<1> SUFFICES ASSUME RefundBookInv PROVE TargetsMatchBook
    BY DEF RefundBookInv
<1>1. TargetsMatchBook
  <2> SUFFICES ASSUME NEW y \in RefundYear, NEW c \in Taxpayer, HasTarget(y, c)
               PROVE  LET t == refundTarget[y][c]
                          named == {i \in Due(SheetRows(t.book, y), y) :
                                       SheetRows(t.book, y)[i].company = c}
                      IN /\ Cardinality(named) = 1
                         /\ \A i \in named :
                               LET row == SheetRows(t.book, y)[i]
                                   off == t.amount - row.amount[y]
                               IN /\ 2 * off <= CentGrain + FloatGrain /\ -2 * off <= CentGrain + FloatGrain
                                  /\ t.amount > 0
                                  /\ row.receipt = "received" => t.receipt = "RECEIVED"
      BY DEF TargetsMatchBook
  <2> DEFINE t == refundTarget[y][c]
             rows == SheetRows(t.book, y)
             named == {k \in Due(rows, y) : rows[k].company = c}
  <2>1. TargetTrue(t, y, c)
      BY DEF RefundBookInv
  <2> HIDE DEF t
  <2>2. PICK i \in Due(rows, y) :
            /\ named = {i}
            /\ 2 * (t.amount - rows[i].amount[y]) <= CentGrain + FloatGrain
            /\ -2 * (t.amount - rows[i].amount[y]) <= CentGrain + FloatGrain
            /\ t.amount > 0
            /\ rows[i].receipt = "received" => t.receipt = "RECEIVED"
      BY <2>1 DEF TargetTrue
  <2>3. Cardinality(named) = 1
      BY <2>2, FS_Singleton
  <2> HIDE DEF named, rows
  <2>4. \A k \in named : k = i
      BY <2>2
  <2> QED BY <2>2, <2>3, <2>4 DEF t, named, rows
<1> QED BY <1>1

\* Who is due in a workbook that was imported has a target of it, and nobody
\* else's target is another.
LEMMA ImportIsWhole ==
    ASSUME RefundBookInv, NEW b \in RefundWorkbook, NEW z \in RefundYear, NEW v, BookImported(b, z, v)
    PROVE  /\ DueCompanies(SheetRows(b, z), z) \subseteq Taxpayer
           /\ \A y \in RefundYear, c \in Taxpayer :
                 IF y = z /\ c \in DueCompanies(SheetRows(b, z), z)
                 THEN GivenBy(refundTarget'[y][c], b)
                 ELSE refundTarget'[y][c] = refundTarget[y][c]
<1> DEFINE rows == SheetRows(b, z)
<1>1. ~Conflicts(rows, z, v)
      /\ \A y \in RefundYear, c \in Taxpayer :
            refundTarget'[y][c] =
                IF y = z /\ NamedIn(b, z, c)
                THEN Imported(refundTarget[z][c], rows[RowOfTaxpayer(rows, z, c)], z, b, v)
                ELSE refundTarget[y][c]
    BY DEF BookImported
<1>2. \A c : NamedIn(b, z, c) <=> c \in DueCompanies(rows, z)
    BY DEF NamedIn, DueCompanies
<1> HIDE DEF rows
<1>3. DueCompanies(rows, z) \subseteq Taxpayer
    BY <1>1 DEF Conflicts, DueCompanies
<1>4. \A y \in RefundYear, c \in Taxpayer :
          IF y = z /\ c \in DueCompanies(rows, z)
          THEN GivenBy(refundTarget'[y][c], b)
          ELSE refundTarget'[y][c] = refundTarget[y][c]
  <2> SUFFICES ASSUME NEW y \in RefundYear, NEW c \in Taxpayer
               PROVE  IF y = z /\ c \in DueCompanies(rows, z)
                      THEN GivenBy(refundTarget'[y][c], b)
                      ELSE refundTarget'[y][c] = refundTarget[y][c]
      OBVIOUS
  <2> DEFINE new == Imported(refundTarget[z][c], rows[RowOfTaxpayer(rows, z, c)], z, b, v)
  <2>1. refundTarget'[y][c] =
            IF y = z /\ c \in DueCompanies(rows, z) THEN new ELSE refundTarget[y][c]
      BY <1>1, <1>2
  <2>2. GivenBy(new, b)
      BY DEF Imported, GivenBy
  <2> HIDE DEF new
  <2> QED BY <2>1, <2>2
<1> QED BY <1>3, <1>4 DEF rows

\* What BooksAreWhole asks of one step.
WholeStep ==
    \A y \in RefundYear, b \in RefundWorkbook :
        (\E c \in Taxpayer : ~GivenBy(refundTarget[y][c], b) /\ GivenBy(refundTarget'[y][c], b)) =>
            LET rows == SheetRows(b, y)
                due == DueCompanies(rows, y)
            IN /\ \A i \in DOMAIN rows : rows[i].blank \/ rows[i].involved[y] \in {"yes", "no"}
               /\ due = {c \in Taxpayer : GivenBy(refundTarget'[y][c], b)}
               /\ \A z \in RefundYear, c \in Taxpayer :
                     z # y \/ c \notin due => refundTarget'[z][c] = refundTarget[z][c]

LEMMA BooksStayWhole == ASSUME RefundBookInv, RefundBookNext PROVE WholeStep
<1> SUFFICES ASSUME NEW y \in RefundYear, NEW b \in RefundWorkbook, NEW d \in Taxpayer,
                    ~GivenBy(refundTarget[y][d], b), GivenBy(refundTarget'[y][d], b)
             PROVE  LET rows == SheetRows(b, y)
                        due == DueCompanies(rows, y)
                    IN /\ \A i \in DOMAIN rows : rows[i].blank \/ rows[i].involved[y] \in {"yes", "no"}
                       /\ due = {c \in Taxpayer : GivenBy(refundTarget'[y][c], b)}
                       /\ \A z \in RefundYear, c \in Taxpayer :
                             z # y \/ c \notin due => refundTarget'[z][c] = refundTarget[z][c]
    BY DEF WholeStep
<1> DEFINE rows == SheetRows(b, y)
           due == DueCompanies(rows, y)
<1>1. PICK a \in RefundWorkbook, z \in RefundYear, v \in GivenVersion \cup RefundWorkbook :
          BookImported(a, z, v)
  <2>1. refundTarget' # refundTarget
      OBVIOUS
  <2>2. ASSUME NEW z \in RefundYear, NEW w \in Taxpayer, NEW received \in BOOLEAN,
               ScanTarget(z, w, received)
        PROVE  FALSE
      BY <2>2, ScanKeeps DEF GivenBy
  <2>3. PICK u \in Uploader : FinishUpload(u)
      BY <2>1, <2>2 DEF RefundBookNext, TakePermit
  <2> QED BY <2>1, <2>3, FinishUploadImports
<1>2. z = y /\ a = b
    BY <1>1, ImportIsWhole DEF GivenBy
<1>3. BookImported(b, y, v)
    BY <1>1, <1>2
<1>4. /\ due \subseteq Taxpayer
      /\ \A x \in RefundYear, c \in Taxpayer :
            IF x = y /\ c \in due THEN GivenBy(refundTarget'[x][c], b)
            ELSE refundTarget'[x][c] = refundTarget[x][c]
    BY <1>3, ImportIsWhole
<1>5. \A c \in Taxpayer : GivenBy(refundTarget[y][c], b) => c \in due
  <2> TAKE c \in Taxpayer
  <2> HAVE GivenBy(refundTarget[y][c], b)
  <2>1. TargetTrue(refundTarget[y][c], y, c) /\ refundTarget[y][c].book = b
      BY DEF RefundBookInv, HasTarget, GivenBy
  <2>2. \E i \in Due(rows, y) : {k \in Due(rows, y) : rows[k].company = c} = {i}
      BY <2>1 DEF TargetTrue
  <2> HIDE DEF rows
  <2> QED BY <2>2 DEF DueCompanies
<1>6. due = {c \in Taxpayer : GivenBy(refundTarget'[y][c], b)}
  <2> HIDE DEF due
  <2> QED BY <1>4, <1>5
<1>7. \A i \in DOMAIN rows : rows[i].blank \/ rows[i].involved[y] \in {"yes", "no"}
  <2>1. SheetsOf(b, y) # {} /\ RefundRowErrors(SheetRows(b, y), y) = {}
      BY <1>3 DEF BookImported
  <2> QED BY <2>1, RowsWithoutErrors
<1> HIDE DEF due
<1>8. \A x \in RefundYear, c \in Taxpayer : x # y \/ c \notin due => refundTarget'[x][c] = refundTarget[x][c]
    BY <1>4
<1> QED BY <1>6, <1>7, <1>8 DEF due

\* Whatever workbooks are sent at once and in any order: a target is what one row
\* of its workbook says, a workbook leaves all its refunds or none, no permit is
\* lost, and what was scanned or received stays (income_tax_refund_xlsx.py:222,
\* income_tax_refunds.py:249).
THEOREM RefundBooksAreSound == RefundBookSpec => RefundBookSound
<1>1. RefundBookSpec => []RefundBookInv
    BY RefundBookStarts, RefundBookStays, PTL DEF RefundBookSpec
<1>2. ASSUME RefundBookInv, [RefundBookNext]_refundBookVars
      PROVE  [refundTarget' # refundTarget =>
                \A y \in RefundYear, c \in Taxpayer :
                    LET t == refundTarget[y][c]
                    IN HasTarget(y, c) /\ (t.scanned \/ t.receipt = "RECEIVED") =>
                           /\ refundTarget'[y][c].amount = t.amount
                           /\ t.receipt = "RECEIVED" => refundTarget'[y][c].receipt = "RECEIVED"]_refundBookVars
  <2>1. CASE RefundBookNext
      BY <1>2, <2>1, TargetsStayTrue DEF TargetGrows, HasTarget
  <2> QED BY <1>2, <2>1
<1>3. ASSUME RefundBookInv, [RefundBookNext]_refundBookVars
      PROVE  [\A y \in RefundYear, b \in RefundWorkbook :
                 (\E c \in Taxpayer : ~GivenBy(refundTarget[y][c], b) /\ GivenBy(refundTarget'[y][c], b)) =>
                     LET rows == SheetRows(b, y)
                         due == DueCompanies(rows, y)
                     IN /\ \A i \in DOMAIN rows : rows[i].blank \/ rows[i].involved[y] \in {"yes", "no"}
                        /\ due = {c \in Taxpayer : GivenBy(refundTarget'[y][c], b)}
                        /\ \A z \in RefundYear, c \in Taxpayer :
                              z # y \/ c \notin due => refundTarget'[z][c] = refundTarget[z][c]]_refundBookVars
  <2>1. CASE RefundBookNext
    <3>1. WholeStep
        BY <1>3, <2>1, BooksStayWhole
    <3> QED BY <3>1 DEF WholeStep
  <2> QED BY <1>3, <2>1
<1> QED BY <1>1, <1>2, <1>3, RefundBookInvIsEnough, PTL
        DEF RefundBookSpec, RefundBookSound, BooksAreWhole, SettledStays
=============================================================================
