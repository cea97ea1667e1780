----------------------- MODULE MCSnapshotPublication -----------------------
EXTENDS SnapshotPublication, TLC

CONSTANTS c1, c2, q1, v1, w1, d1, m1, m2, t1, t2

Row(key, c, item) == [key |-> key, company |-> c, item |-> item]
Bad(c, item) == [company |-> c, item |-> item]
File(good, bad) == [readable |-> TRUE, good |-> good, bad |-> bad]
Unreadable == [readable |-> FALSE, good |-> {}, bad |-> {}]

Datasets == (q1 :> "quarterly_metric") @@ (v1 :> "entertainment") @@ (w1 :> "monthly_metric") @@ (d1 :> "sap_detail")
MCDatasetOf == [b \in Batch |-> Datasets[b]]
MCPeriodOf == [b \in Batch |-> 1]

MCMetrics == [profile \in Profile |-> {"profit"}]

Vouchers == File({Row("a", c1, "voucher")}, {})

\* A file with a row of a company nobody created, one with a row that names no
\* company, and one that cannot be read.
Files ==
  (q1 :> {File({Row("a", c1, "profit"), Row("b", c2, "profit")}, {}),
          File({Row("a", c1, "profit")}, {Bad(Unknown, NoItem)}),
          Unreadable}) @@
  (v1 :> {Vouchers}) @@ (d1 :> {Vouchers}) @@ (w1 :> {File({Row("a", c1, "profit")}, {})})

MCFilesOf == [b \in Batch |-> Files[b]]

MCMasterOf ==
  (m1 :> [company |-> c1, periods |-> {1}, name |-> "old", workbook |-> "w1"]) @@
  (m2 :> [company |-> c1, periods |-> {1}, name |-> "old", workbook |-> "w2"])

\* The first company is created and renamed.
MCEvent ==
  {[company |-> c1, name |-> "old", active |-> TRUE, at |-> 1],
   [company |-> c1, name |-> "new", active |-> TRUE, at |-> 2]}
\* Clients and set keys are interchangeable.
Symmetry == Permutations(Client) \cup Permutations(SetKey)
=============================================================================
