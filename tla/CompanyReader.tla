--------------------------- MODULE CompanyReader ---------------------------
(***************************************************************************)
(* The four clients that read one company's rows for the tax adjustment    *)
(* check page by page, each with its own idea of where the rows end:       *)
(*   settlement  at the announced total, or at the first short page        *)
(*   income      at the announced total; a short page before it is refused *)
(*   balance     at the first short page                                   *)
(*   hesi        at an empty page, or at one shorter than those before it  *)
(* The service may send shorter pages than asked for, and its table may    *)
(* change between two pages.  Its settlement pages may come without the    *)
(* column that names the company: the client then writes the one it asked  *)
(* for over the rows.                                                      *)
(***************************************************************************)
EXTENDS Integers, Sequences, FiniteSets, SequencesExt

CONSTANTS
    CompanyTable,    \* tables of the service: sequences of [id, own]
    CompanyPage,     \* rows asked for
    MaxCompanyPages, MaxCompanyRows, \* limits of the client
    MaxTableChanges  \* changes and odd pages in one behaviour (a bound)

ASSUME CompanyReaderAssumption ==
    /\ {CompanyPage, MaxCompanyPages, MaxCompanyRows} \subseteq Nat \ {0}
    /\ MaxTableChanges \in Nat

VARIABLES
    dataset,   \* the client
    served,    \* the table, and the longest page the service sends
    reading,   \* the client's state
    oddities   \* what the service did: "change", "short"

companyVars == <<dataset, served, reading, oddities>>

Dataset == {"settlement", "income", "balance", "hesi"}

CompanyInit ==
    /\ dataset \in Dataset
    /\ served \in [rows : CompanyTable, longest : 1 .. CompanyPage]
    /\ reading = [pc |-> "read", rows |-> <<>>, offset |-> 0, pages |-> 0, total |-> -1,
                  expected |-> CompanyPage, nameless |-> FALSE]
    /\ oddities = <<>>

\* What the service answers from an offset.
Served(offset) ==
    LET last == offset + served.longest
    IN SubSeq(served.rows, offset + 1, IF last <= Len(served.rows) THEN last ELSE Len(served.rows))

Ended(pc) == reading' = [reading EXCEPT !.pc = pc]

\* Mutant: rows of other companies are taken.
MutForeign(page, named) == FALSE

\* Rows that say they are another company's.
Foreign(page, named) == named /\ \E i \in DOMAIN page : ~page[i].own

\* Whether a page names the company in its rows.
Naming == IF dataset = "settlement" THEN BOOLEAN ELSE {TRUE}

\* Mutant: the total may change while it is read.
MutTotalRefused == reading.total = -1 /\ Len(served.rows) > MaxCompanyRows

\* The clients that are told the total hold the service to it.
TotalRefused ==
    /\ dataset \in {"settlement", "income"}
    /\ IF reading.total = -1 THEN Len(served.rows) > MaxCompanyRows
       ELSE Len(served.rows) # reading.total

\* Mutant: a short page is the end for every client.
MutIsEnd(page, rows) == Len(page) < CompanyPage \/ Len(rows) >= Len(served.rows)

IsEnd(page, rows) ==
    CASE dataset = "settlement" -> Len(rows) >= Len(served.rows) \/ Len(page) < CompanyPage
      [] dataset = "income"     -> Len(rows) >= Len(served.rows)
      [] dataset = "balance"    -> Len(page) < CompanyPage
      [] OTHER -> page = <<>> \/ (reading.offset > 0 /\ Len(page) < reading.expected)

\* The profits may not end before the announced total.
Premature(page) == dataset = "income" /\ Len(page) < CompanyPage

\* Mutant: the next page is asked for as if this one had been full.
MutNextOffset(page) == reading.offset + CompanyPage

NextPageOffset(page) == reading.offset + Len(page)

TakePage(page, named) ==
    LET rows == reading.rows \o page
        nameless == reading.nameless \/ ~named
    IN IF Foreign(page, named) \/ TotalRefused \/ Len(rows) > MaxCompanyRows THEN Ended("failed")
       ELSE IF IsEnd(page, rows) THEN reading' = [reading EXCEPT !.pc = "returned", !.rows = rows, !.nameless = nameless]
       ELSE IF Premature(page) \/ reading.pages + 1 = MaxCompanyPages THEN Ended("failed")
       ELSE reading' = [reading EXCEPT !.rows = rows, !.offset = NextPageOffset(page),
                           !.pages = @ + 1, !.nameless = nameless, !.total = Len(served.rows),
                           !.expected = IF Len(page) < @ THEN Len(page) ELSE @]

Odd(kind) == Len(oddities) < MaxTableChanges /\ oddities' = Append(oddities, kind)

ReadPage ==
    /\ reading.pc = "read"
    /\ \/ /\ \E named \in Naming : TakePage(Served(reading.offset), named)
          /\ UNCHANGED oddities
       \/ /\ Len(Served(reading.offset)) > 1
          /\ Odd("short")
          /\ \E named \in Naming : TakePage(Front(Served(reading.offset)), named)
       \/ Odd("error") /\ Ended("failed")
    /\ UNCHANGED <<dataset, served>>

ChangeTable(rows) ==
    /\ reading.pc = "read" /\ reading.pages > 0 /\ rows # served.rows
    /\ Odd("change")
    /\ served' = [served EXCEPT !.rows = rows]
    /\ UNCHANGED <<dataset, reading>>

CompanyNext == ReadPage \/ \E rows \in CompanyTable : ChangeTable(rows)

CompanySpec == CompanyInit /\ [][CompanyNext]_companyVars

-----------------------------------------------------------------------------

Returned == reading.pc = "returned"

\* A table that stands is returned whole and in order by a service whose pages
\* are as long as it lets them be, provided the client can do with shorter ones
\* than it asks for (hesi_business_entertainment.py:212).
WholeTable ==
    (Returned /\ oddities = <<>> /\ (served.longest = CompanyPage \/ dataset = "hesi")) =>
        reading.rows = served.rows

\* The profits are never a part of what the service has: as many rows as it
\* announces with every page (sap_income.py:125).
ProfitsAreWhole ==
    (Returned /\ dataset = "income") =>
        Len(reading.rows) = Len(served.rows) /\ (reading.total \in {-1, Len(served.rows)})

\* A table that stands gives no row twice, however its pages are cut
\* (settlement_adjustment.py:181).
NoRowOfTheCompanyTwice ==
    (Returned /\ "change" \notin Range(oddities)) =>
        \A i, j \in DOMAIN reading.rows : reading.rows[i] = reading.rows[j] => i = j

\* Every row that is returned is the company's, unless a settlement page did not
\* say whose its rows are (settlement_adjustment.py:295), and there are no more
\* than the client takes (trial_balance.py:133).
OwnRowsOnly ==
    Returned => /\ reading.nameless \/ \A i \in DOMAIN reading.rows : reading.rows[i].own
                /\ Len(reading.rows) <= MaxCompanyRows
=============================================================================
