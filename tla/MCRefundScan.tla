---------------------------- MODULE MCRefundScan ----------------------------
EXTENDS RefundScan, TLC
CONSTANTS c1, c2

MCLineOf(c, id, family, month, reversed) ==
    [id |-> id, company |-> c, family |-> family, month |-> month,
     amount |-> 1, credit |-> TRUE, reversed |-> reversed]

\* Two companies.  The first has a line on either kind of account, so that its
\* refund may be found on each or be ambiguous; the line of the second is on
\* taxes payable and may come reversed.
TwoCompanies == {c1, c2}
TwoCompaniesLines ==
    {MCLineOf(c1, 1, "INCOME_TAX_EXPENSE", 3, FALSE), MCLineOf(c1, 2, "OTHER_INCOME", 4, FALSE),
     MCLineOf(c2, 3, "TAXES_PAYABLE", 3, FALSE), MCLineOf(c2, 3, "TAXES_PAYABLE", 3, TRUE)}

\* One company, for the run that looks for a changed target.
OneCompany == {c1}
OneCompanyLines ==
    {MCLineOf(c1, 1, "OTHER_INCOME", 3, FALSE), MCLineOf(c1, 2, "INCOME_TAX_EXPENSE", 4, FALSE)}

\* A refund with a line on either kind of account in the same month.  A later
\* batch may hold one of them reversed, or no longer hold it.
StaleCaseLines ==
    {MCLineOf(c1, 1, "OTHER_INCOME", 3, FALSE),
     MCLineOf(c1, 2, "INCOME_TAX_EXPENSE", 3, FALSE), MCLineOf(c1, 2, "INCOME_TAX_EXPENSE", 3, TRUE)}
MCMonth == {3, 4}

\* Batch keys are interchangeable.
Symmetry == Permutations(Batch)
=============================================================================
