SPECIFICATION Spec
CONSTANTS
    c1 = c1
    c2 = c2
    Company <- OneCompany
    Line <- OneCompanyLines
    Month <- MCMonth
    Batch = {b1, b2}
    Amount = {1, 2}
    Version = {v1}
INVARIANTS
    ScannedTargetFrozen

