SPECIFICATION Spec
CONSTANTS
    c1 = c1
    c2 = c2
    Company <- TwoCompanies
    Line <- TwoCompaniesLines
    Month <- MCMonth
    Batch = {b1, b2}
    Amount = {1}
    Version = {v1}
SYMMETRY Symmetry
INVARIANTS
    ScanSound
PROPERTIES
    ReceiptStops
