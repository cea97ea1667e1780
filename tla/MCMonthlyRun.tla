----------------------------- MODULE MCMonthlyRun -----------------------------
EXTENDS MonthlyRun, TLC

\* Companies and canvases are interchangeable where no liveness is checked.
Symmetry == Permutations(Company) \cup Permutations(Canvas)
=============================================================================
