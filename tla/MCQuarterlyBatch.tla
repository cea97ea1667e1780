-------------------------- MODULE MCQuarterlyBatch --------------------------
(* Small instances of QuarterlyBatch for TLC.                              *)
EXTENDS QuarterlyBatch, TLC

\* Companies and canvases are interchangeable: used by the safety runs only.
Symmetry == Permutations(Company) \cup Permutations(Canvas)
=============================================================================
