-------------------------- MODULE MCRefundDelivery --------------------------
EXTENDS RefundDelivery, TLC

\* Rows and tasks are interchangeable where no liveness is checked.
Symmetry == Permutations(Writeback) \cup Permutations(Task)
=============================================================================
