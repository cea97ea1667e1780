-------------------------- MODULE MCCaseLifecycle --------------------------
EXTENDS CaseLifecycle, TLC

\* Executors are interchangeable, and so are monitors.
Symmetry == Permutations(Executor) \cup Permutations(Monitor)
=============================================================================
