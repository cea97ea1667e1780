----------------------------- MODULE Governance -----------------------------
(***************************************************************************)
(* Who may change what the calculations rest on: the versions that are     *)
(* governed, and who is signed in to review them.                          *)
(***************************************************************************)
EXTENDS GovernedVersions, SignIn

\* Whom the service answers and which versions govern are decided by those who
\* may, whatever is done at once, late or twice (versioning.py:164,
\* authentication.py:81).
GovernanceSound == VersionsSound /\ SignInSound
=============================================================================
