--------------------------- MODULE MCWizardDrafts ---------------------------
(* An instance of WizardDrafts for TLC.                                     *)
EXTENDS WizardDrafts, TLC

Exchangeable == Permutations(Sessions) \cup Permutations(Calls)

\* now() of PostgreSQL is later than the time the job took before; that of
\* SQLite is cut to seconds and may not be.
PostgreSQL == {FALSE}
AnyDatabase == BOOLEAN
=============================================================================
