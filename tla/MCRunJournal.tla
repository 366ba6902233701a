---------------------------- MODULE MCRunJournal ----------------------------
(***************************************************************************)
(* Values for the constants of RunJournal.                                  *)
(***************************************************************************)
EXTENDS RunJournal, TLC

WritersAlike == Permutations(Writers)
=============================================================================
