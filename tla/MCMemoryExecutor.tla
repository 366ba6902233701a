-------------------------- MODULE MCMemoryExecutor --------------------------
(***************************************************************************)
(* Values for the constants of MemoryExecutor: what the author tells, what  *)
(* three crawls found, and a clear.                                         *)
(***************************************************************************)
EXTENDS MemoryExecutor, TLC

CONSTANTS author, chat1

Card(op, parts, found) ==
    [op |-> op, parts |-> parts, dossier |-> found, author |-> author, chat |-> chat1,
     tier |-> "L1", human |-> TRUE, run |-> NoRun, key |-> NoKey]

Told ==
    {Card(op, {part}, NoDossier) :
        op \in {"profile_save", "profile_update"}, part \in {"row", "details"}}

Crawled == {Card("profile_update", {"row", "details"}, d) : d \in Dossiers}

MCDrafts == Told \cup Crawled \cup {Card("profile_clear", {}, NoDossier)}

Symmetry == Permutations(Proposals) \cup Permutations(Dossiers)
=============================================================================
