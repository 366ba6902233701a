--------------------------- MODULE MCConfirmStore ---------------------------
(***************************************************************************)
(* Two proposals of one author in one chat.  They may share the human turn  *)
(* they come from and the idempotency key of the call that made them; one   *)
(* is of tier L3, the other of a lower one.                                 *)
(***************************************************************************)
EXTENDS ConfirmStore

CONSTANTS a1, k1, r1, key1

Card(tier, run, key) ==
    [tier |-> tier, run |-> run, key |-> key,
     op |-> "update_budget", author |-> a1, chat |-> k1]

MCDrafts ==
    {Card("L3", r1, NoKey), Card("L2", r1, key1), Card("L2", NoRun, key1)}
=============================================================================
