----------------------------- MODULE Executors -----------------------------
(***************************************************************************)
(* The executors that take more than one call to carry out a proposal: the  *)
(* packages of ads/composite.py and the creations of ads/mutations.py, on   *)
(* the one table, with the author of the cards, the scheduler and its       *)
(* clock.  tools_write.execute_confirmed chooses the executor by the        *)
(* operation of the row it has confirmed.                                   *)
(***************************************************************************)
EXTENDS CompositeExecutor, CampaignCreation

vars == <<storeVars, compositeVars, creationVars>>

TypeOK == CompositeTypeOK /\ CreationTypeOK

Init == StoreInit /\ CompositeInit /\ CreationInit

\* A creation has no state to read for its card.
ProposeCreation(c, d) == d.op \in CreateOps /\ SaveProposal(c, d)

\* The reply of the author, its card bound just before.
Reply(c, m) ==
    \/ BindCard(c, draft[c].author, draft[c].chat, m)
    \/ ConfirmByReply(c, draft[c].author, draft[c].chat, m)

Cancel(c) == RejectByActor(c, draft[c].chat, draft[c].author)

Sweep(c) == CleanupStale(c) \/ ReconcileExecuting(c) \/ ReconcileConfirmed(c)

Table(c) ==
    /\ \/ \E d \in Drafts : ProposeCreation(c, d)
       \/ status[c] = "pending" /\ ((\E m \in Messages : Reply(c, m)) \/ Cancel(c))
       \/ Sweep(c)
    /\ UNCHANGED <<compositeVars, creationVars>>

Next ==
    \/ CompositeNext /\ UNCHANGED creationVars
    \/ \E c \in Proposals : CreationStep(c) /\ UNCHANGED compositeVars
    \/ \E c \in Proposals : Table(c)
    \/ Advance /\ UNCHANGED <<compositeVars, creationVars>>

Spec == Init /\ [][Next]_vars

\* Whichever executor wrote it, "applied" is said only of the whole: every step
\* of the package exactly once, or every part of the campaign.
AppliedIsWhole == PackageIsWhole /\ AppliedIsComplete
=============================================================================
