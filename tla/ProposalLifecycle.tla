------------------------- MODULE ProposalLifecycle -------------------------
(***************************************************************************)
(* What the confirmation gate promises about one proposal, without saying   *)
(* how it keeps the promise: a proposal is proposed, a human consents, one  *)
(* executor commits to it, and only then may the change reach the account,  *)
(* at most once.  "done" is said only of a change that took effect, "void"  *)
(* only of one that never will; everything else that was committed ends in  *)
(* "doubt", where a human looks at the account.                             *)
(*                                                                         *)
(* The statuses are those of confirm/store.py under other names:            *)
(*   open = pending, consented = confirmed, committed = executing,          *)
(*   done = applied, doubt = needs_review, void = rejected or failed.       *)
(***************************************************************************)
EXTENDS Naturals

CONSTANT Proposals

VARIABLES
    life,     \* life[p]: where proposal p stands
    effects   \* effects[p]: how many times its change reached the account

lifecycleVars == <<life, effects>>

Stage == {"none", "open", "consented", "committed", "done", "doubt", "void"}

LifecycleTypeOK ==
    /\ life \in [Proposals -> Stage]
    /\ effects \in [Proposals -> Nat]

LifecycleInit ==
    /\ life = [p \in Proposals |-> "none"]
    /\ effects = [p \in Proposals |-> 0]

Move(p, from, to) ==
    /\ life[p] \in from
    /\ life' = [life EXCEPT ![p] = to]
    /\ UNCHANGED effects

Propose(p) == Move(p, {"none"}, "open")
Consent(p) == Move(p, {"open"}, "consented")
\* An outside obstacle before the commitment hands the proposal back.
HandBack(p) == Move(p, {"consented"}, "open")
Commit(p) == Move(p, {"consented"}, "committed")
\* A change still on its way may land after the proposal went into doubt.
TakeEffect(p) ==
    /\ life[p] \in {"committed", "doubt"}
    /\ effects[p] = 0
    /\ effects' = [effects EXCEPT ![p] = 1]
    /\ UNCHANGED life
Acknowledge(p) == effects[p] = 1 /\ Move(p, {"committed"}, "done")
Question(p) == Move(p, {"committed", "done"}, "doubt")
Abandon(p) == Move(p, {"open", "consented"}, "void")
\* A commitment is withdrawn only when its change has not taken effect.
Withdraw(p) == effects[p] = 0 /\ Move(p, {"committed"}, "void")

LifecycleNext ==
    \E p \in Proposals :
        \/ Propose(p) \/ Consent(p) \/ HandBack(p) \/ Commit(p)
        \/ TakeEffect(p) \/ Acknowledge(p) \/ Question(p)
        \/ Abandon(p) \/ Withdraw(p)

LifecycleSpec == LifecycleInit /\ [][LifecycleNext]_lifecycleVars

(***************************************************************************)
(* The promise in one line each: no change twice, none without commitment,  *)
(* and "done" means it happened.                                            *)
(***************************************************************************)
LifecyclePromise ==
    \A p \in Proposals :
        /\ effects[p] \in {0, 1}
        /\ life[p] \in {"none", "open", "consented", "void"} => effects[p] = 0
        /\ life[p] = "done" => effects[p] = 1
=============================================================================
