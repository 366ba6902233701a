------------------------- MODULE CompositeExecutor -------------------------
(***************************************************************************)
(* ads/composite.py: one consent for a package of two to ten reversible     *)
(* changes.  The executor claims the parent proposal, runs the steps in     *)
(* order, each through the gates and the apply function a single proposal   *)
(* would take, reads every one back, and when something fails brings back   *)
(* the completed steps in reverse order.  Its list of completed steps is in *)
(* memory only: pc[c] is where the executor of proposal c is and at[c] the  *)
(* step it is about,                                                        *)
(*                                                                         *)
(*  gates -> call -> verify -> gates ... -> finalize      forwards          *)
(*  rebuild -> undo -> check -> rebuild ... -> settle     backwards         *)
(*                                                                         *)
(* A step is recorded as completed once its call has returned: that is      *)
(* at[c] steps from "verify" on and at[c] - 1 before.  The claim lets in    *)
(* one executor, so there is at most one of each proposal.                  *)
(*                                                                         *)
(* The budget cap is off (settings.daily_budget_increase_max_ops = 0): with *)
(* the cap on, the store of a step has no recent_money_params and every     *)
(* budget step is refused, which is one of the refusals of StepRefused.     *)
(***************************************************************************)
EXTENDS ConfirmStore, CampaignAccount, FiniteSets

CONSTANTS
    FirstAccount,  \* the account in the beginning
    ForeignEdits,  \* bound: the changes other people may make
    MaxEdits,      \* bound: how many of them
    NoRequest

VARIABLES
    pc,        \* pc[c]: what the executor of package c does next
    at,        \* at[c]: the step, in order of execution, it is about
    clean,     \* clean[c]: rollback_ok
    request,   \* request[c]: the request of its running call
    call,      \* call[c]: none, flying, landed or refused
    adrift,    \* requests <<c, r>> nobody waits for, which may still land
    card,      \* card[c]: the snapshots of the steps the card was drawn from
    acct,      \* the account
    edits,     \* changes other people made
    origin,    \* origin[c]: the account when c was claimed (history)
    touched,   \* touched[c]: others changed the account since (history)
    lost,      \* lost[c]: a call of c ended with its outcome unknown (history)
    hits,      \* hits[c]: the steps that landed, as often as they did (history)
    undos      \* undos[c]: the steps whose undoing landed (history)

executorVars == <<pc, at, clean, request, call>>
packageAccount == <<adrift, acct, edits>>
packageHistory == <<origin, touched, lost, hits, undos>>
compositeVars == <<executorVars, packageAccount, card, packageHistory>>

Packages == {d \in Drafts : d.op = "composite"}

ASSUME PackageAssumption ==
    /\ \A d \in Packages : DOMAIN d.steps = 1 .. Len(d.steps) /\ Len(d.steps) \in 2 .. 10
    /\ WellFormed(FirstAccount) /\ NamesApart(FirstAccount)
    /\ \A r \in ForeignEdits : Understood(r)
    /\ MaxEdits \in Nat

Forwards == {"gates", "call", "verify", "finalize"}
Backwards == {"rebuild", "undo", "check", "settle"}

CompositeTypeOK ==
    /\ StoreTypeOK
    /\ pc \in [Proposals -> {"idle"} \cup Forwards \cup Backwards]
    /\ at \in [Proposals -> 0 .. 10]
    /\ clean \in [Proposals -> BOOLEAN]
    /\ call \in [Proposals -> {"none", "flying", "landed", "refused"}]
    /\ \A c \in Proposals :
        /\ call[c] = "none" => request[c] = NoRequest
        /\ call[c] # "none" => pc[c] \in {"call", "undo"}
        /\ pc[c] # "idle" => /\ draft[c] \in Packages
                             /\ at[c] <= Len(draft[c].steps)
                             /\ pc[c] \notin {"settle"} => at[c] > 0
    /\ edits \in 0 .. MaxEdits

CompositeInit ==
    /\ pc = [c \in Proposals |-> "idle"]
    /\ at = [c \in Proposals |-> 0]
    /\ clean = [c \in Proposals |-> TRUE]
    /\ request = [c \in Proposals |-> NoRequest]
    /\ call = [c \in Proposals |-> "none"]
    /\ adrift = {}
    /\ card = [c \in Proposals |-> <<>>]
    /\ acct = FirstAccount
    /\ edits = 0
    /\ origin = [c \in Proposals |-> FirstAccount]
    /\ touched = [c \in Proposals |-> FALSE]
    /\ lost = [c \in Proposals |-> FALSE]
    /\ hits = [c \in Proposals |-> <<>>]
    /\ undos = [c \in Proposals |-> <<>>]

-----------------------------------------------------------------------------
(* tools_write.propose_composite_change.                                    *)

Renames(s) == s.op = "update_campaign"

\* _ordered_steps forgotten.
SlipOrdered(steps) == steps

\* _ordered_steps: the order of the user, but renames last.
Before(steps, j, i) ==
    IF Renames(steps[i]) = Renames(steps[j]) THEN j < i ELSE Renames(steps[i])

Place(steps, i) == 1 + Cardinality({j \in DOMAIN steps : Before(steps, j, i)})

Ordered(steps) ==
    [n \in DOMAIN steps |-> steps[CHOOSE i \in DOMAIN steps : Place(steps, i) = n]]

\* A step may name a campaign as the package will have renamed it.
RenameOf(steps, name) == {i \in DOMAIN steps : Renames(steps[i]) /\ steps[i].to = name}

Normalised(steps) ==
    [i \in DOMAIN steps |->
        IF Renames(steps[i]) \/ RenameOf(steps, steps[i].camp) = {} THEN steps[i]
        ELSE [steps[i] EXCEPT !.camp = steps[CHOOSE j \in RenameOf(steps, @) : TRUE].camp]]

ChainedRenames(steps) ==
    \E i, j \in DOMAIN steps :
        /\ Renames(steps[i]) /\ Renames(steps[j])
        /\ steps[i].to = steps[j].camp \/ (i # j /\ steps[i].to = steps[j].to)

Plan(c) == Ordered(Normalised(draft[c].steps))
Step(c) == Plan(c)[at[c]]
Shown(c) == card[c][at[c]]

\* Every step is reversible as the account is now.
AcceptablePackage(steps, plan, shown) ==
    /\ ~ChainedRenames(steps)
    /\ \A i \in DOMAIN plan :
        plan[i].op \in RollbackableOps /\ ReverseSpec(plan[i], shown[i]) # {}

\* The snapshots of all the steps are taken before any of them runs.
ProposePackage(c, d) ==
    LET plan == Ordered(Normalised(d.steps))
        shown == [i \in DOMAIN plan |-> Snapshot(acct, plan[i])]
    IN  /\ d \in Packages
        /\ AcceptablePackage(d.steps, plan, shown)
        /\ SaveProposal(c, d)
        /\ card' = [card EXCEPT ![c] = shown]
        /\ UNCHANGED <<executorVars, packageAccount, packageHistory>>

-----------------------------------------------------------------------------
(* The executor, forwards.                                                  *)

Move(c, where, step) ==
    /\ pc' = [pc EXCEPT ![c] = where]
    /\ at' = [at EXCEPT ![c] = step]

NoCall(c) ==
    /\ request' = [request EXCEPT ![c] = NoRequest]
    /\ call' = [call EXCEPT ![c] = "none"]

Issue(c, r) ==
    /\ request' = [request EXCEPT ![c] = r]
    /\ call' = [call EXCEPT ![c] = "flying"]

\* Going back over n completed steps.
RollBack(c, n) == Move(c, IF n = 0 THEN "settle" ELSE "rebuild", n)

ClaimPackage(c) ==
    /\ pc[c] = "idle"
    /\ Claim(c, "composite")
    /\ Move(c, "gates", 1)
    /\ clean' = [clean EXCEPT ![c] = TRUE]
    /\ origin' = [origin EXCEPT ![c] = acct]
    /\ touched' = [touched EXCEPT ![c] = FALSE]
    /\ UNCHANGED <<request, call, packageAccount, card, lost, hits, undos>>

\* On to the step after this one.
Proceed(c) ==
    IF at[c] = Len(Plan(c)) THEN Move(c, "finalize", at[c]) ELSE Move(c, "gates", at[c] + 1)

\* Sending what was confirmed, whatever the account has become.
SlipFreshNow(c) == TRUE

\* The step is compared with the account as it is when its turn comes.
FreshNow(c) == FreshStep(Step(c), Shown(c), Snapshot(acct, Step(c)))

\* execute_confirmed_step up to the call.
SendStep(c) ==
    /\ pc[c] = "gates"
    /\ Found(acct, Step(c)) /\ FreshNow(c)
    /\ Issue(c, Request(acct, Step(c)))
    /\ Move(c, "call", at[c])
    /\ UNCHANGED <<storeVars, clean, packageAccount, card, packageHistory>>

\* Doing as much of a package as can be done.
SlipStepRefused(c) ==
    /\ pc[c] = "gates"
    /\ Proceed(c)
    /\ UNCHANGED <<storeVars, clean, request, call, packageAccount, card, packageHistory>>

\* The other gates, a read of the account among them, may refuse any step.
StepRefused(c) ==
    /\ pc[c] = "gates"
    /\ RollBack(c, at[c] - 1)
    /\ UNCHANGED <<storeVars, clean, request, call, packageAccount, card, packageHistory>>

StepReturns(c) ==
    /\ pc[c] = "call" /\ call[c] = "landed"
    /\ NoCall(c)
    /\ Move(c, "verify", at[c])
    /\ UNCHANGED <<storeVars, clean, packageAccount, card, packageHistory>>

StepFails(c) ==
    /\ pc[c] = "call" /\ call[c] = "refused"
    /\ NoCall(c)
    /\ RollBack(c, at[c] - 1)
    /\ UNCHANGED <<storeVars, clean, packageAccount, card, packageHistory>>

LeftBehind(c) == IF call[c] = "flying" THEN {<<c, request[c], pc[c], at[c]>>} ELSE {}

\* A timeout or INTERNAL_ERROR: an exception like any other for the executor.
StepLost(c) ==
    /\ pc[c] = "call" /\ call[c] \in {"flying", "landed"}
    /\ adrift' = adrift \cup LeftBehind(c)
    /\ lost' = [lost EXCEPT ![c] = TRUE]
    /\ NoCall(c)
    /\ RollBack(c, at[c] - 1)
    /\ UNCHANGED <<storeVars, clean, acct, edits, card, origin, touched, hits, undos>>

StepVerified(c) ==
    /\ pc[c] = "verify"
    /\ Verified(acct, Step(c), Shown(c))
    /\ Proceed(c)
    /\ UNCHANGED <<storeVars, clean, request, call, packageAccount, card, packageHistory>>

\* A step that is appended to the completed ones after it is read back.
SlipStepUnverified(c) ==
    /\ pc[c] = "verify"
    /\ RollBack(c, at[c] - 1)
    /\ UNCHANGED <<storeVars, clean, request, call, packageAccount, card, packageHistory>>

\* It disagrees or cannot be read; then the completed step is undone as well.
StepUnverified(c) ==
    /\ pc[c] = "verify"
    /\ RollBack(c, at[c])
    /\ UNCHANGED <<storeVars, clean, request, call, packageAccount, card, packageHistory>>

\* finalize, which only warns when the row is no longer executing, or raises.
FinalizePackage(c) ==
    /\ pc[c] = "finalize"
    /\ Finalize(c) \/ UNCHANGED storeVars
    /\ Move(c, "idle", 0)
    /\ UNCHANGED <<clean, request, call, packageAccount, card, packageHistory>>

-----------------------------------------------------------------------------
(* The executor, backwards.                                                 *)

\* "continue" after a completed step, with the step before it.
Onward(c) == Move(c, IF at[c] = 1 THEN "settle" ELSE "rebuild", at[c] - 1)

Incomplete(c) == clean' = [clean EXCEPT ![c] = FALSE]

\* _rebuilt_reverse reads the state afresh, so its snapshot is the base.
SendUndo(c) ==
    /\ pc[c] = "rebuild"
    /\ \E u \in ReverseSpec(Step(c), Shown(c)) :
        Found(acct, u) /\ Issue(c, Request(acct, u))
    /\ Move(c, "undo", at[c])
    /\ UNCHANGED <<storeVars, clean, packageAccount, card, packageHistory>>

\* Nothing to send, or a gate refuses it.
UndoRefused(c) ==
    /\ pc[c] = "rebuild"
    /\ Incomplete(c)
    /\ Onward(c)
    /\ UNCHANGED <<storeVars, request, call, packageAccount, card, packageHistory>>

UndoReturns(c) ==
    /\ pc[c] = "undo" /\ call[c] = "landed"
    /\ NoCall(c)
    /\ Move(c, "check", at[c])
    /\ UNCHANGED <<storeVars, clean, packageAccount, card, packageHistory>>

UndoFails(c) ==
    /\ pc[c] = "undo" /\ call[c] = "refused"
    /\ NoCall(c)
    /\ Incomplete(c)
    /\ Onward(c)
    /\ UNCHANGED <<storeVars, packageAccount, card, packageHistory>>

UndoLost(c) ==
    /\ pc[c] = "undo" /\ call[c] \in {"flying", "landed"}
    /\ adrift' = adrift \cup LeftBehind(c)
    /\ lost' = [lost EXCEPT ![c] = TRUE]
    /\ NoCall(c)
    /\ Incomplete(c)
    /\ Onward(c)
    /\ UNCHANGED <<storeVars, acct, edits, card, origin, touched, hits, undos>>

\* The undoing is compared with the snapshot taken for it, which promised the
\* value of the card.
UndoneAsPromised(c) ==
    \E u \in ReverseSpec(Step(c), Shown(c)) :
        /\ Found(acct, AsNamedAfter(u))
        /\ Value(acct[CHOOSE x \in Named(acct, AsNamedAfter(u).camp) : TRUE], u) = Shown(c).before

UndoVerified(c) ==
    /\ pc[c] = "check"
    /\ UndoneAsPromised(c)
    /\ Onward(c)
    /\ UNCHANGED <<storeVars, clean, request, call, packageAccount, card, packageHistory>>

UndoUnverified(c) ==
    /\ pc[c] = "check"
    /\ Incomplete(c)
    /\ Onward(c)
    /\ UNCHANGED <<storeVars, request, call, packageAccount, card, packageHistory>>

\* The verdict, whose write may fail: the row then waits for reconciliation.
SettlePackage(c) ==
    /\ pc[c] = "settle"
    /\ \/ clean[c] /\ RecordFailure(c)
       \/ ~clean[c] /\ MarkNeedsReview(c)
       \/ UNCHANGED storeVars
    /\ Move(c, "idle", 0)
    /\ UNCHANGED <<clean, request, call, packageAccount, card, packageHistory>>

-----------------------------------------------------------------------------
(* The account and everybody else.                                          *)

\* For all proposals but c somebody else has changed the account.
ByOne(c) == touched' = [x \in Proposals |-> touched[x] \/ x # c]

\* Whose change it was: a step of a package, counted, or its undoing.
Count(c, where, i) ==
    /\ hits' = IF where = "call" THEN [hits EXCEPT ![c] = Append(@, i)] ELSE hits
    /\ undos' = IF where = "undo" THEN [undos EXCEPT ![c] = Append(@, i)] ELSE undos
    /\ ByOne(c)

ServerApplies(c) ==
    /\ call[c] = "flying"
    /\ Acceptable(acct, request[c])
    /\ acct' = Applied(acct, request[c])
    /\ call' = [call EXCEPT ![c] = "landed"]
    /\ Count(c, pc[c], at[c])
    /\ UNCHANGED <<storeVars, pc, at, clean, request, adrift, edits, card, origin, lost>>

ServerRefuses(c) ==
    /\ call[c] = "flying"
    /\ call' = [call EXCEPT ![c] = "refused"]
    /\ UNCHANGED <<storeVars, pc, at, clean, request, packageAccount, card, packageHistory>>

\* A launch that breaks off: its first change is made, its call has failed.
LaunchBreaksOff(c) ==
    /\ call[c] = "flying" /\ request[c].op = "launch_campaign"
    /\ acct' \in Launching(acct, request[c])
    /\ call' = [call EXCEPT ![c] = "refused"]
    /\ ByOne(c)
    /\ UNCHANGED <<storeVars, pc, at, clean, request, adrift, edits, card, origin, lost, hits,
                   undos>>

AdriftLands(a) ==
    /\ Acceptable(acct, a[2])
    /\ acct' = Applied(acct, a[2])
    /\ adrift' = adrift \ {a}
    /\ Count(a[1], a[3], a[4])
    /\ UNCHANGED <<storeVars, executorVars, edits, card, origin, lost>>

AdriftVanishes(a) ==
    /\ adrift' = adrift \ {a}
    /\ UNCHANGED <<storeVars, executorVars, acct, edits, card, packageHistory>>

ForeignEdit(r) ==
    /\ edits < MaxEdits
    /\ Acceptable(acct, r)
    /\ acct' = Applied(acct, r)
    /\ edits' = edits + 1
    /\ touched' = [c \in Proposals |-> TRUE]
    /\ UNCHANGED <<storeVars, executorVars, adrift, card, origin, lost, hits, undos>>

\* The process dies: the list of completed steps dies with it.
ExecutorCrashes(c) ==
    /\ pc[c] # "idle"
    /\ adrift' = adrift \cup LeftBehind(c)
    /\ lost' = [lost EXCEPT ![c] = @ \/ call[c] # "none"]
    /\ NoCall(c)
    /\ Move(c, "idle", 0)
    /\ UNCHANGED <<storeVars, clean, acct, edits, card, origin, touched, hits, undos>>

CompositeStep(c) ==
    \/ ClaimPackage(c)
    \/ SendStep(c) \/ StepRefused(c) \/ StepReturns(c) \/ StepFails(c) \/ StepLost(c)
    \/ StepVerified(c) \/ StepUnverified(c) \/ FinalizePackage(c)
    \/ SendUndo(c) \/ UndoRefused(c) \/ UndoReturns(c) \/ UndoFails(c) \/ UndoLost(c)
    \/ UndoVerified(c) \/ UndoUnverified(c) \/ SettlePackage(c)
    \/ ServerApplies(c) \/ ServerRefuses(c) \/ LaunchBreaksOff(c)
    \/ ExecutorCrashes(c)

CompositeNext ==
    \/ \E c \in Proposals :
        \/ \E d \in Packages : ProposePackage(c, d)
        \/ CompositeStep(c)
    \/ \E a \in adrift : AdriftLands(a) \/ AdriftVanishes(a)
    \/ \E r \in ForeignEdits : ForeignEdit(r)

-----------------------------------------------------------------------------
(* Correctness of packages.                                                 *)

Launches(c) == \E i \in DOMAIN Plan(c) : Plan(c)[i].op = "launch_campaign"

\* Nothing but the package has changed the account since the claim.
Alone(c) == ~touched[c]

\* "applied" is said of the whole package: each step of the card, in order of
\* execution, has reached the account exactly once and none was undone.
PackageIsWhole ==
    \A c \in Proposals : status[c] = "applied" /\ draft[c] \in Packages =>
        hits[c] = [i \in DOMAIN Plan(c) |-> i] /\ undos[c] = <<>>

\* What the gates do not compare when a step is sent, and its undoing relies on:
\* the base of a value that is set, and that a keyword has a bid of its own.
BasesHeld(c) ==
    \A i \in DOMAIN Plan(c) :
        LET live == Snapshot(origin[c], Plan(c)[i])
        IN  Plan(c)[i].op \in MoneyOps /\ live.ok =>
                /\ Plan(c)[i].mode = "set_to" => live.before = card[c][i].before
                /\ live.own = card[c][i].own

\* A package that failed has left no trace, if every call had a certain outcome
\* and it launched no campaign: "completed steps rolled back" is true, as long as
\* nobody changed what the gates do not compare between the card and the claim.
FailedIsRestored ==
    \A c \in Proposals :
        /\ status[c] = "failed" /\ draft[c] \in Packages
        /\ Alone(c) /\ ~lost[c] /\ ~Launches(c) /\ BasesHeld(c)
        => acct = origin[c]

\* What core/ads_errors.py says of every proposal: "failed" asserts that nothing
\* was applied, whatever the package does and however its calls ended.
FailedMeansRestored ==
    \A c \in Proposals :
        status[c] = "failed" /\ draft[c] \in Packages /\ Alone(c) => acct = origin[c]

\* The step renames a campaign that an earlier step has renamed, which
\* propose_composite_change lets pass.
RenamedAgain(c) ==
    \E j \in 1 .. at[c] - 1 :
        Renames(Step(c)) /\ Renames(Plan(c)[j]) /\ Plan(c)[j].camp = Step(c).camp

\* A package does not hide its own campaigns: a step that finds its campaign
\* when the package is claimed finds it when its turn comes, but for a second
\* rename of it.
OwnRenameNeverHides ==
    \A c \in Proposals :
        pc[c] = "gates" /\ Alone(c) /\ Found(origin[c], Step(c)) /\ ~RenamedAgain(c)
            => Found(acct, Step(c))

\* Whatever others do to the account before and between the steps, a step sends
\* the value its card showed, and its undoing the value that was there before.
SentIsShown ==
    \A c \in Proposals : call[c] = "flying" =>
        /\ pc[c] = "call" => request[c].value = Shown(c).after
        /\ pc[c] = "undo" => request[c].value = Shown(c).before
=============================================================================
