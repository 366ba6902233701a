-------------------------- MODULE ExecuteConfirmed --------------------------
(***************************************************************************)
(* The money path: a human's reply to a confirmation card becomes one       *)
(* Google Ads mutation.  A worker is one running call of the MCP tool       *)
(* execute_confirmed (mcp_server/tools_write.py) or of the function of the  *)
(* same name in ads/service.py; pc[w] names the step it takes next, and a   *)
(* step is what happens between two awaits that another task, process or    *)
(* job can squeeze into:                                                    *)
(*                                                                         *)
(*  read -> bind [-> recheck] -> confirm   tools_write.execute_confirmed    *)
(*  load -> fresh -> resolve               ads/service._apply_confirmed     *)
(*  gates [-> cap] -> event -> claim       mutations._require_confirmation  *)
(*  command -> send -> call -> finalize    mutations.apply_*                *)
(*  verify [-> flag] -> report             service._execute_confirmed_inner *)
(*                                                                         *)
(* The workers share the table (ConfirmStore), the budget gate lock of      *)
(* their process and the account, which other people edit too.  A request   *)
(* given up by its worker (timeout, "unavailable", crash) is adrift: it     *)
(* still lands or vanishes.  The scheduler's sweeps, cancellation, the kill *)
(* switch and crashes interleave with all of it.                            *)
(***************************************************************************)
EXTENDS ConfirmStore, FiniteSets

CONSTANTS
    Workers,      \* concurrent executions
    NoWorker,
    Processes,    \* MCP server processes
    ProcessOf,    \* the process a worker runs in
    Turns,        \* trusted reply turns that may call the tool (see Turn)
    Nobody,       \* the actor and chat of a call that is no reply
    NoProposal,   \* what an idle worker works on
    Unread,       \* no attested snapshot: the state was not read for the card
    MaxAttempts,  \* resilience.ADS_MAX_ATTEMPTS
    MaxOps,       \* settings.daily_budget_increase_max_ops
    WINDOW,       \* the 24 hours of the cap
    MaxEdits,     \* bound: foreign edits stop at this version of the account
    SwitchStates  \* bound: what the kill switch may be set to

\* The operations, told apart by what the gates ask of them.
OpKinds == {"raise_budget", "lower_budget", "set_budget", "create_campaign",
            "pause_campaign", "update_campaign"}

ASSUME PathAssumption ==
    /\ \A d \in Drafts : d.op \in OpKinds
    /\ ProcessOf \in [Workers -> Processes]
    /\ NoWorker \notin Workers
    /\ NoProposal \notin Proposals
    /\ Unread \notin Nat
    /\ SwitchStates \subseteq BOOLEAN
    /\ {MaxAttempts, MaxOps, WINDOW, MaxEdits} \subseteq Nat
    /\ WINDOW < HORIZON
    /\ MaxOps > 0   \* the setting 0 switches the cap off, which is not modelled
    /\ \A t \in Turns : t.cid \in Proposals /\ t.reply \in Messages

VARIABLES
    pc,         \* pc[w]: the step worker w takes next, "idle" between calls
    turn,       \* turn[w]: the reply it serves, with the proposal it names
    call,       \* call[w]: its SDK request (see Calls)
    attempts,   \* attempts[w]: SDK attempts made in this call
    report,     \* report[w]: what the last call of w answered, about which proposal
    gate,       \* gate[p]: the worker holding _BUDGET_GATE_LOCK of process p
    adrift,     \* requests <<c, w, n>> (w's n-th attempt) nobody waits for any more
    effects,    \* effects[c]: how often the change of c reached the account
    version,    \* version of the campaign all the drafts are about
    shown,      \* shown[c]: the version on the card of c, or Unread
    killed,     \* the kill switch of core/killswitch.py
    requested,  \* requested[c]: the money event of c was journaled
    claimAge,   \* claimAge[c]: age of the claim of c, Null before (history)
    repeated    \* proposals sent again after "unavailable" (history)

workerVars == <<pc, turn, call, attempts, report>>
accountVars == <<adrift, effects, version>>
recordVars == <<shown, killed, requested, claimAge, repeated>>
vars == <<storeVars, workerVars, gate, accountVars, recordVars>>

Steps == {"idle", "read", "bind", "recheck", "confirm", "load", "fresh",
          "resolve", "gates", "cap", "event", "claim", "command", "send",
          "call", "finalize", "verify", "flag", "report"}

\* A request is on its way, has taken effect, was certainly not executed, or
\* was answered by an error that does not tell.
Calls == {"none", "flying", "landed", "refused", "unavailable"}

Answers == {"none", "refused", "gate_refusal", "failed", "needs_review", "executed"}

\* ads.service.execute_confirmed called without a reply, as the scripts do.
Direct(c) ==
    [chat |-> Nobody, actor |-> Nobody, intact |-> FALSE, cid |-> c, reply |-> NoAnchor]

DirectTurns == {Direct(c) : c \in Proposals}

NoTurn == Direct(NoProposal)

NoReport == [answer |-> "none", cid |-> NoProposal]

TypeOK ==
    /\ StoreTypeOK
    /\ pc \in [Workers -> Steps]
    /\ turn \in [Workers -> Turns \cup DirectTurns \cup {NoTurn}]
    /\ call \in [Workers -> Calls]
    /\ attempts \in [Workers -> Nat]
    /\ report \in [Workers -> [answer : Answers, cid : Proposals \cup {NoProposal}]]
    /\ gate \in [Processes -> Workers \cup {NoWorker}]
    /\ adrift \subseteq Proposals \X Workers \X Nat
    /\ effects \in [Proposals -> Nat]
    /\ version \in Nat
    /\ shown \in [Proposals -> Nat \cup {Unread}]
    /\ killed \in BOOLEAN
    /\ requested \in [Proposals -> BOOLEAN]
    /\ claimAge \in [Proposals -> Age \cup {Null}]
    /\ repeated \subseteq Proposals

Init ==
    /\ StoreInit
    /\ pc = [w \in Workers |-> "idle"]
    /\ turn = [w \in Workers |-> NoTurn]
    /\ call = [w \in Workers |-> "none"]
    /\ attempts = [w \in Workers |-> 0]
    /\ report = [w \in Workers |-> NoReport]
    /\ gate = [p \in Processes |-> NoWorker]
    /\ adrift = {}
    /\ effects = [c \in Proposals |-> 0]
    /\ version = 0
    /\ shown = [c \in Proposals |-> Unread]
    /\ killed = FALSE
    /\ requested = [c \in Proposals |-> FALSE]
    /\ claimAge = [c \in Proposals |-> Null]
    /\ repeated = {}

-----------------------------------------------------------------------------
(* The registries of the operations.                                        *)

\* mutations.BUDGET_INCREASE_OPS: update_budget in every mode, and creations.
BudgetOp(op) == op \in {"raise_budget", "lower_budget", "set_budget", "create_campaign"}
\* _budget_delta_micros > 0.
Increase(op) == op \in {"raise_budget", "set_budget", "create_campaign"}
\* apply_* calls _require_user_command.
UserCommanded(op) == BudgetOp(op)
\* freshness.FRESHNESS_TIERS.
Strict(op) == op \in {"raise_budget", "lower_budget", "set_budget", "pause_campaign"}
NoDiff(op) == op = "create_campaign"
\* update_budget in a relative mode computes the new value from the old one.
Relative(op) == op \in {"raise_budget", "lower_budget"}
\* set_to does not depend on the value before, so compare leaves it out.
ComparesBefore(op) == op # "set_budget"
\* run_ads_call retries, run_ads_create_call does not.
Retried(op) == op # "create_campaign"
\* service._DIFFABLE_OPS: verified by reading back.
Diffable(op) == op # "create_campaign"
\* The change shows in the state the snapshots are taken of.
ChangesCampaign(op) == op # "create_campaign"

Cid(w) == turn[w].cid
Op(w) == draft[Cid(w)].op

-----------------------------------------------------------------------------
(* How a call moves on and how it ends.                                     *)

Goto(w, step) ==
    /\ pc' = [pc EXCEPT ![w] = step]
    /\ UNCHANGED <<turn, call, attempts, report>>

\* Leaving "async with _BUDGET_GATE_LOCK", normally or by an exception.
Release(w) == gate' = [gate EXCEPT ![ProcessOf[w]] = IF @ = w THEN NoWorker ELSE @]

\* Answering without leaving "async with".
SlipFinish(w, answer) ==
    /\ pc' = [pc EXCEPT ![w] = "idle"]
    /\ turn' = [turn EXCEPT ![w] = NoTurn]
    /\ call' = [call EXCEPT ![w] = "none"]
    /\ attempts' = [attempts EXCEPT ![w] = 0]
    /\ report' = [report EXCEPT ![w] = [answer |-> answer, cid |-> Cid(w)]]
    /\ UNCHANGED gate

Finish(w, answer) ==
    /\ pc' = [pc EXCEPT ![w] = "idle"]
    /\ turn' = [turn EXCEPT ![w] = NoTurn]
    /\ call' = [call EXCEPT ![w] = "none"]
    /\ attempts' = [attempts EXCEPT ![w] = 0]
    /\ report' = [report EXCEPT ![w] = [answer |-> answer, cid |-> Cid(w)]]
    /\ Release(w)

\* A step that only checks: on to the next one, or an exception that becomes
\* the answer and leaves the proposal as it is.
Check(w, at, holds, next, answer) ==
    /\ pc[w] = at
    /\ \/ holds /\ Goto(w, next) /\ UNCHANGED gate
       \/ ~holds /\ Finish(w, answer)
    /\ UNCHANGED <<storeVars, accountVars, recordVars>>

-----------------------------------------------------------------------------
(* tools_write.execute_confirmed up to the confirmation.                    *)

Begin(w, t, step) ==
    /\ pc[w] = "idle"
    /\ pc' = [pc EXCEPT ![w] = step]
    /\ turn' = [turn EXCEPT ![w] = t]
    /\ report' = [report EXCEPT ![w] = NoReport]
    /\ UNCHANGED <<call, attempts, gate, storeVars, accountVars, recordVars>>

StartReply(w, t) == Begin(w, t, "read")
StartDirect(w, t) == Begin(w, t, "load")

\* Not looking for the diff in the quoted card.
SlipReadCard(w) == Check(w, "read", status[Cid(w)] = "pending", "bind", "refused")

ReadCard(w) ==
    Check(w, "read", status[Cid(w)] = "pending" /\ turn[w].intact, "bind", "refused")

BindAnchor(w) ==
    /\ pc[w] = "bind"
    /\ \/ BindCard(Cid(w), turn[w].actor, turn[w].chat, turn[w].reply) /\ Goto(w, "confirm")
       \/ /\ ~MatchBind(Cid(w), turn[w].actor, turn[w].chat)
          /\ Goto(w, "recheck")
          /\ UNCHANGED storeVars
    /\ UNCHANGED <<gate, accountVars, recordVars>>

RecheckAnchor(w) ==
    Check(w, "recheck", AlreadyBound(Cid(w), turn[w].actor, turn[w].chat, turn[w].reply),
          "confirm", "refused")

ConfirmReply(w) ==
    LET t == turn[w]
    IN  /\ pc[w] = "confirm"
        /\ \/ ConfirmByReply(t.cid, t.actor, t.chat, t.reply)
              /\ Goto(w, "load") /\ UNCHANGED gate
           \/ ~MatchConfirmByReply(t.cid, t.actor, t.chat, t.reply)
              /\ Finish(w, "refused") /\ UNCHANGED storeVars
        /\ UNCHANGED <<accountVars, recordVars>>

-----------------------------------------------------------------------------
(* service._apply_confirmed: the orchestrator's checks.                     *)

\* Straight to the gates of the mutation, past the comparison with the card.
SlipLoadConfirmed(w) == Check(w, "load", status[Cid(w)] = "confirmed", "gates", "refused")

\* get_confirmed, then ensure_allowed, which asks the kill switch first.
LoadConfirmed(w) ==
    /\ pc[w] = "load"
    /\ ~(status[Cid(w)] = "confirmed" /\ killed)
    /\ Check(w, "load", status[Cid(w)] = "confirmed", "fresh", "refused")

LoadKilled(w) ==
    /\ pc[w] = "load"
    /\ status[Cid(w)] = "confirmed" /\ killed
    /\ Check(w, "load", FALSE, "fresh", "gate_refusal")

SameAsShown(c) == shown[c] = version

\* _verify_freshness, whose live read may not succeed (readable).
FreshEnough(c, readable) ==
    LET op == draft[c].op
        unchanged == ComparesBefore(op) => SameAsShown(c)
    IN  \/ NoDiff(op)
        \/ Strict(op) /\ shown[c] # Unread /\ readable /\ unchanged
        \/ ~Strict(op) /\ (shown[c] # Unread /\ readable => unchanged)

VerifyFreshness(w) ==
    \E readable \in BOOLEAN :
        Check(w, "fresh", FreshEnough(Cid(w), readable), "resolve", "refused")

\* Resolve the target and compute the new value; _assert_no_drift once more.
ResolveTarget(w) ==
    \E found \in BOOLEAN :
        Check(w, "resolve", found /\ (Relative(Op(w)) => SameAsShown(Cid(w))), "gates", "refused")

-----------------------------------------------------------------------------
(* mutations._require_confirmation, the gate in front of every apply_*.     *)

RefuseKilled(w) ==
    killed /\ Check(w, "gates", FALSE, "gates", "gate_refusal")

\* _require_freshness (gate A): the card was drawn from a state that was read.
PassGates(w) ==
    /\ ~killed
    /\ Check(w, "gates", Strict(Op(w)) => shown[Cid(w)] # Unread,
             IF BudgetOp(Op(w)) THEN "cap" ELSE "event", "refused")

\* recent_money_params: what executes or may have executed within the window.
SpentByCap(x) ==
    /\ status[x] \in {"executing", "applied", "needs_review"}
    /\ Increase(draft[x].op)
    /\ decided[x] <= WINDOW

CapLeft == Cardinality({x \in Proposals : SpentByCap(x)}) < MaxOps

\* Reading the history without waiting for the lock.
SlipTakeBudgetGate(w) ==
    Check(w, "cap", Increase(Op(w)) => CapLeft, "event", "gate_refusal")

\* Take the lock of the process, then _require_budget_blast_radius.
TakeBudgetGate(w) ==
    /\ pc[w] = "cap"
    /\ gate[ProcessOf[w]] = NoWorker
    /\ \/ /\ Increase(Op(w)) => CapLeft
          /\ Goto(w, "event")
          /\ gate' = [gate EXCEPT ![ProcessOf[w]] = w]
       \/ Increase(Op(w)) /\ Finish(w, "gate_refusal")   \* cap spent or history unreadable
    /\ UNCHANGED <<storeVars, accountVars, recordVars>>

\* record_money_event is fail-closed: no event, no claim.
RecordMoneyEvent(w) ==
    /\ pc[w] = "event"
    /\ requested' = [requested EXCEPT ![Cid(w)] = TRUE]
    /\ Goto(w, "claim")
    /\ UNCHANGED <<gate, storeVars, accountVars, shown, killed, claimAge, repeated>>

MoneyEventFails(w) == Check(w, "event", FALSE, "claim", "refused")

ClaimProposal(w) ==
    /\ pc[w] = "claim"
    /\ \/ /\ Claim(Cid(w), Op(w))
          /\ claimAge' = [claimAge EXCEPT ![Cid(w)] = 0]
          /\ Goto(w, "command")
          /\ Release(w)
       \/ /\ ~MatchClaim(Cid(w), Op(w))
          /\ Finish(w, "refused")
          /\ UNCHANGED <<storeVars, claimAge>>
    /\ UNCHANGED <<accountVars, shown, killed, requested, repeated>>

-----------------------------------------------------------------------------
(* apply_* behind the claim: any exception from here on leaves the proposal *)
(* executing.                                                               *)

\* A money mutation without _require_user_command.
SlipCheckUserCommand(w) == Check(w, "command", TRUE, "send", "refused")

CheckUserCommand(w) ==
    Check(w, "command", UserCommanded(Op(w)) => draft[Cid(w)].human, "send", "refused")

SendRequest(w) ==
    /\ pc[w] = "send"
    /\ pc' = [pc EXCEPT ![w] = "call"]
    /\ call' = [call EXCEPT ![w] = "flying"]
    /\ attempts' = [attempts EXCEPT ![w] = 1]
    /\ UNCHANGED <<turn, report, gate, storeVars, accountVars, recordVars>>

\* Quota exhausted or circuit open: an exception before any request.
SendBlocked(w) == Check(w, "send", FALSE, "call", "refused")

\* A request of c takes effect in Google Ads.  A second one, which sends the
\* same values, finds them there unless somebody has edited in between.
Effect(c) ==
    /\ effects' = [effects EXCEPT ![c] = @ + 1]
    /\ \/ ChangesCampaign(draft[c].op) /\ version' = version + 1
       \/ (ChangesCampaign(draft[c].op) => effects[c] > 0) /\ UNCHANGED version

ServerApplies(w) ==
    /\ call[w] = "flying"
    /\ call' = [call EXCEPT ![w] = "landed"]
    /\ Effect(Cid(w))
    /\ UNCHANGED <<pc, turn, attempts, report, gate, adrift, storeVars, recordVars>>

\* A typed error: the request was certainly not executed.
ServerRefuses(w) ==
    /\ call[w] = "flying"
    /\ call' = [call EXCEPT ![w] = "refused"]
    /\ UNCHANGED <<pc, turn, attempts, report, gate, accountVars, storeVars, recordVars>>

\* The request a worker stops waiting for stays on its way, if it still is.
LeftBehind(S) == {<<Cid(x), x, attempts[x]>> : x \in {y \in S : call[y] = "flying"}}

\* gapi.ServiceUnavailable: the connection broke before or after the request
\* was executed, or while it was on its way.
ServerUnavailable(w) ==
    /\ call[w] \in {"flying", "landed"}
    /\ call' = [call EXCEPT ![w] = "unavailable"]
    /\ adrift' = adrift \cup LeftBehind({w})
    /\ UNCHANGED <<pc, turn, attempts, report, gate, effects, version, storeVars, recordVars>>

\* Taking a timeout for an error that can be tried again.
SlipRetryCall(w) ==
    /\ pc[w] = "call" /\ call[w] \in {"flying", "refused", "unavailable"}
    /\ Retried(Op(w)) /\ attempts[w] < MaxAttempts
    /\ call' = [call EXCEPT ![w] = "flying"]
    /\ attempts' = [attempts EXCEPT ![w] = @ + 1]
    /\ adrift' = adrift \cup LeftBehind({w})
    /\ repeated' = IF call[w] = "unavailable" THEN repeated \cup {Cid(w)} ELSE repeated
    /\ UNCHANGED <<pc, turn, report, gate, effects, version, shown, killed, requested,
                   claimAge, storeVars>>

\* _is_retryable_ads: the errors of RETRYABLE_ADS_MUTATE_NAMES, which say that
\* nothing was executed, and ServiceUnavailable, which does not say.
RetryCall(w) ==
    /\ pc[w] = "call" /\ call[w] \in {"refused", "unavailable"}
    /\ Retried(Op(w)) /\ attempts[w] < MaxAttempts
    /\ call' = [call EXCEPT ![w] = "flying"]
    /\ attempts' = [attempts EXCEPT ![w] = @ + 1]
    /\ repeated' = IF call[w] = "unavailable" THEN repeated \cup {Cid(w)} ELSE repeated
    /\ UNCHANGED <<pc, turn, report, gate, accountVars, shown, killed, requested, claimAge,
                   storeVars>>

CallReturns(w) ==
    /\ pc[w] = "call" /\ call[w] = "landed"
    /\ pc' = [pc EXCEPT ![w] = "finalize"]
    /\ call' = [call EXCEPT ![w] = "none"]
    /\ attempts' = [attempts EXCEPT ![w] = 0]
    /\ UNCHANGED <<turn, report, gate, accountVars, storeVars, recordVars>>

CallFails(w) ==
    /\ pc[w] = "call" /\ call[w] \in {"refused", "unavailable"}
    /\ Finish(w, "failed")
    /\ UNCHANGED <<accountVars, storeVars, recordVars>>

\* Going on when the time is over, as if the request had been served.
SlipCallLost(w) ==
    /\ pc[w] = "call" /\ call[w] \in {"flying", "landed"}
    /\ adrift' = adrift \cup LeftBehind({w})
    /\ pc' = [pc EXCEPT ![w] = "finalize"]
    /\ call' = [call EXCEPT ![w] = "none"]
    /\ attempts' = [attempts EXCEPT ![w] = 0]
    /\ UNCHANGED <<turn, report, gate, effects, version, storeVars, recordVars>>

\* The 60 s of an attempt are over, or the server answers INTERNAL_ERROR: the
\* outcome is unknown, the SDK thread runs on, and nothing is tried again.
CallLost(w) ==
    /\ pc[w] = "call" /\ call[w] \in {"flying", "landed"}
    /\ adrift' = adrift \cup LeftBehind({w})
    /\ Finish(w, "failed")
    /\ UNCHANGED <<effects, version, storeVars, recordVars>>

\* finalize, a mere warning when the row is no longer executing.
FinalizeProposal(w) ==
    /\ pc[w] = "finalize"
    /\ \/ Finalize(Cid(w))
       \/ ~MatchFinalize(Cid(w)) /\ UNCHANGED storeVars
    /\ Goto(w, "verify")
    /\ UNCHANGED <<gate, accountVars, recordVars>>

FinalizeFails(w) == Check(w, "finalize", FALSE, "verify", "failed")

-----------------------------------------------------------------------------
(* service._execute_confirmed_inner after the change, and the answer.       *)

\* The account, read back, agrees or cannot be read; or it disagrees with what
\* the card promised, which takes a snapshot to compare with.
PostVerify(w) == Check(w, "verify", TRUE, "report", "failed")
PostVerifyMismatch(w) ==
    /\ pc[w] = "verify"
    /\ Diffable(Op(w)) /\ shown[Cid(w)] # Unread
    /\ Check(w, "verify", TRUE, "flag", "failed")

\* record_verification; its failure is logged and swallowed.
FlagMismatch(w) ==
    /\ pc[w] = "flag"
    /\ RecordVerification(Cid(w)) \/ UNCHANGED storeVars
    /\ Goto(w, "report")
    /\ UNCHANGED <<gate, accountVars, recordVars>>

ReportOutcome(w) ==
    /\ pc[w] = "report"
    /\ Finish(w, IF AppliedAuditResult(Cid(w)) THEN "executed" ELSE "needs_review")
    /\ UNCHANGED <<storeVars, accountVars, recordVars>>

ReportFails(w) == Check(w, "report", FALSE, "report", "failed")

-----------------------------------------------------------------------------
(* Everybody else.                                                          *)

\* build_proposal reads the state, draws the card and stores the draft.  There
\* is no state to read for a creation, and reading may fail.
Snapshots(d) == {Unread} \cup (IF NoDiff(d.op) THEN {} ELSE {version})

Propose(c, d) ==
    /\ SaveProposal(c, d)
    /\ \E snapshot \in Snapshots(d) : shown' = [shown EXCEPT ![c] = snapshot]
    /\ UNCHANGED <<workerVars, gate, accountVars, killed, requested, claimAge, repeated>>

CancelProposal(c) ==
    /\ \E t \in Turns : RejectByActor(c, t.chat, t.actor)
    /\ UNCHANGED <<workerVars, gate, accountVars, recordVars>>

Sweep(c) ==
    /\ CleanupStale(c) \/ ReconcileExecuting(c) \/ ReconcileConfirmed(c)
    /\ UNCHANGED <<workerVars, gate, accountVars, recordVars>>

AdriftLands(r) ==
    /\ adrift' = adrift \ {r}
    /\ Effect(r[1])
    /\ UNCHANGED <<storeVars, workerVars, gate, recordVars>>

AdriftVanishes(r) ==
    /\ adrift' = adrift \ {r}
    /\ UNCHANGED <<effects, version, storeVars, workerVars, gate, recordVars>>

ForeignEdit ==
    /\ version < MaxEdits
    /\ version' = version + 1
    /\ UNCHANGED <<adrift, effects, storeVars, workerVars, gate, recordVars>>

FlipKillSwitch ==
    /\ killed' \in SwitchStates \ {killed}
    /\ UNCHANGED <<storeVars, workerVars, gate, accountVars, shown, requested, claimAge, repeated>>

\* The process dies with everything its workers were about to do.
Crash(p) ==
    LET dead == {w \in Workers : ProcessOf[w] = p}
    IN  /\ \E w \in dead : pc[w] # "idle"
        /\ pc' = [w \in Workers |-> IF w \in dead THEN "idle" ELSE pc[w]]
        /\ call' = [w \in Workers |-> IF w \in dead THEN "none" ELSE call[w]]
        /\ turn' = [w \in Workers |-> IF w \in dead THEN NoTurn ELSE turn[w]]
        /\ attempts' = [w \in Workers |-> IF w \in dead THEN 0 ELSE attempts[w]]
        /\ gate' = [gate EXCEPT ![p] = NoWorker]
        /\ adrift' = adrift \cup LeftBehind(dead)
        /\ UNCHANGED <<report, effects, version, storeVars, recordVars>>

Tick ==
    /\ Advance
    /\ claimAge' = [c \in Proposals |-> Older(claimAge[c])]
    /\ UNCHANGED <<workerVars, gate, accountVars, shown, killed, requested, repeated>>

-----------------------------------------------------------------------------

Start(w) ==
    \/ \E t \in Turns : StartReply(w, t)
    \/ \E t \in DirectTurns : StartDirect(w, t)

Confirmation(w) ==
    ReadCard(w) \/ BindAnchor(w) \/ RecheckAnchor(w) \/ ConfirmReply(w)

Orchestration(w) ==
    LoadConfirmed(w) \/ LoadKilled(w) \/ VerifyFreshness(w) \/ ResolveTarget(w)

Gates(w) ==
    \/ RefuseKilled(w) \/ PassGates(w) \/ TakeBudgetGate(w)
    \/ RecordMoneyEvent(w) \/ MoneyEventFails(w) \/ ClaimProposal(w)

Mutation(w) ==
    \/ CheckUserCommand(w) \/ SendRequest(w) \/ SendBlocked(w)
    \/ RetryCall(w) \/ CallReturns(w) \/ CallFails(w) \/ CallLost(w)
    \/ FinalizeProposal(w) \/ FinalizeFails(w)

Answer(w) ==
    PostVerify(w) \/ PostVerifyMismatch(w) \/ FlagMismatch(w) \/ ReportOutcome(w) \/ ReportFails(w)

Work(w) ==
    Confirmation(w) \/ Orchestration(w) \/ Gates(w) \/ Mutation(w) \/ Answer(w)

Server(w) == ServerApplies(w) \/ ServerRefuses(w) \/ ServerUnavailable(w)

Next ==
    \/ \E w \in Workers : Start(w) \/ Work(w) \/ Server(w)
    \/ \E c \in Proposals :
        \/ \E d \in Drafts : Propose(c, d)
        \/ CancelProposal(c)
        \/ Sweep(c)
    \/ \E r \in adrift : AdriftLands(r) \/ AdriftVanishes(r)
    \/ ForeignEdit \/ FlipKillSwitch \/ Tick
    \/ \E p \in Processes : Crash(p)

Spec == Init /\ [][Next]_vars

-----------------------------------------------------------------------------
(* Safety.                                                                  *)

Unsent == {"absent", "pending", "confirmed", "rejected", "failed"}

Flying(c) == \E w \in Workers : call[w] = "flying" /\ Cid(w) = c
Drifting(c) == \E r \in adrift : r[1] = c

\* However often the reply is delivered, a script executes the same proposal
\* or a process dies: the change reaches the account at most once, and no
\* second request is on its way when it has.  The one exception is made by
\* run_ads_call, which sends a request again that ServiceUnavailable left in
\* doubt; a creation is at most one even then.
SentAgain(c) == c \in repeated /\ Retried(draft[c].op)

AtMostOnce ==
    \A c \in Proposals : SentAgain(c)
        \/ /\ effects[c] <= 1
           /\ effects[c] = 1 => ~Flying(c) /\ ~Drifting(c)

\* A proposal that is undecided, rejected or failed has not touched the
\* account and has nothing on its way there: "failed" says "not applied".
VoidMeansUntouched ==
    \A c \in Proposals : status[c] \in Unsent =>
        effects[c] = 0 /\ ~Flying(c) /\ ~Drifting(c)

\* No change without consent, journaled request and, where money moves, a
\* human turn behind the draft.
EffectIsAuthorised ==
    \A c \in Proposals : effects[c] > 0 =>
        /\ \E i \in 1 .. Len(journal[c]) : journal[c][i] = "confirmed"
        /\ requested[c]
        /\ UserCommanded(draft[c].op) => draft[c].human

\* Success is never claimed falsely: "executed" is told, and "applied" written
\* into the journal, only of a change that is in the account.
SuccessIsTrue ==
    /\ \A w \in Workers : report[w].answer = "executed" => effects[report[w].cid] > 0
    /\ \A c \in Proposals : \A i \in 1 .. Len(journal[c]) :
          journal[c][i] = "applied" => effects[c] > 0

\* Within the window no more increases are claimed than the cap allows, with
\* one process: the lock covers reading the history and the claim that adds
\* to it, and no later stamp of decided_at takes a claim out of the window.
ClaimedInWindow(c) == Increase(draft[c].op) /\ claimAge[c] \in 0 .. WINDOW

BudgetCapHolds ==
    Cardinality({c \in Proposals : draft[c] # NoDraft /\ ClaimedInWindow(c)}) <= MaxOps

-----------------------------------------------------------------------------
(* What a step may do.                                                      *)

Serves(w, c) ==
    /\ Cid(w) = c
    /\ turn[w].actor = draft[c].author
    /\ turn[w].chat = draft[c].chat

ConsentGiven(c) == status[c] = "pending" /\ status'[c] = "confirmed"

\* A pending card becomes consent only by a reply of its author, in its chat,
\* to the very message it is anchored to, quoting the diff unchanged; and a
\* reply of somebody else, however early, never occupies the anchor.
OnlyTheAuthorAnswers ==
    [][\A c \in Proposals :
          /\ ConsentGiven(c) =>
                \E w \in Workers : Serves(w, c) /\ turn[w].intact /\ turn[w].reply = anchor[c]
          /\ anchor'[c] # anchor[c] =>
                \E w \in Workers : Serves(w, c) /\ turn[w].reply = anchor'[c]]_vars

\* What was sent is the diff on the card: a relative change whose base had
\* moved when the human was still to consent never reaches the account.
BaseMoved(c) ==
    status[c] = "pending" /\ Relative(draft[c].op) /\ ~SameAsShown(c)

MovedBaseIsNeverExecuted ==
    \A c \in Proposals : [](BaseMoved(c) => [](effects[c] = 0))

-----------------------------------------------------------------------------
(* The lifecycle this path implements.                                      *)

StageOf ==
    [s \in Statuses |->
        CASE s = "absent" -> "none"
          [] s = "pending" -> "open"
          [] s = "confirmed" -> "consented"
          [] s = "executing" -> "committed"
          [] s = "applied" -> "done"
          [] s = "needs_review" -> "doubt"
          [] OTHER -> "void"]

\* Only of a request that run_ads_call sent again the lifecycle is told that it
\* happened and not how often (AtMostOnce says which these can be).
Happened ==
    [c \in Proposals |-> IF SentAgain(c) /\ effects[c] > 0 THEN 1 ELSE effects[c]]

Lifecycle == INSTANCE ProposalLifecycle
    WITH life <- [c \in Proposals |-> StageOf[status[c]]], effects <- Happened

ImplementsLifecycle == Lifecycle!LifecycleSpec

-----------------------------------------------------------------------------
(* Liveness.  The clock runs; the scheduler runs its sweeps; a worker that   *)
(* can go on does, and the lock, an asyncio.Lock with its queue of waiters,  *)
(* comes round to each.  Nothing is assumed of the humans, of the account,   *)
(* or of whether a process survives.                                        *)

Fairness ==
    /\ WF_vars(Tick)
    /\ \A c \in Proposals : WF_vars(Sweep(c))
    /\ \A w \in Workers : WF_vars(Work(w)) /\ SF_vars(TakeBudgetGate(w))

FairSpec == Spec /\ Fairness

\* Nothing waits for ever: an undecided card is decided or expires, and a
\* confirmed or executing proposal gets its verdict, whatever crashed.
EveryCardIsDecided ==
    \A c \in Proposals : status[c] = "pending" ~> status[c] # "pending"

EveryConsentIsSettled ==
    \A c \in Proposals : status[c] \in {"confirmed", "executing"} ~>
        status[c] \in {"pending", "applied", "failed", "needs_review"}

\* Every call of the tool is answered, or dies with its process.
EveryCallEnds ==
    \A w \in Workers : pc[w] # "idle" ~> pc[w] = "idle"
=============================================================================
