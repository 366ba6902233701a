---------------------------- MODULE WizardDrafts ----------------------------
(***************************************************************************)
(* The drafts of the campaign wizard: campaigns/wizard_store.py under the   *)
(* tools search_wizard_start, _update and _finalize of                     *)
(* mcp_server/tools_workflow_state.py, and the job that ends idle drafts    *)
(* (scheduler/jobs.py, cleanup_stale_campaign_drafts).                     *)
(*                                                                         *)
(* The drafts are those of one chat and account.  Several calls of the      *)
(* tools run at once.  Each reads the draft, checks what it read, and then  *)
(* runs transactions of its own; patch and set_step lock the row they read, *)
(* the job and create do not.                                              *)
(*                                                                         *)
(* wizard_state is one JSON value, written as a whole.  What it holds of a  *)
(* stage is the number of the edit that gave it, 0 before the first.        *)
(***************************************************************************)
EXTENDS Naturals

CONSTANTS
    Sessions,  \* session ids that may be given to drafts of the chat
    Calls,     \* calls of the tools that may run at a time
    NoCall,    \* nobody holds the lock of a row
    NoSession,
    LAST,      \* the last stage with data (6 in the code)
    TTL,       \* campaign_draft_ttl_hours
    WARN,      \* TTL less DRAFT_EXPIRY_WARN_HOURS
    Stamps,    \* of a warning: whether it is as late as the update that writes it
    MaxEdits   \* bound on the number of edits

ASSUME WizardAssumption ==
    /\ LAST \in Nat \ {0} /\ MaxEdits \in Nat
    /\ TTL \in Nat /\ WARN \in Nat /\ WARN < TTL
    /\ NoCall \notin Calls /\ NoSession \notin Sessions
    /\ Stamps \subseteq BOOLEAN

Stages == 1..LAST
States == [Stages -> Nat]
Empty == [s \in Stages |-> 0]

VARIABLES
    status,  \* status[d] of the row; "absent": there is none
    step,    \* step[d]: current_step
    state,   \* state[d]: wizard_state
    idle,    \* idle[d]: age of updated_at, not counted beyond TTL + 1
    warned,  \* warned[d]: there is an expiry_warned_at as late as updated_at
    lock,    \* lock[d]: the call that holds the row lock
    pc,      \* pc[k]: where the call k is
    on,      \* on[k]: the draft it is about
    stage,   \* stage[k]: the stage it edits
    view,    \* view[k]: the wizard_state it has read
    prev,    \* prev[k]: the active drafts that create has read
    plan,    \* plan[d]: what the job is about to do
    seen,    \* seen[d]: the wizard_state the job has read
    edits,   \* number of edits so far
    told,    \* told[d][s]: the last edit of s that was committed (history)
    raced,   \* raced[d]: an edit was committed in the middle of a warning (history)
    elder,   \* elder[d]: drafts that were there when d was asked for (history)
    minted   \* minted[d]: what proposals were made of (history)

rowVars == <<status, step, state, idle, warned>>
callVars == <<lock, pc, on, stage, view, prev>>
jobVars == <<plan, seen>>
pastVars == <<edits, told, raced, elder, minted>>
vars == <<rowVars, callVars, jobVars, pastVars>>

TypeOK ==
    /\ status \in [Sessions -> {"absent", "active", "abandoned"}]
    /\ step \in [Sessions -> 0..LAST + 1]
    /\ state \in [Sessions -> States]
    /\ idle \in [Sessions -> 0..TTL + 1]
    /\ warned \in [Sessions -> BOOLEAN]
    /\ lock \in [Sessions -> Calls \cup {NoCall}]
    /\ pc \in [Calls -> {"idle", "create", "patch", "write", "step", "mint", "last"}]
    /\ on \in [Calls -> Sessions \cup {NoSession}]
    /\ stage \in [Calls -> 0..LAST]
    /\ view \in [Calls -> States]
    /\ prev \in [Calls -> SUBSET Sessions]
    /\ plan \in [Sessions -> {"keep", "warn", "abandon"}]
    /\ seen \in [Sessions -> States]
    /\ edits \in Nat
    /\ told \in [Sessions -> States]
    /\ raced \in [Sessions -> BOOLEAN]
    /\ elder \in [Sessions -> SUBSET Sessions]
    /\ minted \in [Sessions -> SUBSET States]
    /\ \A k \in Calls : pc[k] # "idle" => on[k] \in Sessions
    /\ \A k \in Calls : pc[k] \in {"patch", "write", "step"} => stage[k] \in Stages

Init ==
    /\ status = [d \in Sessions |-> "absent"]
    /\ step = [d \in Sessions |-> 0]
    /\ state = [d \in Sessions |-> Empty]
    /\ idle = [d \in Sessions |-> 0]
    /\ warned = [d \in Sessions |-> FALSE]
    /\ lock = [d \in Sessions |-> NoCall]
    /\ pc = [k \in Calls |-> "idle"]
    /\ on = [k \in Calls |-> NoSession]
    /\ stage = [k \in Calls |-> 0]
    /\ view = [k \in Calls |-> Empty]
    /\ prev = [k \in Calls |-> {}]
    /\ plan = [d \in Sessions |-> "keep"]
    /\ seen = [d \in Sessions |-> Empty]
    /\ edits = 0
    /\ told = [d \in Sessions |-> Empty]
    /\ raced = [d \in Sessions |-> FALSE]
    /\ elder = [d \in Sessions |-> {}]
    /\ minted = [d \in Sessions |-> {}]

-----------------------------------------------------------------------------
(* The row.                                                                 *)

Goto(k, next) == pc' = [pc EXCEPT ![k] = next]

\* The call answers, or raises; whatever transaction it had ends.
Returns(k) ==
    /\ Goto(k, "idle")
    /\ on' = [on EXCEPT ![k] = NoSession]
    /\ stage' = [stage EXCEPT ![k] = 0]
    /\ view' = [view EXCEPT ![k] = Empty]
    /\ prev' = [prev EXCEPT ![k] = {}]
    /\ lock' = [d \in Sessions |-> IF lock[d] = k THEN NoCall ELSE lock[d]]

\* A row that is locked makes an update of it wait.
Unlocked(D) == \A d \in D : lock[d] = NoCall

\* updated_at has onupdate=now(): every update of a row restarts its idle time.
Touch(D) ==
    /\ idle' = [d \in Sessions |-> IF d \in D THEN 0 ELSE idle[d]]
    /\ warned' = [d \in Sessions |-> warned[d] /\ d \notin D]

-----------------------------------------------------------------------------
(* search_wizard_start: CampaignDraftStore.create.                          *)

Active == {d \in Sessions : status[d] = "active"}

\* Leaving the drafts there are alone.
SlipReplaced(k) == {}

Replaced(k) == prev[k]

CreateReads(k) ==
    /\ pc[k] = "idle"
    /\ \E d \in Sessions :
        /\ status[d] = "absent" /\ \A j \in Calls : on[j] # d
        /\ on' = [on EXCEPT ![k] = d]
        /\ elder' = [elder EXCEPT ![d] = {e \in Sessions : status[e] # "absent"}]
    /\ prev' = [prev EXCEPT ![k] = Active]
    /\ Goto(k, "create")
    /\ UNCHANGED <<rowVars, lock, stage, view, jobVars, edits, told, raced, minted>>

\* The rows that were read are abandoned by primary key, whatever they are now.
CreateWrites(k) ==
    /\ pc[k] = "create"
    /\ Unlocked(Replaced(k))
    /\ status' = [d \in Sessions |->
                     IF d = on[k] THEN "active" ELSE IF d \in Replaced(k) THEN "abandoned" ELSE status[d]]
    /\ Touch(Replaced(k))
    /\ Returns(k)
    /\ UNCHANGED <<step, state, jobVars, pastVars>>

-----------------------------------------------------------------------------
(* search_wizard_update: get, patch, set_step.                              *)

\* A stage may be edited at any time.
SlipInTurn(d, s) == TRUE

InTurn(d, s) == s <= step[d] + 1

UpdateReads(k) ==
    /\ pc[k] = "idle"
    /\ edits < MaxEdits
    /\ \E d \in Active, s \in Stages :
        /\ InTurn(d, s)
        /\ on' = [on EXCEPT ![k] = d]
        /\ stage' = [stage EXCEPT ![k] = s]
    /\ Goto(k, "patch")
    /\ UNCHANGED <<rowVars, lock, view, prev, jobVars, pastVars>>

\* SELECT ... WHERE status = 'active'; None when there is no such row.
SlipEditable(d) == TRUE

Editable(d) == status[d] = "active"

\* SELECT without FOR UPDATE.
SlipLocks(k, d) == UNCHANGED lock

Locks(k, d) == lock[d] = NoCall /\ lock' = [lock EXCEPT ![d] = k]

PatchReads(k) ==
    /\ pc[k] = "patch"
    /\ \/ /\ Editable(on[k])
          /\ Locks(k, on[k])
          /\ view' = [view EXCEPT ![k] = state[on[k]]]
          /\ Goto(k, "write")
          /\ UNCHANGED <<on, stage, prev>>
       \/ ~Editable(on[k]) /\ Returns(k)
    /\ UNCHANGED <<rowVars, jobVars, pastVars>>

PatchWrites(k) ==
    /\ pc[k] = "write"
    /\ edits < MaxEdits
    /\ edits' = edits + 1
    /\ state' = [state EXCEPT ![on[k]] = [view[k] EXCEPT ![stage[k]] = edits + 1]]
    /\ told' = [told EXCEPT ![on[k]][stage[k]] = edits + 1]
    /\ raced' = [raced EXCEPT ![on[k]] = @ \/ plan[on[k]] = "warn"]
    /\ Touch({on[k]})
    /\ lock' = [lock EXCEPT ![on[k]] = NoCall]
    /\ view' = [view EXCEPT ![k] = Empty]
    /\ Goto(k, "step")
    /\ UNCHANGED <<status, step, on, stage, prev, jobVars, elder, minted>>

\* set_step, of the last stage written or of the one after all of them.
SetStep(k, s) ==
    /\ Unlocked({on[k]})
    /\ \/ /\ Editable(on[k])
          /\ step' = [step EXCEPT ![on[k]] = s]
          /\ Touch({on[k]})
       \/ ~Editable(on[k]) /\ UNCHANGED <<step, idle, warned>>
    /\ Returns(k)
    /\ UNCHANGED <<status, state, jobVars, pastVars>>

UpdateEnds(k) == pc[k] = "step" /\ SetStep(k, stage[k])

-----------------------------------------------------------------------------
(* search_wizard_finalize: get, propose_create_search_campaign, set_step.   *)

Finished(d) == step[d] >= LAST

FinalizeReads(k) ==
    /\ pc[k] = "idle"
    /\ \E d \in Active :
        /\ Finished(d)
        /\ on' = [on EXCEPT ![k] = d]
        /\ view' = [view EXCEPT ![k] = state[d]]
    /\ Goto(k, "mint")
    /\ UNCHANGED <<rowVars, lock, stage, prev, jobVars, pastVars>>

\* A proposal is stored, a new one or one that a replayed call finds again.
Mint(k) ==
    /\ pc[k] = "mint"
    /\ minted' = [minted EXCEPT ![on[k]] = @ \cup {view[k]}]
    /\ view' = [view EXCEPT ![k] = Empty]
    /\ Goto(k, "last")
    /\ UNCHANGED <<rowVars, lock, on, stage, prev, jobVars, edits, told, raced, elder>>

FinalizeEnds(k) == pc[k] = "last" /\ SetStep(k, LAST + 1)

\* The proposal is refused, a transaction raises, or the process dies.
CallFails(k) ==
    /\ pc[k] # "idle"
    /\ Returns(k)
    /\ UNCHANGED <<rowVars, jobVars, pastVars>>

Call(k) ==
    \/ CreateReads(k) \/ CreateWrites(k)
    \/ UpdateReads(k) \/ PatchReads(k) \/ PatchWrites(k) \/ UpdateEnds(k)
    \/ FinalizeReads(k) \/ Mint(k) \/ FinalizeEnds(k)
    \/ CallFails(k)

-----------------------------------------------------------------------------
(* cleanup_stale_campaign_drafts, one job in one process.                   *)

Verdict(d) ==
    CASE status[d] # "active" -> "keep"
      [] status[d] = "active" /\ idle[d] > TTL -> "abandon"
      [] status[d] = "active" /\ idle[d] \in WARN + 1..TTL /\ ~warned[d] -> "warn"
      [] OTHER -> "keep"

SweepReads ==
    /\ \A d \in Sessions : plan[d] = "keep"
    /\ \E d \in Sessions : Verdict(d) # "keep"
    /\ plan' = [d \in Sessions |-> Verdict(d)]
    /\ seen' = [d \in Sessions |-> IF Verdict(d) = "warn" THEN state[d] ELSE Empty]
    /\ UNCHANGED <<rowVars, callVars, pastVars>>

Planned == {d \in Sessions : plan[d] # "keep"}

SweepDone ==
    /\ plan' = [d \in Sessions |-> "keep"]
    /\ seen' = [d \in Sessions |-> Empty]

\* The job takes its time before the transaction begins whose start is the
\* new updated_at, so the stamp is the earlier one; where now() counts whole
\* seconds it is not.
SweepWrites ==
    /\ Planned # {}
    /\ Unlocked(Planned)
    /\ status' = [d \in Sessions |-> IF plan[d] = "abandon" THEN "abandoned" ELSE status[d]]
    /\ state' = [d \in Sessions |-> IF plan[d] = "warn" THEN seen[d] ELSE state[d]]
    /\ idle' = [d \in Sessions |-> IF d \in Planned THEN 0 ELSE idle[d]]
    /\ \E stamp \in Stamps :
          warned' = [d \in Sessions |-> IF plan[d] = "warn" THEN stamp ELSE warned[d] /\ d \notin Planned]
    /\ SweepDone
    /\ UNCHANGED <<step, callVars, pastVars>>

SweepFails ==
    /\ Planned # {}
    /\ SweepDone
    /\ UNCHANGED <<rowVars, callVars, pastVars>>

Tick ==
    /\ \E d \in Active : idle[d] <= TTL
    /\ idle' = [d \in Sessions |-> IF d \in Active /\ idle[d] <= TTL THEN idle[d] + 1 ELSE idle[d]]
    /\ UNCHANGED <<status, step, state, warned, callVars, jobVars, pastVars>>

Next ==
    \/ \E k \in Calls : Call(k)
    \/ SweepReads \/ SweepWrites \/ SweepFails
    \/ Tick

Spec == Init /\ [][Next]_vars

\* Calls that have begun end, the clock runs, and the scheduler runs the job
\* again and again; that a job fails every time is left out.
FairSpec ==
    /\ Spec
    /\ \A k \in Calls : WF_vars(pc[k] # "idle" /\ Call(k))
    /\ WF_vars(Tick) /\ WF_vars(SweepReads) /\ SF_vars(SweepWrites)

-----------------------------------------------------------------------------
(* Correctness of the drafts.                                               *)

\* No edit that was committed is lost, however the calls of a burst interleave
\* (the claim of wizard_store.py:11-17), unless it was committed between the
\* reading and the writing of a warning, which locks nothing.
PatchesSurvive == \A d \in Sessions : ~raced[d] => state[d] = told[d]

\* A proposal is made of a draft with all its stages, although the step that
\* says so is written behind them, by calls that overtake each other.
MintIsWhole ==
    \A d \in Sessions : ~raced[d] =>
        \A m \in minted[d], s \in Stages : m[s] # 0

\* A draft replaces all that were there when it was asked for: two are active
\* only if each was asked for before the other was there.
OneDraftAtATime ==
    \A d \in Active : elder[d] \cap Active = {}

\* A draft that was abandoned takes no edit and does not come to life again
\* (the contract of patch), though calls that found it active go on.
AbandonedRests ==
    \A d \in Sessions : status[d] = "abandoned" =>
        /\ status'[d] = "abandoned"
        /\ step'[d] = step[d]
        /\ state'[d] = state[d] \/ raced[d]

AbandonedIsFinal == [][AbandonedRests]_vars

\* What the job says of itself: a draft nobody touches is abandoned.
Untouched(d) == \A k \in Calls : on[k] # d

IdleDraftEnds ==
    \A d \in Sessions :
        []((status[d] = "active" /\ []Untouched(d)) => <>(status[d] = "abandoned"))
=============================================================================
