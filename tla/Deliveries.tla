----------------------------- MODULE Deliveries -----------------------------
(***************************************************************************)
(* What the scheduler owes the chat for a row of the table: the file its    *)
(* card promised and, a week after it was applied, its outcome.  Two        *)
(* schedulers, one being replaced by the other, run both jobs.              *)
(***************************************************************************)
EXTENDS AttachmentCourier, OutcomeChecker

VARIABLE crashes

vars == <<storeVars, courierVars, checkerVars, crashes>>

TypeOK == StoreTypeOK /\ CourierTypeOK /\ CheckerTypeOK /\ crashes \in 0 .. MaxCrashes

Init == StoreInit /\ CourierInit /\ CheckerInit /\ crashes = 0

\* The rest of the life of a row; nothing here depends on who confirms it.
RowMoves(c) ==
    \/ \E d \in Drafts : Confirm(c, d.chat) \/ Reject(c, d.chat) \/ Claim(c, d.op)
    \/ MarkNeedsReview(c) \/ RecordFailure(c) \/ RecordVerification(c)

Crash(s) ==
    /\ crashes < MaxCrashes
    /\ courier[s] # "idle" \/ checker[s] # "idle"
    /\ crashes' = crashes + 1
    /\ CourierDies(s) /\ CheckerDies(s)
    /\ UNCHANGED storeVars

Tick == Advance /\ OutcomesAge /\ UNCHANGED <<courierVars, crashes>>

Next ==
    \/ \E c \in Proposals :
        \/ \E d \in Drafts : Promise(c, d) /\ UNCHANGED <<checkerVars, crashes>>
        \/ RowMoves(c) /\ UNCHANGED <<courierVars, checkerVars, crashes>>
        \/ FinalizeWithOutcome(c) /\ UNCHANGED <<courierVars, crashes>>
    \/ \E s \in Schedulers :
        \/ CourierStep(s) /\ UNCHANGED <<checkerVars, crashes>>
        \/ CheckerStep(s) /\ UNCHANGED <<courierVars, crashes>>
        \/ Crash(s)
    \/ Tick

Spec == Init /\ [][Next]_vars

\* The jobs are started again and again, each of their calls ends (with an
\* exception at the latest when its timeout has passed) and time goes on.
Fairness ==
    /\ WF_vars(Tick)
    /\ \A s \in Schedulers :
        /\ WF_vars(CheckerStep(s) /\ UNCHANGED <<courierVars, crashes>>)
        /\ WF_vars(CourierStep(s) /\ UNCHANGED <<checkerVars, crashes>>)

FairSpec == Spec /\ Fairness

\* The outcome of a change is told or given up in the end, whatever happens to
\* the schedulers that have claimed it, unless the change is put in doubt.
OutcomeSettles ==
    \A c \in Proposals :
        outcome[c].state = "pending" ~>
            outcome[c].state \in {"delivered", "failed"} \/ status[c] = "needs_review"
=============================================================================
