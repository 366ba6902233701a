----------------------- MODULE ExecuteConfirmedProofs -----------------------
(***************************************************************************)
(* Theorems about the money path (ExecuteConfirmed), for any number of      *)
(* proposals, concurrent executions and processes.  First its inductive     *)
(* invariant (PathInv) and what follows from it alone.  Then who may        *)
(* consent, what the answers and the journal may claim, what authorises an  *)
(* effect, that a card whose base has moved is not executed, and that the   *)
(* budget cap holds in one process: WorkerSteps says along which edges a    *)
(* worker moves and what each edge requires, and DraftsStay, RequestsStay   *)
(* and EffectsStay say what no step takes back; a clause of an invariant    *)
(* then follows from one or two edges.                                      *)
(***************************************************************************)
EXTENDS ExecuteConfirmed, ConfirmStoreProofs, FiniteSetTheorems

\* Which proposal a worker is on does not matter: it is one of Proposals.
LEMMA CidTyped ==
    ASSUME TypeOK, NEW w \in Workers
    PROVE  /\ Cid(w) \in Proposals \cup {NoProposal}
           /\ turn[w] # NoTurn => Cid(w) \in Proposals
<1>1. turn[w] \in Turns \cup DirectTurns \cup {NoTurn}
  BY DEF TypeOK
<1>2. ASSUME turn[w] \in Turns PROVE Cid(w) \in Proposals
  BY <1>2, PathAssumption DEF Cid
<1>3. ASSUME turn[w] \in DirectTurns PROVE Cid(w) \in Proposals
  BY <1>3 DEF Cid, DirectTurns, Direct
<1>4. NoTurn.cid = NoProposal
  BY DEF NoTurn, Direct
<1> QED
  BY <1>1, <1>2, <1>3, <1>4 DEF Cid

\* A worker in the middle of a call has a turn, and waits for its request.
Serving ==
    \A w \in Workers :
        /\ pc[w] # "idle" => turn[w] # NoTurn
        /\ call[w] # "none" => pc[w] = "call"

LEMMA GotoTyped ==
    ASSUME TypeOK, NEW w \in Workers, NEW step \in Steps, Goto(w, step)
    PROVE  /\ pc' \in [Workers -> Steps]
           /\ turn' \in [Workers -> Turns \cup DirectTurns \cup {NoTurn}]
           /\ call' \in [Workers -> Calls]
           /\ attempts' \in [Workers -> Nat]
           /\ report' \in [Workers -> [answer : Answers, cid : Proposals \cup {NoProposal}]]
  BY DEF TypeOK, Goto

LEMMA FinishTyped ==
    ASSUME TypeOK, NEW w \in Workers, NEW answer \in Answers, Finish(w, answer)
    PROVE  /\ pc' \in [Workers -> Steps]
           /\ turn' \in [Workers -> Turns \cup DirectTurns \cup {NoTurn}]
           /\ call' \in [Workers -> Calls]
           /\ attempts' \in [Workers -> Nat]
           /\ report' \in [Workers -> [answer : Answers, cid : Proposals \cup {NoProposal}]]
           /\ gate' \in [Processes -> Workers \cup {NoWorker}]
<1>1. Cid(w) \in Proposals \cup {NoProposal}
  BY CidTyped
<1> QED
  BY <1>1 DEF TypeOK, Finish, Release, Steps, Calls

-----------------------------------------------------------------------------
(* The table changes by moves of the store only.                            *)

LEMMA TurnMoves ==
    ASSUME TypeOK, Serving, NEW w \in Workers, pc[w] # "idle"
    PROVE  /\ Cid(w) \in Proposals
           /\ turn[w].reply \in Messages \cup {NoAnchor}
<1>1. turn[w] \in Turns \cup DirectTurns
  BY DEF TypeOK, Serving
<1>2. turn[w] \in DirectTurns => turn[w].reply = NoAnchor
  BY DEF DirectTurns, Direct
<1> QED
  BY <1>1, <1>2, CidTyped, PathAssumption DEF Serving

LEMMA ConfirmationMoves ==
    ASSUME TypeOK, Serving, NEW w \in Workers, Confirmation(w)
    PROVE  StoreMove \/ UNCHANGED storeVars
<1>1. CASE ReadCard(w)
  BY <1>1 DEF ReadCard, Check
<1>2. CASE BindAnchor(w)
  BY <1>2, TurnMoves DEF BindAnchor, BindCard, MatchBind, StoreMove, Anchors, Cid
<1>3. CASE RecheckAnchor(w)
  BY <1>3 DEF RecheckAnchor, Check
<1>4. CASE ConfirmReply(w)
  BY <1>4, TurnMoves DEF ConfirmReply, ConfirmByReply, MatchConfirmByReply, StoreMove, Decides, Cid
<1> QED
  BY <1>1, <1>2, <1>3, <1>4 DEF Confirmation

LEMMA MutationMoves ==
    ASSUME TypeOK, Serving, NEW w \in Workers, Mutation(w) \/ Answer(w)
    PROVE  StoreMove \/ UNCHANGED storeVars
<1>1. CASE FinalizeProposal(w)
  BY <1>1, TurnMoves DEF FinalizeProposal, Finalize, MatchFinalize, StoreMove, Decides
<1>2. CASE FlagMismatch(w)
  BY <1>2, TurnMoves DEF FlagMismatch, RecordVerification, MatchVerification, StoreMove, Decides
<1>3. CASE CheckUserCommand(w) \/ SendBlocked(w) \/ FinalizeFails(w) \/ PostVerify(w)
           \/ PostVerifyMismatch(w) \/ ReportFails(w)
  BY <1>3 DEF CheckUserCommand, SendBlocked, FinalizeFails, PostVerify, PostVerifyMismatch,
              ReportFails, Check
<1>4. CASE SendRequest(w) \/ RetryCall(w) \/ CallReturns(w) \/ CallFails(w) \/ CallLost(w)
           \/ ReportOutcome(w)
  BY <1>4 DEF SendRequest, RetryCall, CallReturns, CallFails, CallLost, ReportOutcome
<1> QED
  BY <1>1, <1>2, <1>3, <1>4 DEF Mutation, Answer

LEMMA GateMoves ==
    ASSUME TypeOK, Serving, NEW w \in Workers, Orchestration(w) \/ Gates(w)
    PROVE  StoreMove \/ UNCHANGED storeVars
<1>1. CASE ClaimProposal(w)
  BY <1>1, TurnMoves DEF ClaimProposal, StoreMove, Op
<1>2. CASE TakeBudgetGate(w) \/ RecordMoneyEvent(w)
  BY <1>2 DEF TakeBudgetGate, RecordMoneyEvent
<1>3. CASE LoadConfirmed(w) \/ LoadKilled(w) \/ VerifyFreshness(w) \/ ResolveTarget(w)
           \/ RefuseKilled(w) \/ PassGates(w) \/ MoneyEventFails(w)
  BY <1>3 DEF LoadConfirmed, LoadKilled, VerifyFreshness, ResolveTarget, RefuseKilled,
              PassGates, MoneyEventFails, Check
<1> QED
  BY <1>1, <1>2, <1>3 DEF Orchestration, Gates

LEMMA OtherMoves ==
    /\ \A w \in Workers : Start(w) \/ Server(w) => UNCHANGED storeVars
    /\ \A c \in Proposals, d \in Drafts : Propose(c, d) => StoreMove
    /\ \A c \in Proposals : CancelProposal(c) \/ Sweep(c) => StoreMove
    /\ \A r \in adrift : AdriftLands(r) \/ AdriftVanishes(r) => UNCHANGED storeVars
    /\ ForeignEdit \/ FlipKillSwitch => UNCHANGED storeVars
    /\ Tick => StoreMove
    /\ \A p \in Processes : Crash(p) => UNCHANGED storeVars
<1>1. \A w \in Workers : Start(w) \/ Server(w) => UNCHANGED storeVars
  BY DEF Start, StartReply, StartDirect, Begin, Server, ServerApplies, ServerRefuses,
         ServerUnavailable
<1>2. \A c \in Proposals, d \in Drafts : Propose(c, d) => StoreMove
  BY DEF Propose, StoreMove
<1>3. \A c \in Proposals : CancelProposal(c) => StoreMove
  BY DEF CancelProposal, RejectByActor, MatchReject, StoreMove, Decides
<1>4. \A c \in Proposals : Sweep(c) => StoreMove
  BY DEF Sweep, CleanupStale, Reject, MatchReject, ReconcileExecuting, MarkNeedsReview,
         MatchNeedsReview, ReconcileConfirmed, MarkConfirmedFailed, MatchConfirmedFailed,
         StoreMove, Decides
<1>5. \A r \in adrift : AdriftLands(r) \/ AdriftVanishes(r) => UNCHANGED storeVars
  BY DEF AdriftLands, AdriftVanishes
<1>6. ForeignEdit \/ FlipKillSwitch => UNCHANGED storeVars
  BY DEF ForeignEdit, FlipKillSwitch
<1>7. Tick => StoreMove
  BY DEF Tick, StoreMove
<1>8. \A p \in Processes : Crash(p) => UNCHANGED storeVars
  BY DEF Crash
<1> QED
  BY <1>1, <1>2, <1>3, <1>4, <1>5, <1>6, <1>7, <1>8

\* Every step of the money path leaves the table alone or moves as it allows.
LEMMA EveryPathStepIsAMove ==
    ASSUME TypeOK, Serving, Next
    PROVE  StoreMove \/ UNCHANGED storeVars
<1>1. ASSUME NEW w \in Workers, Work(w) PROVE StoreMove \/ UNCHANGED storeVars
  BY <1>1, ConfirmationMoves, GateMoves, MutationMoves DEF Work
<1> QED
  BY <1>1, OtherMoves DEF Next

-----------------------------------------------------------------------------
(* Type correctness.                                                        *)

WorkersTyped ==
    /\ pc \in [Workers -> Steps]
    /\ turn \in [Workers -> Turns \cup DirectTurns \cup {NoTurn}]
    /\ call \in [Workers -> Calls]
    /\ attempts \in [Workers -> Nat]
    /\ report \in [Workers -> [answer : Answers, cid : Proposals \cup {NoProposal}]]
    /\ gate \in [Processes -> Workers \cup {NoWorker}]

AccountTyped ==
    /\ adrift \subseteq Proposals \X Workers \X Nat
    /\ effects \in [Proposals -> Nat]
    /\ version \in Nat

RecordsTyped ==
    /\ shown \in [Proposals -> Nat \cup {Unread}]
    /\ killed \in BOOLEAN
    /\ requested \in [Proposals -> BOOLEAN]
    /\ claimAge \in [Proposals -> Age \cup {Null}]
    /\ repeated \subseteq Proposals

\* Steps that are only a Check.
Checks(w) ==
    \E at, next \in Steps, answer \in Answers, holds \in BOOLEAN :
        at \notin {"idle", "call"} /\ Check(w, at, holds, next, answer)

LEMMA CheckSteps ==
    ASSUME NEW w \in Workers,
           \/ ReadCard(w) \/ RecheckAnchor(w)
           \/ LoadConfirmed(w) \/ LoadKilled(w) \/ VerifyFreshness(w) \/ ResolveTarget(w)
           \/ RefuseKilled(w) \/ PassGates(w) \/ MoneyEventFails(w)
           \/ CheckUserCommand(w) \/ SendBlocked(w) \/ FinalizeFails(w)
           \/ PostVerify(w) \/ PostVerifyMismatch(w) \/ ReportFails(w)
    PROVE  Checks(w)
  BY DEF ReadCard, RecheckAnchor, LoadConfirmed, LoadKilled, VerifyFreshness, ResolveTarget,
         RefuseKilled, PassGates, MoneyEventFails, CheckUserCommand, SendBlocked, FinalizeFails,
         PostVerify, PostVerifyMismatch, ReportFails, Check, Checks, Steps, Answers

\* A worker in the middle of a call goes on, or answers.
LEMMA GotoTypes ==
    ASSUME TypeOK, Serving, NEW w \in Workers, pc[w] \notin {"idle", "call"},
           NEW step \in Steps, Goto(w, step), gate' \in [Processes -> Workers \cup {NoWorker}]
    PROVE  WorkersTyped' /\ Serving'
<1>1. Serving'
  BY DEF Serving, Goto, TypeOK
<1> QED
  BY <1>1, GotoTyped DEF WorkersTyped

LEMMA FinishTypes ==
    ASSUME TypeOK, Serving, NEW w \in Workers, NEW answer \in Answers, Finish(w, answer)
    PROVE  WorkersTyped' /\ Serving'
<1>1. Serving'
  BY DEF Serving, Finish, TypeOK
<1> QED
  BY <1>1, FinishTyped DEF WorkersTyped

LEMMA CheckTypes ==
    ASSUME TypeOK, Serving, NEW w \in Workers, Checks(w)
    PROVE  WorkersTyped' /\ AccountTyped' /\ RecordsTyped' /\ Serving'
<1>1. AccountTyped' /\ RecordsTyped'
  BY DEF Checks, Check, AccountTyped, RecordsTyped, TypeOK, accountVars, recordVars
<1>2. PICK step \in Steps, answer \in Answers :
        /\ pc[w] \notin {"idle", "call"}
        /\ (Goto(w, step) /\ UNCHANGED gate) \/ Finish(w, answer)
  BY DEF Checks, Check
<1>3. CASE Goto(w, step) /\ UNCHANGED gate
  BY <1>1, <1>2, <1>3, GotoTypes DEF TypeOK
<1>4. CASE Finish(w, answer)
  BY <1>1, <1>4, FinishTypes
<1> QED
  BY <1>2, <1>3, <1>4

\* Some of the Work of a worker changes more than where it stands.
LEMMA WorkTypes ==
    ASSUME TypeOK, Serving, NEW w \in Workers, Work(w)
    PROVE  WorkersTyped' /\ AccountTyped' /\ RecordsTyped' /\ Serving'
<1>1. CASE BindAnchor(w)
  <2>1. PICK step \in {"confirm", "recheck"} : Goto(w, step)
    BY <1>1 DEF BindAnchor
  <2>2. pc[w] \notin {"idle", "call"} /\ gate' = gate /\ step \in Steps
    BY <1>1, <2>1 DEF BindAnchor, Steps
  <2>3. AccountTyped' /\ RecordsTyped'
    BY <1>1 DEF BindAnchor, AccountTyped, RecordsTyped, TypeOK, accountVars, recordVars
  <2> QED
    BY <2>1, <2>2, <2>3, GotoTypes DEF TypeOK
<1>2. CASE ConfirmReply(w)
  <2>1. pc[w] \notin {"idle", "call"} /\ ((Goto(w, "load") /\ gate' = gate) \/ Finish(w, "refused"))
    BY <1>2 DEF ConfirmReply
  <2>2. "load" \in Steps /\ "refused" \in Answers
    BY DEF Steps, Answers
  <2>3. AccountTyped' /\ RecordsTyped'
    BY <1>2 DEF ConfirmReply, AccountTyped, RecordsTyped, TypeOK, accountVars, recordVars
  <2> QED
    BY <2>1, <2>2, <2>3, GotoTypes, FinishTypes DEF TypeOK
<1>3. CASE TakeBudgetGate(w)
  <2>1. pc[w] \notin {"idle", "call"} /\ "event" \in Steps /\ "gate_refusal" \in Answers
    BY <1>3 DEF TakeBudgetGate, Steps, Answers
  <2>2. AccountTyped' /\ RecordsTyped'
    BY <1>3 DEF TakeBudgetGate, AccountTyped, RecordsTyped, TypeOK, accountVars, recordVars
  <2>3. CASE Goto(w, "event") /\ gate' = [gate EXCEPT ![ProcessOf[w]] = w]
    <3>1. gate' \in [Processes -> Workers \cup {NoWorker}]
      BY <2>3 DEF TypeOK
    <3> QED
      BY <2>1, <2>2, <2>3, <3>1, GotoTypes
  <2>4. CASE Finish(w, "gate_refusal")
    BY <2>1, <2>2, <2>4, FinishTypes
  <2> QED
    BY <1>3, <2>3, <2>4 DEF TakeBudgetGate
<1>4. CASE RecordMoneyEvent(w)
  <2>1. pc[w] \notin {"idle", "call"} /\ "claim" \in Steps /\ Goto(w, "claim") /\ gate' = gate
    BY <1>4 DEF RecordMoneyEvent, Steps
  <2>2. AccountTyped' /\ RecordsTyped'
    BY <1>4 DEF RecordMoneyEvent, AccountTyped, RecordsTyped, TypeOK, accountVars
  <2> QED
    BY <2>1, <2>2, GotoTypes DEF TypeOK
<1>5. CASE ClaimProposal(w)
  <2>1. pc[w] \notin {"idle", "call"} /\ "command" \in Steps /\ "refused" \in Answers
    BY <1>5 DEF ClaimProposal, Steps, Answers
  <2>2. AccountTyped' /\ RecordsTyped'
    <3>1. 0 \in Age
      BY StoreAssumption DEF Age
    <3> QED
      BY <1>5, <3>1 DEF ClaimProposal, AccountTyped, RecordsTyped, TypeOK, accountVars
  <2>3. CASE Goto(w, "command") /\ Release(w)
    <3>1. gate' \in [Processes -> Workers \cup {NoWorker}]
      BY <2>3 DEF TypeOK, Release
    <3> QED
      BY <2>1, <2>2, <2>3, <3>1, GotoTypes
  <2>4. CASE Finish(w, "refused")
    BY <2>1, <2>2, <2>4, FinishTypes
  <2> QED
    BY <1>5, <2>3, <2>4 DEF ClaimProposal
<1>6. CASE SendRequest(w) \/ RetryCall(w) \/ CallReturns(w)
  <2> USE DEF TypeOK, WorkersTyped, Serving, Steps, Calls
  <2>1. AccountTyped' /\ RecordsTyped'
    <3>1. RetryCall(w) => Cid(w) \in Proposals
      BY TurnMoves DEF RetryCall
    <3> QED
      BY <1>6, <3>1 DEF SendRequest, RetryCall, CallReturns, AccountTyped, RecordsTyped,
                        accountVars, recordVars
  <2>2. CASE SendRequest(w)
    BY <2>1, <2>2 DEF SendRequest
  <2>3. CASE RetryCall(w)
    BY <2>1, <2>3 DEF RetryCall
  <2>4. CASE CallReturns(w)
    BY <2>1, <2>4 DEF CallReturns
  <2> QED
    BY <1>6, <2>2, <2>3, <2>4
<1>7. CASE CallFails(w) \/ CallLost(w)
  <2>1. "failed" \in Answers /\ Finish(w, "failed")
    BY <1>7 DEF CallFails, CallLost, Answers
  <2>2. AccountTyped'
    <3>1. CASE adrift' = adrift
      BY <1>7, <3>1 DEF CallFails, CallLost, AccountTyped, TypeOK, accountVars
    <3>2. CASE adrift' = adrift \cup LeftBehind({w})
      <4>1. pc[w] # "idle"
        BY <1>7 DEF CallFails, CallLost
      <4>2. LeftBehind({w}) \subseteq Proposals \X Workers \X Nat
        BY <4>1, TurnMoves DEF LeftBehind, TypeOK
      <4> QED
        BY <1>7, <3>2, <4>2 DEF CallFails, CallLost, AccountTyped, TypeOK, accountVars
    <3> QED
      BY <1>7, <3>1, <3>2 DEF CallFails, CallLost, accountVars
  <2>3. RecordsTyped'
    BY <1>7 DEF CallFails, CallLost, RecordsTyped, TypeOK, recordVars
  <2> QED
    BY <2>1, <2>2, <2>3, FinishTypes
<1>8. CASE FinalizeProposal(w) \/ FlagMismatch(w)
  <2>1. PICK step \in {"verify", "report"} : Goto(w, step)
    BY <1>8 DEF FinalizeProposal, FlagMismatch
  <2>2. pc[w] \notin {"idle", "call"} /\ gate' = gate /\ step \in Steps
    BY <1>8, <2>1 DEF FinalizeProposal, FlagMismatch, Steps
  <2>3. AccountTyped' /\ RecordsTyped'
    BY <1>8 DEF FinalizeProposal, FlagMismatch, AccountTyped, RecordsTyped, TypeOK,
                accountVars, recordVars
  <2> QED
    BY <2>1, <2>2, <2>3, GotoTypes DEF TypeOK
<1>9. CASE ReportOutcome(w)
  <2>1. PICK answer \in {"executed", "needs_review"} : Finish(w, answer)
    BY <1>9 DEF ReportOutcome
  <2>2. answer \in Answers
    BY <2>1 DEF Answers
  <2>3. AccountTyped' /\ RecordsTyped'
    BY <1>9 DEF ReportOutcome, AccountTyped, RecordsTyped, TypeOK, accountVars, recordVars
  <2> QED
    BY <2>1, <2>2, <2>3, FinishTypes
<1> QED
  BY <1>1, <1>2, <1>3, <1>4, <1>5, <1>6, <1>7, <1>8, <1>9, CheckSteps, CheckTypes
     DEF Work, Confirmation, Orchestration, Gates, Mutation, Answer

LEMMA StartTypes ==
    ASSUME TypeOK, Serving, NEW w \in Workers, Start(w)
    PROVE  WorkersTyped' /\ AccountTyped' /\ RecordsTyped' /\ Serving'
<1>1. PICK t \in Turns \cup DirectTurns, step \in {"read", "load"} : Begin(w, t, step)
  BY DEF Start, StartReply, StartDirect
<1>2. AccountTyped' /\ RecordsTyped'
  BY <1>1 DEF Begin, AccountTyped, RecordsTyped, TypeOK, accountVars, recordVars
<1>3. WorkersTyped'
  BY <1>1 DEF Begin, WorkersTyped, TypeOK, Steps, Answers, NoReport
<1>4. t # NoTurn
  BY PathAssumption DEF NoTurn, DirectTurns, Direct
<1>5. Serving'
  BY <1>1, <1>4 DEF Begin, Serving, TypeOK
<1> QED
  BY <1>2, <1>3, <1>5

\* The server, the sweeps, other people, the clock and crashes.
LEMMA OtherTypes ==
    ASSUME TypeOK, Serving,
           \/ \E w \in Workers : Server(w)
           \/ \E c \in Proposals :
                (\E d \in Drafts : Propose(c, d)) \/ CancelProposal(c) \/ Sweep(c)
           \/ \E r \in adrift : AdriftLands(r) \/ AdriftVanishes(r)
           \/ ForeignEdit \/ FlipKillSwitch \/ Tick
           \/ \E p \in Processes : Crash(p)
    PROVE  WorkersTyped' /\ AccountTyped' /\ RecordsTyped' /\ Serving'
<1> USE DEF TypeOK, WorkersTyped, AccountTyped, RecordsTyped, Serving, Calls,
            workerVars, accountVars, recordVars
<1>1. CASE \E w \in Workers : ServerApplies(w)
  BY <1>1, TurnMoves DEF ServerApplies, Effect
<1>2. CASE \E w \in Workers : ServerRefuses(w)
  BY <1>2 DEF ServerRefuses
<1>10. CASE \E w \in Workers : ServerUnavailable(w)
  <2>1. PICK w \in Workers : ServerUnavailable(w)
    BY <1>10
  <2>2. LeftBehind({w}) \subseteq Proposals \X Workers \X Nat
    BY <2>1, TurnMoves DEF ServerUnavailable, LeftBehind
  <2> QED
    BY <2>1, <2>2 DEF ServerUnavailable
<1>3. CASE \E c \in Proposals : \E d \in Drafts : Propose(c, d)
  BY <1>3 DEF Propose, Snapshots
<1>4. CASE \E c \in Proposals : CancelProposal(c) \/ Sweep(c)
  BY <1>4 DEF CancelProposal, Sweep
<1>5. CASE \E r \in adrift : AdriftLands(r) \/ AdriftVanishes(r)
  <2>1. CASE \E r \in adrift : AdriftLands(r)
    BY <2>1 DEF AdriftLands, Effect
  <2>2. CASE \E r \in adrift : AdriftVanishes(r)
    BY <2>2 DEF AdriftVanishes
  <2> QED
    BY <1>5, <2>1, <2>2
<1>6. CASE ForeignEdit
  BY <1>6 DEF ForeignEdit
<1>7. CASE FlipKillSwitch
  BY <1>7, PathAssumption DEF FlipKillSwitch
<1>8. CASE Tick
  <2>1. ASSUME NEW a \in Age \cup {Null} PROVE Older(a) \in Age \cup {Null}
    BY <2>1, StoreAssumption DEF Older, Age, Null
  <2> QED
    BY <1>8, <2>1 DEF Tick
<1>9. CASE \E p \in Processes : Crash(p)
  <2>1. PICK p \in Processes : Crash(p)
    BY <1>9
  <2> DEFINE dead == {w \in Workers : ProcessOf[w] = p}
  <2>2. LeftBehind(dead) \subseteq Proposals \X Workers \X Nat
    BY TurnMoves DEF LeftBehind
  <2>3. WorkersTyped' /\ Serving'
    BY <2>1 DEF Crash, Steps
  <2>4. AccountTyped' /\ RecordsTyped'
    BY <2>1, <2>2 DEF Crash
  <2> QED
    BY <2>3, <2>4
<1> QED
  BY <1>1, <1>2, <1>3, <1>4, <1>5, <1>6, <1>7, <1>8, <1>9, <1>10 DEF Server

LEMMA PathTypeInit == Init => TypeOK /\ Serving
<1>1. Init => StoreTypeOK
  BY StoreTypeInit DEF Init
<1>2. "idle" \in Steps /\ NoReport \in [answer : Answers, cid : Proposals \cup {NoProposal}]
  BY DEF Steps, Answers, NoReport
<1>3. Init => WorkersTyped /\ Serving
  BY <1>2 DEF Init, WorkersTyped, Serving, Calls
<1>4. Init => AccountTyped /\ RecordsTyped
  <2>1. Init => AccountTyped
    BY DEF Init, AccountTyped
  <2>2. Init => shown \in [Proposals -> Nat \cup {Unread}]
    BY DEF Init
  <2>3. Init => killed \in BOOLEAN
    BY DEF Init
  <2>4. Init => requested \in [Proposals -> BOOLEAN]
    BY DEF Init
  <2>5. Init => claimAge \in [Proposals -> Age \cup {Null}] /\ repeated \subseteq Proposals
    BY DEF Init
  <2> QED
    BY <2>1, <2>2, <2>3, <2>4, <2>5 DEF RecordsTyped
<1> QED
  BY <1>1, <1>3, <1>4 DEF TypeOK, WorkersTyped, AccountTyped, RecordsTyped

LEMMA PathTypeNext ==
    ASSUME TypeOK, Serving, [Next]_vars
    PROVE  TypeOK' /\ Serving'
<1>1. CASE Next
  <2>1. StoreTypeOK'
    <3>1. StoreTypeOK
      BY DEF TypeOK
    <3>2. UNCHANGED storeVars => StoreTypeOK'
      BY <3>1 DEF StoreTypeOK, storeVars
    <3> QED
      BY <1>1, <3>1, <3>2, EveryPathStepIsAMove, StoreTypeMove
  <2>2. WorkersTyped' /\ AccountTyped' /\ RecordsTyped' /\ Serving'
    BY <1>1, WorkTypes, StartTypes, OtherTypes DEF Next
  <2> QED
    BY <2>1, <2>2 DEF TypeOK, WorkersTyped, AccountTyped, RecordsTyped
<1>2. CASE UNCHANGED vars
  BY <1>2 DEF TypeOK, Serving, StoreTypeOK, vars, storeVars, workerVars, accountVars, recordVars
<1> QED
  BY <1>1, <1>2

\* The state of the path keeps its types, and a worker in the middle of a call
\* has a turn that names a proposal.
THEOREM PathTypeCorrect == Spec => [](TypeOK /\ Serving)
  BY PathTypeInit, PathTypeNext, PTL DEF Spec

-----------------------------------------------------------------------------
(* The inductive invariant.  A worker that has claimed a proposal and not   *)
(* answered yet is at work on it; the change it is about is still to come   *)
(* (Waiting), in the account (Landed), or it cannot tell (Unsure).          *)

Waiting(w) ==
    \/ pc[w] \in {"command", "send"}
    \/ pc[w] = "call" /\ call[w] \in {"flying", "refused"}

Landed(w) ==
    \/ pc[w] = "call" /\ call[w] = "landed"
    \/ pc[w] \in {"finalize", "verify", "flag", "report"}

Unsure(w) == pc[w] = "call" /\ call[w] = "unavailable"

AtWork(w) == Waiting(w) \/ Landed(w) \/ Unsure(w)

\* The claim is exclusive, for as long as the work lasts, and the row of a
\* claimed proposal never reads as if it had not been claimed.
OneExecutor ==
    \A w, x \in Workers : AtWork(w) /\ AtWork(x) /\ Cid(w) = Cid(x) => w = x

WorkHasBegun == \A w \in Workers : AtWork(w) => status[Cid(w)] \notin Unsent

\* A change still to come has neither happened nor been left to its fate,
\* unless it is sent again.
WaitingIsClean ==
    \A w \in Workers : Waiting(w) /\ Cid(w) \notin repeated =>
        effects[Cid(w)] = 0 /\ ~Drifting(Cid(w))

LandedIsDone == \A w \in Workers : Landed(w) => effects[Cid(w)] > 0

\* Unless it is sent again, there is one request adrift per proposal at most,
\* and nothing has happened.
AdriftIsSingle ==
    \A r \in adrift :
        /\ status[r[1]] \notin Unsent
        /\ r[1] \notin repeated =>
              effects[r[1]] = 0 /\ \A s \in adrift : s[1] = r[1] => s = r

\* The account and the table agree.
EffectsFit ==
    \A c \in Proposals :
        /\ effects[c] > 0 \/ c \in repeated => status[c] \notin Unsent
        /\ status[c] = "applied" => effects[c] > 0
        /\ c \notin repeated => effects[c] \in {0, 1}

PathInv ==
    /\ OneExecutor
    /\ WorkHasBegun
    /\ WaitingIsClean
    /\ LandedIsDone
    /\ AdriftIsSingle
    /\ EffectsFit

LEMMA AtWorkServes ==
    ASSUME TypeOK, Serving, NEW w \in Workers, AtWork(w)
    PROVE  Cid(w) \in Proposals
  BY TurnMoves DEF AtWork, Waiting, Landed, Unsure

\* Most steps neither touch the account nor let a worker begin its work, and
\* what they do to the table does not matter to the invariant.
Quiet ==
    \A c \in Proposals :
        /\ status[c] \in Unsent <=> status'[c] \in Unsent
        /\ status'[c] = "applied" => status[c] = "applied"

Steady ==
    \A w \in Workers : AtWork(w)' =>
        /\ turn'[w] = turn[w]
        /\ Waiting(w)' => Waiting(w)
        /\ Landed(w)' => Landed(w)
        /\ Unsure(w)' => Unsure(w)

Still == adrift' \subseteq adrift /\ effects' = effects /\ repeated' = repeated

LEMMA QuietKeeps ==
    ASSUME TypeOK, Serving, PathInv, Quiet, Steady, Still
    PROVE  PathInv'
<1>1. ASSUME NEW w \in Workers, AtWork(w)'
      PROVE  AtWork(w) /\ Cid(w)' = Cid(w) /\ Cid(w) \in Proposals
  BY <1>1, AtWorkServes DEF Steady, AtWork, Cid
<1>2. OneExecutor' /\ WorkHasBegun'
  BY <1>1 DEF PathInv, OneExecutor, WorkHasBegun, Quiet
<1>3. WaitingIsClean'
  <2> SUFFICES ASSUME NEW w \in Workers, Waiting(w)', Cid(w)' \notin repeated'
               PROVE  effects'[Cid(w)'] = 0 /\ ~Drifting(Cid(w))'
    BY DEF WaitingIsClean
  <2>1. Waiting(w) /\ Cid(w)' = Cid(w) /\ Cid(w) \in Proposals
    BY <1>1 DEF Steady, AtWork
  <2> QED
    BY <2>1 DEF PathInv, WaitingIsClean, Still, Drifting
<1>4. LandedIsDone'
  <2> SUFFICES ASSUME NEW w \in Workers, Landed(w)' PROVE effects'[Cid(w)'] > 0
    BY DEF LandedIsDone
  <2>1. Landed(w) /\ Cid(w)' = Cid(w)
    BY <1>1 DEF Steady, AtWork
  <2> QED
    BY <2>1 DEF PathInv, LandedIsDone, Still
<1>5. AdriftIsSingle'
  BY DEF PathInv, AdriftIsSingle, Quiet, Still, TypeOK
<1>6. EffectsFit'
  BY DEF PathInv, EffectsFit, Quiet, Still
<1> QED
  BY <1>2, <1>3, <1>4, <1>5, <1>6 DEF PathInv

-----------------------------------------------------------------------------
(* Steady steps of a worker.                                                *)

LEMMA GotoSteady ==
    ASSUME TypeOK, NEW w \in Workers, NEW step \in Steps, Goto(w, step),
           \/ step \notin {"command", "send", "call", "finalize", "verify", "flag", "report"}
           \/ pc[w] = "command" /\ step = "send"
           \/ /\ pc[w] \in {"finalize", "verify", "flag", "report"}
              /\ step \in {"verify", "flag", "report"}
    PROVE  Steady
  BY DEF TypeOK, Goto, Steady, AtWork, Waiting, Landed, Unsure

LEMMA FinishSteady ==
    ASSUME TypeOK, NEW w \in Workers, NEW answer, Finish(w, answer)
    PROVE  Steady
  BY DEF TypeOK, Finish, Steady, AtWork, Waiting, Landed, Unsure

LEMMA RestSteady ==
    ASSUME UNCHANGED workerVars
    PROVE  Steady
  BY DEF workerVars, Steady, AtWork, Waiting, Landed, Unsure

LEMMA StillQuiet ==
    ASSUME UNCHANGED storeVars
    PROVE  Quiet
  BY DEF storeVars, Quiet

\* One row changes, from a status to another that the invariant does not tell
\* from it.
LEMMA RowQuiet ==
    ASSUME TypeOK, NEW c \in Proposals, NEW to \in Statuses,
           status' = [status EXCEPT ![c] = to],
           \/ status[c] \in Unsent /\ to \in Unsent
           \/ status[c] \in {"executing", "applied"} /\ to = "needs_review"
    PROVE  Quiet
  BY DEF TypeOK, StoreTypeOK, Quiet, Unsent

QuietStep == Quiet /\ Steady /\ Still

\* Before the claim nothing happens that matters.
LEMMA ConfirmationQuiet ==
    ASSUME TypeOK, Serving, NEW w \in Workers, Confirmation(w) \/ Orchestration(w)
    PROVE  QuietStep
<1>1. Still
  BY DEF Confirmation, Orchestration, ReadCard, BindAnchor, RecheckAnchor, ConfirmReply,
         LoadConfirmed, LoadKilled, VerifyFreshness, ResolveTarget, Check, accountVars,
         recordVars, Still
<1>2. \/ \E step \in {"bind", "recheck", "confirm", "load", "fresh", "resolve", "gates"} :
            Goto(w, step)
      \/ \E answer \in Answers : Finish(w, answer)
  BY DEF Confirmation, Orchestration, ReadCard, BindAnchor, RecheckAnchor, ConfirmReply,
         LoadConfirmed, LoadKilled, VerifyFreshness, ResolveTarget, Check, Answers
<1>3. Steady
  <2>1. ASSUME NEW step \in {"bind", "recheck", "confirm", "load", "fresh", "resolve", "gates"},
               Goto(w, step)
        PROVE  Steady
    BY <2>1, GotoSteady DEF Steps
  <2> QED
    BY <1>2, <2>1, FinishSteady
<1>4. Quiet
  <2>1. CASE UNCHANGED storeVars
    BY <2>1, StillQuiet
  <2>2. CASE BindAnchor(w) /\ ~UNCHANGED storeVars
    BY <2>2 DEF BindAnchor, BindCard, Stamp, Quiet
  <2>3. CASE ConfirmReply(w) /\ ~UNCHANGED storeVars
    <3>1. /\ status' = [status EXCEPT ![Cid(w)] = "confirmed"]
          /\ status[Cid(w)] = "pending"
          /\ pc[w] # "idle"
      BY <2>3 DEF ConfirmReply, ConfirmByReply, MatchConfirmByReply, Decide, Cid
    <3> QED
      BY <3>1, TurnMoves, RowQuiet DEF Statuses, Unsent
  <2> QED
    BY <2>1, <2>2, <2>3 DEF Confirmation, Orchestration, ReadCard, RecheckAnchor, LoadConfirmed,
       LoadKilled, VerifyFreshness, ResolveTarget, Check
<1> QED
  BY <1>1, <1>3, <1>4 DEF QuietStep

LEMMA GatesQuiet ==
    ASSUME TypeOK, Serving, NEW w \in Workers,
           \/ RefuseKilled(w) \/ PassGates(w) \/ TakeBudgetGate(w)
           \/ RecordMoneyEvent(w) \/ MoneyEventFails(w)
           \/ ClaimProposal(w) /\ UNCHANGED storeVars
    PROVE  QuietStep
<1>1. Still
  BY DEF RefuseKilled, PassGates, TakeBudgetGate, RecordMoneyEvent, MoneyEventFails,
         ClaimProposal, Check, accountVars, recordVars, Still
<1>2. UNCHANGED storeVars
  BY DEF RefuseKilled, PassGates, TakeBudgetGate, RecordMoneyEvent, MoneyEventFails, Check
<1>3. \/ \E step \in {"cap", "event", "claim"} : Goto(w, step)
      \/ \E answer \in Answers : Finish(w, answer)
  <2>1. CASE ClaimProposal(w) /\ UNCHANGED storeVars
    <3>1. ~Claim(Cid(w), Op(w))
      <4>1. ASSUME Claim(Cid(w), Op(w)) PROVE FALSE
        <5>1. /\ status[Cid(w)] = "confirmed"
              /\ status' = [status EXCEPT ![Cid(w)] = "executing"]
              /\ status' = status
              /\ Cid(w) \in Proposals
          BY <2>1, <4>1, TurnMoves DEF Claim, MatchClaim, storeVars, ClaimProposal
        <5> QED
          BY <5>1 DEF TypeOK, StoreTypeOK
      <4> QED
        BY <4>1
    <3> QED
      BY <2>1, <3>1 DEF ClaimProposal, Answers
  <2>2. CASE PassGates(w)
    BY <2>2 DEF PassGates, Check, Answers
  <2>3. CASE TakeBudgetGate(w) \/ RecordMoneyEvent(w)
    BY <2>3 DEF TakeBudgetGate, RecordMoneyEvent, Answers
  <2>4. CASE RefuseKilled(w) \/ MoneyEventFails(w)
    BY <2>4 DEF RefuseKilled, MoneyEventFails, Check, Answers
  <2> QED
    BY <2>1, <2>2, <2>3, <2>4
<1>4. Steady
  <2>1. ASSUME NEW step \in {"cap", "event", "claim"}, Goto(w, step) PROVE Steady
    BY <2>1, GotoSteady DEF Steps
  <2> QED
    BY <1>3, <2>1, FinishSteady
<1> QED
  BY <1>1, <1>2, <1>4, StillQuiet DEF QuietStep

\* Behind the claim: the steps that only move the worker on, or end its call.
LEMMA MutationQuiet ==
    ASSUME TypeOK, Serving, NEW w \in Workers,
           \/ CheckUserCommand(w) \/ SendRequest(w) \/ SendBlocked(w)
           \/ CallReturns(w) \/ CallFails(w) \/ FinalizeFails(w)
           \/ Answer(w)
    PROVE  QuietStep
<1>1. Still
  BY DEF CheckUserCommand, SendRequest, SendBlocked, CallReturns, CallFails,
         FinalizeFails, Answer, PostVerify, PostVerifyMismatch, FlagMismatch, ReportOutcome,
         ReportFails, Check, accountVars, recordVars, Still
<1>2. Steady
  <2>1. CASE CheckUserCommand(w) \/ SendBlocked(w) \/ FinalizeFails(w) \/ ReportFails(w)
    <3>1. \/ pc[w] = "command" /\ Goto(w, "send")
          \/ \E answer \in Answers : Finish(w, answer)
      BY <2>1 DEF CheckUserCommand, SendBlocked, FinalizeFails, ReportFails, Check, Answers
    <3> QED
      BY <3>1, GotoSteady, FinishSteady DEF Steps
  <2>2. CASE PostVerify(w) \/ PostVerifyMismatch(w) \/ FlagMismatch(w)
    <3>1. pc[w] \in {"verify", "flag"} /\ \E step \in {"flag", "report"} : Goto(w, step)
      BY <2>2 DEF PostVerify, PostVerifyMismatch, FlagMismatch, Check
    <3> QED
      BY <3>1, GotoSteady DEF Steps
  <2>3. CASE CallFails(w) \/ ReportOutcome(w)
    BY <2>3, FinishSteady DEF CallFails, ReportOutcome
  <2>4. CASE SendRequest(w)
    BY <2>4 DEF SendRequest, TypeOK, Steady, AtWork, Waiting, Landed, Unsure
  <2>5. CASE CallReturns(w)
    BY <2>5 DEF CallReturns, TypeOK, Steady, AtWork, Waiting, Landed, Unsure
  <2> QED
    BY <2>1, <2>2, <2>3, <2>4, <2>5 DEF Answer
<1>3. Quiet
  <2>1. CASE UNCHANGED storeVars
    BY <2>1, StillQuiet
  <2>2. CASE RecordVerification(Cid(w)) /\ pc[w] # "idle"
    BY <2>2, TurnMoves, RowQuiet DEF RecordVerification, MatchVerification, Decide, Statuses
  <2> QED
    BY <2>1, <2>2 DEF CheckUserCommand, SendRequest, SendBlocked, CallReturns,
       CallFails, FinalizeFails, Answer, PostVerify, PostVerifyMismatch, FlagMismatch,
       ReportOutcome, ReportFails, Check
<1> QED
  BY <1>1, <1>2, <1>3 DEF QuietStep

LEMMA OtherQuiet ==
    ASSUME TypeOK, Serving,
           \/ \E w \in Workers : Start(w) \/ ServerRefuses(w)
           \/ \E c \in Proposals :
                (\E d \in Drafts : Propose(c, d)) \/ CancelProposal(c) \/ Sweep(c)
           \/ \E r \in adrift : AdriftVanishes(r)
           \/ ForeignEdit \/ FlipKillSwitch \/ Tick
    PROVE  QuietStep
<1>1. CASE \E w \in Workers : Start(w)
  <2>1. PICK w \in Workers, t \in Turns \cup DirectTurns, step \in {"read", "load"} :
         Begin(w, t, step)
    BY <1>1 DEF Start, StartReply, StartDirect
  <2>2. Steady
    BY <2>1 DEF Begin, TypeOK, Steady, AtWork, Waiting, Landed, Unsure
  <2> QED
    BY <2>1, <2>2, StillQuiet DEF Begin, accountVars, recordVars, Still, QuietStep
<1>2. CASE \E w \in Workers : ServerRefuses(w)
  <2>1. Steady
    BY <1>2 DEF ServerRefuses, TypeOK, Steady, AtWork, Waiting, Landed, Unsure
  <2> QED
    BY <1>2, <2>1, StillQuiet DEF ServerRefuses, accountVars, recordVars, Still, QuietStep
<1>3. CASE \E c \in Proposals : \E d \in Drafts : Propose(c, d)
  <2>1. PICK c \in Proposals, d \in Drafts : Propose(c, d)
    BY <1>3
  <2>2. Quiet
    BY <2>1, RowQuiet DEF Propose, SaveProposal, MatchSave, Statuses, Unsent
  <2> QED
    BY <2>1, <2>2, RestSteady DEF Propose, accountVars, recordVars, Still, QuietStep
<1>4. CASE \E c \in Proposals : CancelProposal(c)
  <2>1. PICK c \in Proposals : CancelProposal(c)
    BY <1>4
  <2>2. Quiet
    BY <2>1, RowQuiet DEF CancelProposal, RejectByActor, MatchReject, Decide, Statuses, Unsent
  <2> QED
    BY <2>1, <2>2, RestSteady DEF CancelProposal, accountVars, recordVars, Still, QuietStep
<1>5. CASE \E c \in Proposals : Sweep(c)
  <2>1. PICK c \in Proposals : Sweep(c)
    BY <1>5
  <2>2. ASSUME CleanupStale(c) PROVE Quiet
    BY <2>2, RowQuiet DEF CleanupStale, Reject, MatchReject, Decide, Statuses, Unsent
  <2>3. ASSUME ReconcileExecuting(c) PROVE Quiet
    BY <2>3, RowQuiet DEF ReconcileExecuting, MarkNeedsReview, MatchNeedsReview, Decide, Statuses
  <2>4. ASSUME ReconcileConfirmed(c) PROVE Quiet
    BY <2>4, RowQuiet
       DEF ReconcileConfirmed, MarkConfirmedFailed, MatchConfirmedFailed, Decide, Statuses, Unsent
  <2> QED
    BY <2>1, <2>2, <2>3, <2>4, RestSteady DEF Sweep, accountVars, recordVars, Still, QuietStep
<1>6. CASE \E r \in adrift : AdriftVanishes(r)
  BY <1>6, RestSteady, StillQuiet DEF AdriftVanishes, recordVars, Still, QuietStep
<1>7. CASE ForeignEdit
  BY <1>7, RestSteady, StillQuiet DEF ForeignEdit, recordVars, Still, QuietStep
<1>8. CASE FlipKillSwitch
  BY <1>8, RestSteady, StillQuiet DEF FlipKillSwitch, accountVars, recordVars, Still, QuietStep
<1>9. CASE Tick
  <2>1. Quiet
    BY <1>9 DEF Tick, Advance, Quiet
  <2> QED
    BY <1>9, <2>1, RestSteady DEF Tick, accountVars, recordVars, Still, QuietStep
<1> QED
  BY <1>1, <1>2, <1>3, <1>4, <1>5, <1>6, <1>7, <1>8, <1>9

-----------------------------------------------------------------------------
(* The steps that matter: the claim, the change, a request given up, sent   *)
(* again or answered with doubt, the verdict.                               *)

LEMMA ClaimKeeps ==
    ASSUME TypeOK, Serving, PathInv, NEW w \in Workers, ClaimProposal(w),
           ~UNCHANGED storeVars
    PROVE  PathInv'
<1> DEFINE c == Cid(w)
<1>1. c \in Proposals
  BY TurnMoves DEF ClaimProposal
<1>2. /\ status[c] = "confirmed"
      /\ status' = [status EXCEPT ![c] = "executing"]
      /\ Goto(w, "command")
      /\ adrift' = adrift /\ effects' = effects /\ repeated' = repeated
  BY DEF ClaimProposal, Claim, MatchClaim, accountVars
<1>3. effects[c] = 0 /\ ~Drifting(c) /\ c \notin repeated /\ \A x \in Workers : AtWork(x) => Cid(x) # c
  <2>1. status[c] \in Unsent /\ effects[c] \in Nat
    BY <1>1, <1>2 DEF Unsent, TypeOK
  <2> QED
    BY <1>1, <2>1 DEF PathInv, EffectsFit, AdriftIsSingle, WorkHasBegun, Drifting
<1>4. Waiting(w)' /\ ~Landed(w)' /\ ~Unsure(w)' /\ Cid(w)' = c
  BY <1>2 DEF Goto, Waiting, Landed, Unsure, TypeOK, Cid
<1>5. ASSUME NEW x \in Workers, x # w
      PROVE  /\ (Waiting(x)' <=> Waiting(x)) /\ (Landed(x)' <=> Landed(x))
             /\ (Unsure(x)' <=> Unsure(x)) /\ Cid(x)' = Cid(x)
  BY <1>2, <1>5 DEF Goto, Waiting, Landed, Unsure, TypeOK, Cid
<1>6. ASSUME NEW x \in Proposals
      PROVE  /\ x # c => status'[x] = status[x]
             /\ x = c => status'[x] = "executing"
             /\ status[x] \notin Unsent => status'[x] = status[x]
  BY <1>1, <1>2 DEF TypeOK, StoreTypeOK, Unsent
<1>7. OneExecutor'
  BY <1>3, <1>4, <1>5 DEF PathInv, OneExecutor, AtWork
<1>8. WorkHasBegun'
  <2> SUFFICES ASSUME NEW x \in Workers, AtWork(x)' PROVE status'[Cid(x)'] \notin Unsent
    BY DEF WorkHasBegun
  <2>1. CASE x = w
    BY <1>1, <1>4, <1>6, <2>1 DEF Unsent
  <2>2. CASE x # w
    <3>1. AtWork(x) /\ Cid(x)' = Cid(x)
      BY <1>5, <2>2 DEF AtWork
    <3> QED
      BY <1>6, <3>1, AtWorkServes DEF PathInv, WorkHasBegun
  <2> QED
    BY <2>1, <2>2
<1>9. WaitingIsClean'
  <2> SUFFICES ASSUME NEW x \in Workers, Waiting(x)', Cid(x)' \notin repeated'
               PROVE  effects'[Cid(x)'] = 0 /\ ~Drifting(Cid(x))'
    BY DEF WaitingIsClean
  <2>1. CASE x = w
    BY <1>2, <1>3, <1>4, <2>1 DEF Drifting
  <2>2. CASE x # w
    BY <1>2, <1>5, <2>2 DEF PathInv, WaitingIsClean, Drifting
  <2> QED
    BY <2>1, <2>2
<1>10. LandedIsDone'
  <2> SUFFICES ASSUME NEW x \in Workers, Landed(x)' PROVE effects'[Cid(x)'] > 0
    BY DEF LandedIsDone
  <2>1. Landed(x) /\ Cid(x)' = Cid(x)
    BY <1>4, <1>5
  <2> QED
    BY <1>2, <2>1 DEF PathInv, LandedIsDone
<1>11. AdriftIsSingle'
  BY <1>2, <1>6 DEF PathInv, AdriftIsSingle, TypeOK
<1>12. EffectsFit'
  BY <1>2, <1>3, <1>6 DEF PathInv, EffectsFit
<1> QED
  BY <1>7, <1>8, <1>9, <1>10, <1>11, <1>12 DEF PathInv

\* The account counts one effect more.
LEMMA OneEffectMore ==
    ASSUME TypeOK, NEW c \in Proposals, effects' = [effects EXCEPT ![c] = @ + 1]
    PROVE  /\ effects'[c] = effects[c] + 1 /\ effects'[c] > 0
           /\ \A x : x # c => effects'[x] = effects[x]
           /\ \A x : effects[x] > 0 => effects'[x] > 0
<1>1. effects[c] \in Nat /\ DOMAIN effects = Proposals
  BY DEF TypeOK
<1>2. effects'[c] = effects[c] + 1 /\ effects'[c] > 0
  BY <1>1
<1>3. \A x : x # c => effects'[x] = effects[x]
  BY <1>1
<1> QED
  BY <1>2, <1>3

LEMMA ServerAppliesKeeps ==
    ASSUME TypeOK, Serving, PathInv, NEW w \in Workers, ServerApplies(w)
    PROVE  PathInv'
<1> DEFINE c == Cid(w)
<1>1. pc[w] = "call" /\ call[w] = "flying" /\ c \in Proposals /\ Waiting(w) /\ ~Landed(w)
  BY TurnMoves DEF ServerApplies, Serving, Waiting, Landed
<1>2. /\ effects' = [effects EXCEPT ![c] = @ + 1]
      /\ call' = [call EXCEPT ![w] = "landed"] /\ repeated' = repeated
      /\ pc' = pc /\ turn' = turn /\ adrift' = adrift /\ status' = status
  BY DEF ServerApplies, Effect, storeVars, recordVars
<1>3. status[c] \notin Unsent /\ (c \notin repeated => effects[c] = 0 /\ ~Drifting(c))
  BY <1>1 DEF PathInv, WaitingIsClean, WorkHasBegun, AtWork
<1>4. \A x \in Workers : AtWork(x) /\ Cid(x) = c => x = w
  BY <1>1 DEF PathInv, OneExecutor, AtWork
<1>5. /\ effects'[c] = effects[c] + 1 /\ effects'[c] > 0
      /\ \A x : x # c => effects'[x] = effects[x]
      /\ \A x : effects[x] > 0 => effects'[x] > 0
  BY <1>1, <1>2, OneEffectMore
<1>6. Landed(w)' /\ ~Waiting(w)' /\ \A x \in Workers : Cid(x)' = Cid(x)
  BY <1>1, <1>2 DEF Landed, Waiting, TypeOK, Cid
<1>7. \A x \in Workers : x # w => /\ (Waiting(x)' <=> Waiting(x))
                                  /\ (Landed(x)' <=> Landed(x))
                                  /\ (Unsure(x)' <=> Unsure(x))
  BY <1>2 DEF Landed, Waiting, Unsure, TypeOK
<1>8. OneExecutor' /\ WorkHasBegun'
  BY <1>1, <1>2, <1>3, <1>6, <1>7 DEF PathInv, OneExecutor, WorkHasBegun, AtWork
<1>9. WaitingIsClean'
  BY <1>2, <1>4, <1>5, <1>6, <1>7 DEF PathInv, WaitingIsClean, Drifting, AtWork
<1>10. LandedIsDone'
  BY <1>5, <1>6, <1>7 DEF PathInv, LandedIsDone
<1>11. AdriftIsSingle'
  BY <1>2, <1>3, <1>5 DEF PathInv, AdriftIsSingle, Drifting
<1>12. EffectsFit'
  <2> SUFFICES ASSUME NEW x \in Proposals
               PROVE  /\ effects'[x] > 0 \/ x \in repeated => status[x] \notin Unsent
                      /\ status[x] = "applied" => effects'[x] > 0
                      /\ x \notin repeated => effects'[x] \in {0, 1}
    BY <1>2 DEF EffectsFit
  <2>1. CASE x = c
    BY <1>3, <1>5, <2>1
  <2>2. CASE x # c
    BY <1>5, <2>2 DEF PathInv, EffectsFit
  <2> QED
    BY <2>1, <2>2
<1> QED
  BY <1>8, <1>9, <1>10, <1>11, <1>12 DEF PathInv

LEMMA AdriftLandsKeeps ==
    ASSUME TypeOK, Serving, PathInv, NEW r \in adrift, AdriftLands(r)
    PROVE  PathInv'
<1> DEFINE c == r[1]
<1>1. c \in Proposals /\ Drifting(c)
  BY DEF TypeOK, Drifting
<1>2. /\ effects' = [effects EXCEPT ![c] = @ + 1]
      /\ adrift' = adrift \ {r} /\ repeated' = repeated
      /\ pc' = pc /\ turn' = turn /\ call' = call /\ status' = status
  BY DEF AdriftLands, Effect, storeVars, workerVars, recordVars
<1>3. /\ status[c] \notin Unsent
      /\ c \notin repeated => effects[c] = 0 /\ \A s \in adrift \ {r} : s[1] # c
  BY DEF PathInv, AdriftIsSingle
<1>4. /\ effects'[c] = effects[c] + 1 /\ effects'[c] > 0
      /\ \A x : x # c => effects'[x] = effects[x]
      /\ \A x : effects[x] > 0 => effects'[x] > 0
  BY <1>1, <1>2, OneEffectMore
<1>5. \A x \in Workers :
        /\ (Waiting(x)' <=> Waiting(x)) /\ (Landed(x)' <=> Landed(x))
        /\ (Unsure(x)' <=> Unsure(x)) /\ Cid(x)' = Cid(x)
  BY <1>2 DEF Landed, Waiting, Unsure, Cid
<1>6. \A x \in Workers : Waiting(x) /\ Cid(x) \notin repeated => Cid(x) # c
  BY <1>1 DEF PathInv, WaitingIsClean
<1>7. OneExecutor' /\ WorkHasBegun'
  BY <1>2, <1>5 DEF PathInv, OneExecutor, WorkHasBegun, AtWork
<1>8. WaitingIsClean'
  BY <1>2, <1>4, <1>5, <1>6 DEF PathInv, WaitingIsClean, Drifting
<1>9. LandedIsDone'
  BY <1>4, <1>5 DEF PathInv, LandedIsDone
<1>10. AdriftIsSingle'
  BY <1>2, <1>3, <1>4 DEF PathInv, AdriftIsSingle
<1>11. EffectsFit'
  <2> SUFFICES ASSUME NEW x \in Proposals
               PROVE  /\ effects'[x] > 0 \/ x \in repeated => status[x] \notin Unsent
                      /\ status[x] = "applied" => effects'[x] > 0
                      /\ x \notin repeated => effects'[x] \in {0, 1}
    BY <1>2 DEF EffectsFit
  <2>1. CASE x = c
    BY <1>3, <1>4, <2>1
  <2>2. CASE x # c
    BY <1>4, <2>2 DEF PathInv, EffectsFit
  <2> QED
    BY <2>1, <2>2
<1> QED
  BY <1>7, <1>8, <1>9, <1>10, <1>11 DEF PathInv

\* Workers give up, by a timeout or because their process dies, or are told
\* that the outcome is unknown.
LEMMA GivingUpKeeps ==
    ASSUME TypeOK, Serving, PathInv, NEW dead \in SUBSET Workers,
           adrift' = adrift \cup LeftBehind(dead), effects' = effects, status' = status,
           repeated' = repeated,
           \A w \in dead : \/ pc'[w] = "idle"
                           \/ /\ pc[w] = "call" /\ call[w] \in {"flying", "landed"}
                              /\ pc'[w] = "call" /\ call'[w] = "unavailable" /\ turn'[w] = turn[w],
           \A w \in Workers \ dead : pc'[w] = pc[w] /\ turn'[w] = turn[w] /\ call'[w] = call[w]
    PROVE  PathInv'
<1>1. ASSUME NEW w \in Workers, AtWork(w)'
      PROVE  /\ Cid(w)' = Cid(w) /\ Cid(w) \in Proposals /\ AtWork(w)
             /\ Waiting(w)' => Waiting(w) /\ w \notin dead
             /\ Landed(w)' => Landed(w)
  <2>1. CASE w \notin dead
    <3>1. /\ Cid(w)' = Cid(w) /\ (Waiting(w)' <=> Waiting(w)) /\ (Landed(w)' <=> Landed(w))
          /\ AtWork(w)
      BY <1>1, <2>1 DEF AtWork, Waiting, Landed, Unsure, Cid
    <3> QED
      BY <2>1, <3>1, AtWorkServes
  <2>2. CASE w \in dead
    <3>1. /\ pc[w] = "call" /\ call[w] \in {"flying", "landed"} /\ turn'[w] = turn[w]
          /\ pc'[w] = "call" /\ call'[w] = "unavailable"
      BY <1>1, <2>2 DEF AtWork, Waiting, Landed, Unsure
    <3>2. AtWork(w) /\ ~Waiting(w)' /\ ~Landed(w)' /\ Cid(w)' = Cid(w)
      BY <3>1 DEF AtWork, Waiting, Landed, Cid
    <3> QED
      BY <3>2, AtWorkServes
  <2> QED
    BY <2>1, <2>2
<1>2. ASSUME NEW r \in LeftBehind(dead)
      PROVE  \E w \in dead : r = <<Cid(w), w, attempts[w]>> /\ Waiting(w)
  BY <1>2 DEF LeftBehind, Waiting, Serving
<1>3. OneExecutor' /\ WorkHasBegun'
  BY <1>1 DEF PathInv, OneExecutor, WorkHasBegun
<1>4. WaitingIsClean'
  <2> SUFFICES ASSUME NEW w \in Workers, Waiting(w)', Cid(w)' \notin repeated'
               PROVE  effects'[Cid(w)'] = 0 /\ ~Drifting(Cid(w))'
    BY DEF WaitingIsClean
  <2>1. Waiting(w) /\ w \notin dead /\ Cid(w)' = Cid(w) /\ Cid(w) \notin repeated
    BY <1>1 DEF AtWork
  <2>2. ASSUME NEW r \in adrift', r[1] = Cid(w) PROVE FALSE
    <3>1. CASE r \in adrift
      BY <2>1, <2>2, <3>1 DEF PathInv, WaitingIsClean, Drifting
    <3>2. CASE r \in LeftBehind(dead)
      BY <1>2, <2>1, <2>2, <3>2 DEF PathInv, OneExecutor, AtWork
    <3> QED
      BY <3>1, <3>2
  <2> QED
    BY <2>1, <2>2 DEF PathInv, WaitingIsClean, Drifting
<1>5. LandedIsDone'
  BY <1>1 DEF PathInv, LandedIsDone, AtWork
<1>6. AdriftIsSingle'
  <2>1. ASSUME NEW r \in adrift'
        PROVE  status[r[1]] \notin Unsent /\ (r[1] \notin repeated => effects[r[1]] = 0)
    <3>1. CASE r \in adrift
      BY <3>1 DEF PathInv, AdriftIsSingle
    <3>2. CASE r \in LeftBehind(dead)
      BY <1>2, <3>2 DEF PathInv, WaitingIsClean, WorkHasBegun, AtWork
    <3> QED
      BY <2>1, <3>1, <3>2
  <2>2. ASSUME NEW r \in adrift', NEW s \in adrift', s[1] = r[1], r[1] \notin repeated PROVE s = r
    <3>1. CASE r \in adrift /\ s \in adrift
      BY <2>2, <3>1 DEF PathInv, AdriftIsSingle
    <3>2. CASE r \in LeftBehind(dead) /\ s \in LeftBehind(dead)
      BY <1>2, <2>2, <3>2 DEF PathInv, OneExecutor, AtWork
    <3>3. ASSUME NEW a \in adrift, NEW b \in LeftBehind(dead), a[1] = b[1], b[1] \notin repeated
          PROVE  FALSE
      BY <1>2, <3>3 DEF PathInv, WaitingIsClean, Drifting
    <3> QED
      BY <2>2, <3>1, <3>2, <3>3
  <2> QED
    BY <2>1, <2>2 DEF AdriftIsSingle
<1>7. EffectsFit'
  BY DEF PathInv, EffectsFit
<1> QED
  BY <1>3, <1>4, <1>5, <1>6, <1>7 DEF PathInv

\* The request is sent again: after a refusal as if for the first time, after
\* "unavailable" whatever has become of the one before.
LEMMA RetryKeeps ==
    ASSUME TypeOK, Serving, PathInv, NEW w \in Workers, RetryCall(w)
    PROVE  PathInv'
<1> DEFINE c == Cid(w)
<1>1. /\ pc[w] = "call" /\ call[w] \in {"refused", "unavailable"} /\ c \in Proposals
      /\ call' = [call EXCEPT ![w] = "flying"]
      /\ repeated' = IF call[w] = "unavailable" THEN repeated \cup {c} ELSE repeated
      /\ pc' = pc /\ turn' = turn /\ adrift' = adrift /\ effects' = effects /\ status' = status
  BY TurnMoves DEF RetryCall, accountVars, storeVars
<1>2. \A x \in Workers : x # w => /\ (Waiting(x)' <=> Waiting(x))
                                  /\ (Landed(x)' <=> Landed(x))
                                  /\ (Unsure(x)' <=> Unsure(x))
  BY <1>1 DEF Landed, Waiting, Unsure, TypeOK
<1>3. /\ AtWork(w) /\ Waiting(w)' /\ ~Landed(w)' /\ ~Unsure(w)'
      /\ \A x \in Workers : Cid(x)' = Cid(x)
      /\ Waiting(w) \/ c \in repeated'
  BY <1>1 DEF AtWork, Landed, Waiting, Unsure, TypeOK, Cid
<1>4. repeated \subseteq repeated' /\ \A x \in repeated' : x \in repeated \/ x = c
  BY <1>1
<1>5. status[c] \notin Unsent
  BY <1>3 DEF PathInv, WorkHasBegun
<1>6. OneExecutor' /\ WorkHasBegun'
  BY <1>1, <1>2, <1>3 DEF PathInv, OneExecutor, WorkHasBegun, AtWork
<1>7. WaitingIsClean'
  <2> SUFFICES ASSUME NEW x \in Workers, Waiting(x)', Cid(x)' \notin repeated'
               PROVE  effects'[Cid(x)'] = 0 /\ ~Drifting(Cid(x))'
    BY DEF WaitingIsClean
  <2>1. Waiting(x) /\ Cid(x)' = Cid(x) /\ Cid(x) \notin repeated
    BY <1>2, <1>3, <1>4
  <2> QED
    BY <1>1, <2>1 DEF PathInv, WaitingIsClean, Drifting
<1>8. LandedIsDone'
  BY <1>1, <1>2, <1>3 DEF PathInv, LandedIsDone
<1>9. AdriftIsSingle'
  BY <1>1, <1>4 DEF PathInv, AdriftIsSingle
<1>10. EffectsFit'
  BY <1>1, <1>4, <1>5 DEF PathInv, EffectsFit
<1> QED
  BY <1>6, <1>7, <1>8, <1>9, <1>10 DEF PathInv

LEMMA FinalizeKeeps ==
    ASSUME TypeOK, Serving, PathInv, NEW w \in Workers, FinalizeProposal(w)
    PROVE  PathInv'
<1> DEFINE c == Cid(w)
<1>1. /\ pc[w] = "finalize" /\ c \in Proposals /\ Landed(w)
      /\ Goto(w, "verify") /\ adrift' = adrift /\ effects' = effects /\ repeated' = repeated
  BY TurnMoves DEF FinalizeProposal, Landed, accountVars, recordVars
<1>2. Steady
  BY <1>1, GotoSteady DEF Steps
<1>3. CASE UNCHANGED storeVars
  BY <1>1, <1>2, <1>3, StillQuiet, QuietKeeps DEF Still
<1>4. CASE status[c] = "executing" /\ status' = [status EXCEPT ![c] = "applied"]
  <2>1. effects[c] > 0
    BY <1>1 DEF PathInv, LandedIsDone
  <2>2. ASSUME NEW x \in Workers, AtWork(x)'
        PROVE  /\ Cid(x)' = Cid(x) /\ AtWork(x) /\ Cid(x) \in Proposals
               /\ Waiting(x)' => Waiting(x)
               /\ Landed(x)' => Landed(x)
    BY <1>2, <2>2, AtWorkServes DEF Steady, AtWork, Cid
  <2>3. ASSUME NEW x \in Proposals
        PROVE  /\ status'[x] \in Unsent <=> status[x] \in Unsent
               /\ status'[x] = "applied" => status[x] = "applied" \/ x = c
    BY <1>1, <1>4 DEF TypeOK, StoreTypeOK, Unsent
  <2>4. OneExecutor' /\ WorkHasBegun'
    BY <2>2, <2>3 DEF PathInv, OneExecutor, WorkHasBegun
  <2>5. WaitingIsClean'
    BY <1>1, <2>2 DEF PathInv, WaitingIsClean, Drifting, AtWork
  <2>6. LandedIsDone'
    BY <1>1, <2>2 DEF PathInv, LandedIsDone, AtWork
  <2>7. AdriftIsSingle'
    BY <1>1, <2>3 DEF PathInv, AdriftIsSingle, TypeOK
  <2>8. EffectsFit'
    BY <1>1, <2>1, <2>3 DEF PathInv, EffectsFit
  <2> QED
    BY <2>4, <2>5, <2>6, <2>7, <2>8 DEF PathInv
<1> QED
  BY <1>3, <1>4 DEF FinalizeProposal, Finalize, MatchFinalize, Decide

LEMMA PathInvInit == Init => PathInv
<1> SUFFICES ASSUME Init PROVE PathInv
  OBVIOUS
<1>1. \A w \in Workers : ~AtWork(w)
  BY DEF Init, AtWork, Waiting, Landed, Unsure
<1>2. OneExecutor /\ WorkHasBegun /\ WaitingIsClean /\ LandedIsDone
  BY <1>1 DEF OneExecutor, WorkHasBegun, WaitingIsClean, LandedIsDone, AtWork
<1>3. AdriftIsSingle /\ EffectsFit
  BY DEF Init, StoreInit, AdriftIsSingle, EffectsFit
<1> QED
  BY <1>2, <1>3 DEF PathInv

LEMMA PathInvNext ==
    ASSUME TypeOK, Serving, PathInv, [Next]_vars
    PROVE  PathInv'
<1>1. ASSUME QuietStep PROVE PathInv'
  BY <1>1, QuietKeeps DEF QuietStep
<1>2. ASSUME NEW w \in Workers, Gates(w) PROVE PathInv'
  BY <1>1, <1>2, GatesQuiet, ClaimKeeps DEF Gates
<1>3. ASSUME NEW w \in Workers, CallLost(w) PROVE PathInv'
  <2>1. /\ adrift' = adrift \cup LeftBehind({w}) /\ effects' = effects /\ status' = status
        /\ repeated' = repeated
        /\ \A x \in {w} : pc'[x] = "idle"
        /\ \A x \in Workers \ {w} : pc'[x] = pc[x] /\ turn'[x] = turn[x] /\ call'[x] = call[x]
    BY <1>3 DEF CallLost, Finish, TypeOK, storeVars, recordVars
  <2> QED
    BY <2>1, GivingUpKeeps
<1>4. ASSUME NEW p \in Processes, Crash(p) PROVE PathInv'
  <2> DEFINE dead == {w \in Workers : ProcessOf[w] = p}
  <2>1. /\ adrift' = adrift \cup LeftBehind(dead) /\ effects' = effects /\ status' = status
        /\ repeated' = repeated
        /\ \A x \in dead : pc'[x] = "idle"
        /\ \A x \in Workers \ dead : pc'[x] = pc[x] /\ turn'[x] = turn[x] /\ call'[x] = call[x]
    BY <1>4 DEF Crash, storeVars, recordVars
  <2> QED
    BY <2>1, GivingUpKeeps
<1>5. ASSUME NEW w \in Workers, ServerUnavailable(w) PROVE PathInv'
  <2>1. /\ adrift' = adrift \cup LeftBehind({w}) /\ effects' = effects /\ status' = status
        /\ repeated' = repeated
        /\ \A x \in {w} : /\ pc[x] = "call" /\ call[x] \in {"flying", "landed"}
                          /\ pc'[x] = "call" /\ call'[x] = "unavailable" /\ turn'[x] = turn[x]
        /\ \A x \in Workers \ {w} : pc'[x] = pc[x] /\ turn'[x] = turn[x] /\ call'[x] = call[x]
    BY <1>5 DEF ServerUnavailable, TypeOK, Serving, storeVars, recordVars
  <2> QED
    BY <2>1, GivingUpKeeps
<1>6. ASSUME NEW w \in Workers, Mutation(w) \/ Answer(w) PROVE PathInv'
  BY <1>1, <1>3, <1>6, MutationQuiet, RetryKeeps, FinalizeKeeps DEF Mutation
<1>7. ASSUME NEW w \in Workers, Work(w) PROVE PathInv'
  BY <1>1, <1>2, <1>6, <1>7, ConfirmationQuiet DEF Work
<1>8. CASE Next
  BY <1>1, <1>4, <1>5, <1>7, <1>8, OtherQuiet, ServerAppliesKeeps, AdriftLandsKeeps DEF Next, Server
<1>9. CASE UNCHANGED vars
  <2>1. UNCHANGED storeVars /\ UNCHANGED workerVars /\ Still
    BY <1>9 DEF vars, accountVars, recordVars, Still
  <2> QED
    BY <1>1, <2>1, StillQuiet, RestSteady DEF QuietStep
<1> QED
  BY <1>8, <1>9

\* The invariant of the path: the claim is exclusive, what was claimed never
\* reads as unsent, and the account, the requests still on their way and the
\* verdict agree.
THEOREM PathInvariant == Spec => [](TypeOK /\ Serving /\ PathInv)
  BY PathTypeInit, PathTypeNext, PathInvInit, PathInvNext, PTL DEF Spec

-----------------------------------------------------------------------------
(* What follows.                                                            *)

\* A stored draft is stored for good.
LEMMA DraftsStay ==
    ASSUME TypeOK, Serving, [Next]_vars, NEW c \in Proposals, status[c] # "absent"
    PROVE  status'[c] # "absent" /\ draft'[c] = draft[c]
<1>1. CASE UNCHANGED storeVars
  BY <1>1 DEF storeVars
<1>2. CASE StoreMove
  <2>1. ASSUME NEW x \in Proposals, NEW d \in Drafts, SaveProposal(x, d)
        PROVE  status'[c] # "absent" /\ draft'[c] = draft[c]
    BY <2>1 DEF SaveProposal, MatchSave, TypeOK, StoreTypeOK
  <2>2. ASSUME NEW x \in Proposals, Anchors(x) \/ Decides(x) \/ Claim(x, draft[x].op) \/ Reopen(x)
        PROVE  status'[c] # "absent" /\ draft'[c] = draft[c]
    BY <2>2 DEF Anchors, Stamp, Decides, Decide, Claim, Reopen, TypeOK, StoreTypeOK
  <2>3. ASSUME Advance PROVE status'[c] # "absent" /\ draft'[c] = draft[c]
    BY <2>3 DEF Advance
  <2> QED
    BY <1>2, <2>1, <2>2, <2>3 DEF StoreMove
<1> QED
  BY <1>1, <1>2, EveryPathStepIsAMove DEF vars

\* Only what run_ads_call sends is sent again.
RepeatsAreRetried == \A c \in repeated : Retried(draft[c].op)

LEMMA RepeatSteps ==
    ASSUME [Next]_vars
    PROVE  repeated' = repeated \/ \E w \in Workers : RetryCall(w)
<1>1. ASSUME NEW w \in Workers, Start(w) \/ Server(w) PROVE repeated' = repeated
  BY <1>1 DEF Start, StartReply, StartDirect, Begin, Server, ServerApplies, ServerRefuses,
              ServerUnavailable, recordVars
<1>2. ASSUME NEW w \in Workers, Confirmation(w) \/ Orchestration(w) PROVE repeated' = repeated
  BY <1>2 DEF Confirmation, Orchestration, ReadCard, BindAnchor, RecheckAnchor, ConfirmReply,
              LoadConfirmed, LoadKilled, VerifyFreshness, ResolveTarget, Check, recordVars
<1>3. ASSUME NEW w \in Workers, Gates(w) PROVE repeated' = repeated
  BY <1>3 DEF Gates, RefuseKilled, PassGates, TakeBudgetGate, RecordMoneyEvent, MoneyEventFails,
              ClaimProposal, Check, recordVars
<1>4. ASSUME NEW w \in Workers, Mutation(w) \/ Answer(w)
      PROVE  repeated' = repeated \/ RetryCall(w)
  BY <1>4 DEF Mutation, CheckUserCommand, SendRequest, SendBlocked, CallReturns,
              CallFails, CallLost, FinalizeProposal, FinalizeFails, Answer, PostVerify,
              PostVerifyMismatch, FlagMismatch, ReportOutcome, ReportFails, Check, recordVars
<1>5. ASSUME \/ \E c \in Proposals :
                  (\E d \in Drafts : Propose(c, d)) \/ CancelProposal(c) \/ Sweep(c)
             \/ \E r \in adrift : AdriftLands(r) \/ AdriftVanishes(r)
             \/ ForeignEdit \/ FlipKillSwitch \/ Tick
             \/ \E p \in Processes : Crash(p)
      PROVE  repeated' = repeated
  BY <1>5 DEF Propose, CancelProposal, Sweep, AdriftLands, AdriftVanishes, ForeignEdit,
              FlipKillSwitch, Tick, Crash, recordVars
<1> QED
  BY <1>1, <1>2, <1>3, <1>4, <1>5 DEF Next, Work, vars, recordVars

LEMMA RepeatsAreRetriedNext ==
    ASSUME TypeOK, Serving, PathInv, RepeatsAreRetried, [Next]_vars
    PROVE  RepeatsAreRetried'
<1>1. ASSUME NEW c \in Proposals, status[c] \notin Unsent PROVE draft'[c] = draft[c]
  BY <1>1, DraftsStay DEF Unsent
<1>2. \A c \in repeated : Retried(draft'[c].op)
  <2> SUFFICES ASSUME NEW c \in repeated PROVE draft'[c] = draft[c]
    BY DEF RepeatsAreRetried
  <2> QED
    BY <1>1 DEF PathInv, EffectsFit, TypeOK
<1>3. CASE repeated' = repeated
  BY <1>2, <1>3 DEF RepeatsAreRetried
<1>4. ASSUME NEW w \in Workers, RetryCall(w) PROVE RepeatsAreRetried'
  <2>1. /\ repeated' \subseteq repeated \cup {Cid(w)} /\ draft' = draft
    BY <1>4 DEF RetryCall, storeVars
  <2>2. Retried(draft'[Cid(w)].op)
    BY <1>4, <2>1 DEF RetryCall, Op
  <2> QED
    BY <1>2, <2>1, <2>2 DEF RepeatsAreRetried
<1> QED
  BY <1>3, <1>4, RepeatSteps

LEMMA InvGivesAtMostOnce ==
    ASSUME TypeOK, Serving, PathInv
    PROVE  VoidMeansUntouched /\ (RepeatsAreRetried => AtMostOnce)
<1>1. ASSUME NEW c \in Proposals, Flying(c)
      PROVE  status[c] \notin Unsent /\ (c \notin repeated => effects[c] = 0)
  <2>1. PICK w \in Workers : Waiting(w) /\ Cid(w) = c
    BY <1>1 DEF Flying, Serving, Waiting
  <2> QED
    BY <2>1 DEF PathInv, WaitingIsClean, WorkHasBegun, AtWork
<1>2. ASSUME NEW c \in Proposals, Drifting(c)
      PROVE  status[c] \notin Unsent /\ (c \notin repeated => effects[c] = 0)
  BY <1>2 DEF Drifting, PathInv, AdriftIsSingle
<1>3. ASSUME RepeatsAreRetried PROVE AtMostOnce
  <2> SUFFICES ASSUME NEW c \in Proposals, c \notin repeated
               PROVE  effects[c] <= 1 /\ (effects[c] = 1 => ~Flying(c) /\ ~Drifting(c))
    BY <1>3 DEF AtMostOnce, SentAgain, RepeatsAreRetried
  <2>1. effects[c] \in {0, 1}
    BY DEF PathInv, EffectsFit
  <2>2. effects[c] = 1 => ~Flying(c) /\ ~Drifting(c)
    BY <1>1, <1>2
  <2> QED
    BY <2>1, <2>2
<1>4. VoidMeansUntouched
  <2> SUFFICES ASSUME NEW c \in Proposals, status[c] \in Unsent
               PROVE  effects[c] = 0 /\ ~Flying(c) /\ ~Drifting(c)
    BY DEF VoidMeansUntouched
  <2>1. ~(effects[c] > 0) /\ effects[c] \in Nat
    BY DEF PathInv, EffectsFit, TypeOK
  <2> QED
    BY <1>1, <1>2, <2>1
<1> QED
  BY <1>3, <1>4

\* The change of a proposal reaches the account at most once, whatever is
\* given up, swept or killed, and however many executions race; only a request
\* that run_ads_call sends again after "unavailable" may arrive twice, and
\* that is never a creation's.
THEOREM PathAtMostOnce == Spec => []AtMostOnce
<1>1. Init => RepeatsAreRetried
  BY DEF Init, RepeatsAreRetried
<1> QED
  BY <1>1, RepeatsAreRetriedNext, InvGivesAtMostOnce, PathInvariant, PTL DEF Spec

\* A proposal that nobody consented to, or that was rejected or failed, has
\* not touched the account and never will.
THEOREM PathVoidMeansUntouched == Spec => []VoidMeansUntouched
  BY InvGivesAtMostOnce, PathInvariant, PTL

-----------------------------------------------------------------------------
(* The path implements the lifecycle.  A move of the table is a move of the *)
(* lifecycle, or a stutter; the invariant after the step says that what     *)
(* became applied had taken effect, and what became failed had not.         *)

Lives == [c \in Proposals |-> StageOf[status[c]]]

Arrived == [c \in Proposals |-> IF effects[c] > 0 THEN 1 ELSE 0]

\* What was not sent again happened once or not at all.
LEMMA HappenedIsArrived ==
    ASSUME TypeOK, EffectsFit, RepeatsAreRetried
    PROVE  Happened = Arrived
  BY DEF TypeOK, EffectsFit, RepeatsAreRetried, SentAgain, Happened, Arrived

LEMMA LifeMoves ==
    ASSUME TypeOK, NEW c \in Proposals, NEW to \in Statuses,
           status' = [status EXCEPT ![c] = to]
    PROVE  Lives' = [Lives EXCEPT ![c] = StageOf[to]]
  BY DEF Lives, TypeOK, StoreTypeOK

LEMMA StoreMoveIsLifecycle ==
    ASSUME TypeOK, StoreMove, EffectsFit', effects' = effects,
           Happened = Arrived, (Happened = Arrived)'
    PROVE  Lifecycle!LifecycleNext \/ UNCHANGED <<Lives, Happened>>
<1> USE DEF Lifecycle!LifecycleNext, Lifecycle!Move, Lives
<1>7. Happened' = Happened
  BY DEF Arrived
<1>1. ASSUME NEW c \in Proposals, NEW d \in Drafts, SaveProposal(c, d)
      PROVE  Lifecycle!Propose(c)
  BY <1>1, <1>7, LifeMoves DEF SaveProposal, MatchSave, Lifecycle!Propose, StageOf, Statuses
<1>2. ASSUME NEW c \in Proposals, Anchors(c) PROVE UNCHANGED <<Lives, Happened>>
  BY <1>2, <1>7 DEF Anchors, Stamp
<1>3. ASSUME NEW c \in Proposals, Decides(c)
      PROVE  \/ Lifecycle!Consent(c) \/ Lifecycle!Abandon(c) \/ Lifecycle!Acknowledge(c)
             \/ Lifecycle!Question(c) \/ Lifecycle!Withdraw(c)
  <2>1. ASSUME status[c] = "pending", Decide(c, "confirmed") PROVE Lifecycle!Consent(c)
    BY <2>1, <1>7, LifeMoves DEF Decide, Lifecycle!Consent, StageOf, Statuses
  <2>2. ASSUME NEW to \in {"rejected", "failed"}, status[c] \in {"pending", "confirmed"},
               Decide(c, to)
        PROVE  Lifecycle!Abandon(c)
    BY <2>2, <1>7, LifeMoves DEF Decide, Lifecycle!Abandon, StageOf, Statuses
  <2>3. ASSUME status[c] = "executing", Decide(c, "applied") PROVE Lifecycle!Acknowledge(c)
    <3>1. Happened[c] = 1
      BY <2>3 DEF EffectsFit, Arrived, Decide, TypeOK, StoreTypeOK
    <3> QED
      BY <2>3, <3>1, <1>7, LifeMoves DEF Decide, Lifecycle!Acknowledge, StageOf, Statuses
  <2>4. ASSUME status[c] \in {"executing", "applied"}, Decide(c, "needs_review")
        PROVE  Lifecycle!Question(c)
    BY <2>4, <1>7, LifeMoves DEF Decide, Lifecycle!Question, StageOf, Statuses
  <2>5. ASSUME status[c] = "executing", Decide(c, "failed") PROVE Lifecycle!Withdraw(c)
    <3>1. Happened[c] = 0
      BY <2>5 DEF EffectsFit, Arrived, Decide, TypeOK, StoreTypeOK, Unsent
    <3> QED
      BY <2>5, <3>1, <1>7, LifeMoves DEF Decide, Lifecycle!Withdraw, StageOf, Statuses
  <2> QED
    BY <1>3, <2>1, <2>2, <2>3, <2>4, <2>5 DEF Decides
<1>4. ASSUME NEW c \in Proposals, Claim(c, draft[c].op) PROVE Lifecycle!Commit(c)
  BY <1>4, <1>7, LifeMoves DEF Claim, MatchClaim, Lifecycle!Commit, StageOf, Statuses
<1>5. ASSUME NEW c \in Proposals, Reopen(c) PROVE Lifecycle!HandBack(c)
  BY <1>5, <1>7, LifeMoves DEF Reopen, MatchReopen, Lifecycle!HandBack, StageOf, Statuses
<1>6. ASSUME Advance PROVE UNCHANGED <<Lives, Happened>>
  BY <1>6, <1>7 DEF Advance
<1> QED
  BY <1>1, <1>2, <1>3, <1>4, <1>5, <1>6 DEF StoreMove

\* Only the server changes what has taken effect.
LEMMA EffectSteps ==
    ASSUME Next
    PROVE  \/ effects' = effects
           \/ \E w \in Workers : ServerApplies(w)
           \/ \E r \in adrift : AdriftLands(r)
<1>1. ASSUME NEW w \in Workers, Start(w) \/ ServerRefuses(w) \/ ServerUnavailable(w)
      PROVE  effects' = effects
  BY <1>1 DEF Start, StartReply, StartDirect, Begin, ServerRefuses, ServerUnavailable, accountVars
<1>2. ASSUME NEW w \in Workers, Confirmation(w) \/ Orchestration(w) PROVE effects' = effects
  BY <1>2 DEF Confirmation, Orchestration, ReadCard, BindAnchor, RecheckAnchor, ConfirmReply,
              LoadConfirmed, LoadKilled, VerifyFreshness, ResolveTarget, Check, accountVars
<1>3. ASSUME NEW w \in Workers, Gates(w) PROVE effects' = effects
  BY <1>3 DEF Gates, RefuseKilled, PassGates, TakeBudgetGate, RecordMoneyEvent, MoneyEventFails,
              ClaimProposal, Check, accountVars
<1>4. ASSUME NEW w \in Workers, Mutation(w) \/ Answer(w) PROVE effects' = effects
  BY <1>4 DEF Mutation, CheckUserCommand, SendRequest, SendBlocked, RetryCall, CallReturns,
              CallFails, CallLost, FinalizeProposal, FinalizeFails, Answer, PostVerify,
              PostVerifyMismatch, FlagMismatch, ReportOutcome, ReportFails, Check, accountVars
<1>5. ASSUME \/ \E c \in Proposals :
                  (\E d \in Drafts : Propose(c, d)) \/ CancelProposal(c) \/ Sweep(c)
             \/ \E r \in adrift : AdriftVanishes(r)
             \/ ForeignEdit \/ FlipKillSwitch \/ Tick
             \/ \E p \in Processes : Crash(p)
      PROVE  effects' = effects
  BY <1>5 DEF Propose, CancelProposal, Sweep, AdriftVanishes, ForeignEdit, FlipKillSwitch, Tick,
              Crash, accountVars
<1> QED
  BY <1>1, <1>2, <1>3, <1>4, <1>5 DEF Next, Work, Server

LEMMA EffectIsLifecycle ==
    ASSUME TypeOK, Serving, PathInv, Happened = Arrived, (Happened = Arrived)',
           \/ \E w \in Workers : ServerApplies(w)
           \/ \E r \in adrift : AdriftLands(r)
    PROVE  Lifecycle!LifecycleNext \/ UNCHANGED <<Lives, Happened>>
<1>1. PICK c \in Proposals :
        /\ status[c] \notin Unsent
        /\ status' = status /\ effects' = [effects EXCEPT ![c] = @ + 1]
  <2>1. ASSUME NEW w \in Workers, ServerApplies(w)
        PROVE  /\ Cid(w) \in Proposals /\ status[Cid(w)] \notin Unsent
               /\ status' = status /\ effects' = [effects EXCEPT ![Cid(w)] = @ + 1]
    <3>1. AtWork(w)
      BY <2>1 DEF ServerApplies, Serving, AtWork, Waiting
    <3> QED
      BY <2>1, <3>1, AtWorkServes DEF PathInv, WorkHasBegun, ServerApplies, Effect, storeVars
  <2>2. ASSUME NEW r \in adrift, AdriftLands(r)
        PROVE  /\ r[1] \in Proposals /\ status[r[1]] \notin Unsent
               /\ status' = status /\ effects' = [effects EXCEPT ![r[1]] = @ + 1]
    BY <2>2 DEF TypeOK, PathInv, AdriftIsSingle, AdriftLands, Effect, storeVars
  <2> QED
    BY <2>1, <2>2
<1>2. Lives' = Lives
  BY <1>1 DEF Lives
<1>3. Happened' = [Happened EXCEPT ![c] = 1]
  <2>1. \A x \in Proposals : Happened'[x] = [Happened EXCEPT ![c] = 1][x]
    BY <1>1, OneEffectMore DEF Arrived
  <2> QED
    BY <2>1 DEF Arrived
<1>4. CASE effects[c] > 0
  <2>1. Happened[c] = 1
    BY <1>4 DEF Arrived
  <2> QED
    BY <1>2, <1>3, <2>1 DEF Arrived
<1>5. CASE ~(effects[c] > 0)
  <2>1. Happened[c] = 0
    BY <1>5 DEF Arrived
  <2>2. status[c] \in {"executing", "needs_review"}
    BY <1>1, <1>5 DEF PathInv, EffectsFit, TypeOK, StoreTypeOK, Statuses, Unsent
  <2>3. Lives[c] \in {"committed", "doubt"}
    BY <2>2 DEF Lives, StageOf, Statuses
  <2> QED
    BY <1>2, <1>3, <2>1, <2>3 DEF Lifecycle!LifecycleNext, Lifecycle!TakeEffect, Lives
<1> QED
  BY <1>4, <1>5

\* Every behaviour of the path is a behaviour of the lifecycle: consent before
\* commitment before effect, and a verdict that is true of it.
THEOREM PathImplementsLifecycle == Spec => ImplementsLifecycle
<1>1. Init => Lifecycle!LifecycleInit
  BY DEF Init, StoreInit, Lifecycle!LifecycleInit, StageOf, Statuses, Happened
<1>2. Init => RepeatsAreRetried
  BY DEF Init, RepeatsAreRetried
<1>3. /\ TypeOK /\ Serving /\ PathInv /\ RepeatsAreRetried
      /\ (TypeOK /\ Serving /\ PathInv /\ RepeatsAreRetried)'
      /\ [Next]_vars
      => [Lifecycle!LifecycleNext]_(Lifecycle!lifecycleVars)
  <2> SUFFICES ASSUME TypeOK, Serving, PathInv, RepeatsAreRetried,
                      (TypeOK /\ PathInv /\ RepeatsAreRetried)', [Next]_vars
               PROVE  Lifecycle!LifecycleNext \/ UNCHANGED Lifecycle!lifecycleVars
    OBVIOUS
  <2> USE DEF Lifecycle!lifecycleVars
  <2>1. Happened = Arrived
    BY HappenedIsArrived DEF PathInv
  <2>2. (Happened = Arrived)'
    BY DEF PathInv, TypeOK, EffectsFit, RepeatsAreRetried, SentAgain, Happened, Arrived
  <2>3. CASE UNCHANGED vars
    BY <2>1, <2>2, <2>3 DEF vars, storeVars, accountVars, Arrived
  <2>4. CASE Next /\ effects' = effects
    <3>1. CASE StoreMove
      BY <2>1, <2>2, <2>4, <3>1, StoreMoveIsLifecycle DEF PathInv, Lives
    <3>2. CASE UNCHANGED storeVars
      BY <2>1, <2>2, <2>4, <3>2 DEF storeVars, Arrived
    <3> QED
      BY <2>4, <3>1, <3>2, EveryPathStepIsAMove
  <2>5. CASE Next /\ effects' # effects
    BY <2>1, <2>2, <2>5, EffectSteps, EffectIsLifecycle DEF Lives
  <2> QED
    BY <2>3, <2>4, <2>5
<1> QED
  BY <1>1, <1>2, <1>3, RepeatsAreRetriedNext, PathInvariant, PTL
     DEF Spec, ImplementsLifecycle, Lifecycle!LifecycleSpec

-----------------------------------------------------------------------------
(* The edges of a worker.                                                   *)

Commanded(c) == UserCommanded(draft[c].op) => draft[c].human

\* How a worker goes on from one step of its call to the next.
Edge(w) ==
    \/ pc[w] = "read" /\ pc'[w] = "bind" /\ turn[w].intact
    \/ pc[w] = "bind" /\ pc'[w] \in {"recheck", "confirm"}
    \/ pc[w] = "recheck" /\ pc'[w] = "confirm"
    \/ pc[w] = "confirm" /\ pc'[w] = "load"
    \/ pc[w] = "load" /\ pc'[w] = "fresh" /\ status[Cid(w)] = "confirmed"
    \/ /\ pc[w] = "fresh" /\ pc'[w] = "resolve"
       /\ Relative(Op(w)) => SameAsShown(Cid(w))
    \/ pc[w] = "resolve" /\ pc'[w] = "gates"
    \/ pc[w] = "gates" /\ pc'[w] = IF BudgetOp(Op(w)) THEN "cap" ELSE "event"
    \/ pc[w] = "cap" /\ pc'[w] = "event"
    \/ pc[w] = "event" /\ pc'[w] = "claim" /\ requested'[Cid(w)]
    \/ pc[w] = "claim" /\ pc'[w] = "command"
    \/ pc[w] = "command" /\ pc'[w] = "send" /\ Commanded(Cid(w))
    \/ pc[w] = "send" /\ pc'[w] = "call"
    \/ pc[w] = "call" /\ pc'[w] = "finalize"
    \/ pc[w] \in {"finalize", "verify", "flag"} /\ pc'[w] \in {"verify", "flag", "report"}

Moved(w) ==
    \/ pc'[w] = "idle"
    \/ pc'[w] = pc[w] /\ turn'[w] = turn[w]
    \/ pc[w] = "idle" /\ pc'[w] \in {"read", "load"}
    \/ turn'[w] = turn[w] /\ Edge(w)

LEMMA GotoMoves ==
    ASSUME TypeOK, NEW v \in Workers, NEW step, Goto(v, step), NEW w \in Workers
    PROVE  /\ turn'[w] = turn[w]
           /\ w # v => pc'[w] = pc[w]
           /\ w = v => pc'[w] = step
  BY DEF TypeOK, Goto

LEMMA FinishMoves ==
    ASSUME TypeOK, NEW v \in Workers, NEW answer, Finish(v, answer), NEW w \in Workers
    PROVE  /\ w # v => turn'[w] = turn[w] /\ pc'[w] = pc[w]
           /\ w = v => pc'[w] = "idle"
  BY DEF TypeOK, Finish

LEMMA CheckMoves ==
    ASSUME TypeOK, NEW v \in Workers, NEW at, NEW holds, NEW next, NEW answer,
           Check(v, at, holds, next, answer), NEW w \in Workers
    PROVE  \/ w # v /\ pc'[w] = pc[w] /\ turn'[w] = turn[w]
           \/ w = v /\ pc'[w] = "idle"
           \/ w = v /\ pc[w] = at /\ holds /\ pc'[w] = next /\ turn'[w] = turn[w]
  BY GotoMoves, FinishMoves DEF Check

\* A check that succeeds takes an edge; one that fails ends the call.
LEMMA CheckEdges ==
    ASSUME TypeOK, NEW v \in Workers, NEW at, NEW holds, NEW next, NEW answer,
           Check(v, at, holds, next, answer), NEW w \in Workers,
           pc[v] = at /\ holds /\ pc'[v] = next => Edge(v)
    PROVE  Moved(w)
<1>1. CASE w # v /\ pc'[w] = pc[w] /\ turn'[w] = turn[w]
  BY <1>1 DEF Moved
<1>2. CASE w = v /\ pc'[w] = "idle"
  BY <1>2 DEF Moved
<1>3. CASE w = v /\ pc[w] = at /\ holds /\ pc'[w] = next /\ turn'[w] = turn[w]
  BY <1>3 DEF Moved
<1> QED
  BY <1>1, <1>2, <1>3, CheckMoves

LEMMA GotoEdges ==
    ASSUME TypeOK, NEW v \in Workers, NEW step, Goto(v, step), NEW w \in Workers,
           pc'[v] = step => Edge(v)
    PROVE  Moved(w)
<1>1. CASE w = v
  BY <1>1, GotoMoves DEF Moved
<1>2. CASE w # v
  BY <1>2, GotoMoves DEF Moved
<1> QED
  BY <1>1, <1>2

LEMMA FinishEdges ==
    ASSUME TypeOK, NEW v \in Workers, NEW answer, Finish(v, answer), NEW w \in Workers
    PROVE  Moved(w)
  BY FinishMoves DEF Moved

LEMMA WorkMoves ==
    ASSUME TypeOK, Serving, NEW v \in Workers, Work(v), NEW w \in Workers
    PROVE  Moved(w)
<1>1. CASE ReadCard(v)
  <2>1. pc[v] = "read" /\ turn[v].intact /\ pc'[v] = "bind" => Edge(v)
    BY DEF Edge
  <2>2. PICK holds \in BOOLEAN :
          Check(v, "read", holds, "bind", "refused") /\ (holds => turn[v].intact)
    BY <1>1 DEF ReadCard, Check
  <2> QED
    BY <2>1, <2>2, CheckEdges
<1>2. CASE BindAnchor(v)
  <2>1. PICK step \in {"confirm", "recheck"} : pc[v] = "bind" /\ Goto(v, step)
    BY <1>2 DEF BindAnchor
  <2> QED
    BY <2>1, GotoEdges DEF Edge
<1>3. CASE RecheckAnchor(v)
  BY <1>3, CheckEdges DEF RecheckAnchor, Edge
<1>4. CASE ConfirmReply(v)
  <2>1. pc[v] = "confirm" /\ (Goto(v, "load") \/ Finish(v, "refused"))
    BY <1>4 DEF ConfirmReply
  <2> QED
    BY <2>1, GotoEdges, FinishEdges DEF Edge
<1>5. CASE LoadConfirmed(v)
  BY <1>5, CheckEdges DEF LoadConfirmed, Edge
<1>6. CASE LoadKilled(v)
  BY <1>6, CheckEdges DEF LoadKilled
<1>7. CASE VerifyFreshness(v)
  <2>1. PICK holds \in BOOLEAN :
          /\ Check(v, "fresh", holds, "resolve", "refused")
          /\ holds /\ Relative(Op(v)) => SameAsShown(Cid(v))
    BY <1>7 DEF VerifyFreshness, Check, FreshEnough, Relative, Strict, NoDiff, ComparesBefore, Op
  <2> QED
    BY <2>1, CheckEdges DEF Edge
<1>8. CASE ResolveTarget(v)
  <2>1. PICK holds \in BOOLEAN : Check(v, "resolve", holds, "gates", "refused")
    BY <1>8 DEF ResolveTarget, Check
  <2> QED
    BY <2>1, CheckEdges DEF Edge
<1>9. CASE RefuseKilled(v)
  BY <1>9, CheckEdges DEF RefuseKilled
<1>10. CASE MoneyEventFails(v)
  BY <1>10, CheckEdges DEF MoneyEventFails
<1>11. CASE SendBlocked(v)
  BY <1>11, CheckEdges DEF SendBlocked
<1>12. CASE FinalizeFails(v)
  BY <1>12, CheckEdges DEF FinalizeFails
<1>13. CASE ReportFails(v)
  BY <1>13, CheckEdges DEF ReportFails
<1>14. CASE PassGates(v)
  BY <1>14, CheckEdges DEF PassGates, Edge
<1>15. CASE TakeBudgetGate(v)
  <2>1. pc[v] = "cap" /\ (Goto(v, "event") \/ Finish(v, "gate_refusal"))
    BY <1>15 DEF TakeBudgetGate
  <2> QED
    BY <2>1, GotoEdges, FinishEdges DEF Edge
<1>16. CASE RecordMoneyEvent(v)
  <2>1. pc[v] = "event" /\ Goto(v, "claim") /\ Cid(v) \in Proposals
    BY <1>16, TurnMoves DEF RecordMoneyEvent
  <2>2. requested'[Cid(v)]
    BY <1>16, <2>1 DEF RecordMoneyEvent, TypeOK
  <2> QED
    BY <2>1, <2>2, GotoEdges DEF Edge
<1>17. CASE ClaimProposal(v)
  <2>1. pc[v] = "claim" /\ (Goto(v, "command") \/ Finish(v, "refused"))
    BY <1>17 DEF ClaimProposal
  <2> QED
    BY <2>1, GotoEdges, FinishEdges DEF Edge
<1>18. CASE CheckUserCommand(v)
  <2>1. Check(v, "command", Commanded(Cid(v)), "send", "refused")
    BY <1>18 DEF CheckUserCommand, Commanded, Op
  <2> QED
    BY <2>1, CheckEdges DEF Edge
<1>19. CASE SendRequest(v)
  BY <1>19 DEF SendRequest, TypeOK, Moved, Edge
<1>20. CASE RetryCall(v)
  BY <1>20 DEF RetryCall, Moved
<1>21. CASE CallReturns(v)
  BY <1>21 DEF CallReturns, TypeOK, Moved, Edge
<1>22. CASE CallFails(v) \/ CallLost(v) \/ ReportOutcome(v)
  <2>1. CASE CallFails(v) \/ CallLost(v)
    BY <2>1, FinishEdges DEF CallFails, CallLost
  <2>2. CASE ReportOutcome(v)
    <3>1. Finish(v, "executed") \/ Finish(v, "needs_review")
      BY <2>2 DEF ReportOutcome
    <3> QED
      BY <3>1, FinishEdges
  <2> QED
    BY <1>22, <2>1, <2>2
<1>23. CASE FinalizeProposal(v) \/ FlagMismatch(v)
  <2>1. PICK step \in {"verify", "report"} : pc[v] \in {"finalize", "flag"} /\ Goto(v, step)
    BY <1>23 DEF FinalizeProposal, FlagMismatch
  <2> QED
    BY <2>1, GotoEdges DEF Edge
<1>24. CASE PostVerify(v)
  BY <1>24, CheckEdges DEF PostVerify, Edge
<1>25. CASE PostVerifyMismatch(v)
  BY <1>25, CheckEdges DEF PostVerifyMismatch, Edge
<1> QED
  BY <1>1, <1>2, <1>3, <1>4, <1>5, <1>6, <1>7, <1>8, <1>9, <1>10, <1>11, <1>12, <1>13, <1>14,
     <1>15, <1>16, <1>17, <1>18, <1>19, <1>20, <1>21, <1>22, <1>23, <1>24, <1>25
     DEF Work, Confirmation, Orchestration, Gates, Mutation, Answer

LEMMA WorkerSteps ==
    ASSUME TypeOK, Serving, [Next]_vars, NEW w \in Workers
    PROVE  Moved(w)
<1>1. CASE \E v \in Workers : Work(v)
  BY <1>1, WorkMoves
<1>2. CASE \E v \in Workers : Start(v)
  BY <1>2 DEF Start, StartReply, StartDirect, Begin, TypeOK, Moved
<1>3. CASE \E p \in Processes : Crash(p)
  BY <1>3 DEF Crash, Moved
<1>4. CASE pc' = pc /\ turn' = turn
  BY <1>4 DEF Moved
<1>5. \/ \E v \in Workers : Start(v) \/ Work(v)
      \/ \E p \in Processes : Crash(p)
      \/ pc' = pc /\ turn' = turn
  BY DEF Next, Server, ServerApplies, ServerRefuses, ServerUnavailable, Propose,
         CancelProposal, Sweep, AdriftLands, AdriftVanishes, ForeignEdit, FlipKillSwitch, Tick,
         workerVars, vars
<1> QED
  BY <1>1, <1>2, <1>3, <1>4, <1>5

-----------------------------------------------------------------------------
(* What no step takes back.                                                 *)

\* The money event of a proposal is journaled for good.
LEMMA RequestsStay ==
    ASSUME TypeOK, [Next]_vars, NEW c \in Proposals, requested[c]
    PROVE  requested'[c]
<1>1. CASE UNCHANGED requested
  BY <1>1
<1>2. ASSUME NEW w \in Workers, RecordMoneyEvent(w) PROVE requested'[c]
  BY <1>2 DEF RecordMoneyEvent, TypeOK
<1>3. UNCHANGED requested \/ \E w \in Workers : RecordMoneyEvent(w)
  <2>1. ASSUME NEW w \in Workers, Work(w) PROVE UNCHANGED requested \/ RecordMoneyEvent(w)
    <3>1. CASE Confirmation(w) \/ Orchestration(w)
      BY <3>1 DEF Confirmation, Orchestration, ReadCard, BindAnchor, RecheckAnchor, ConfirmReply,
         LoadConfirmed, LoadKilled, VerifyFreshness, ResolveTarget, Check, recordVars
    <3>2. CASE Gates(w)
      BY <3>2 DEF Gates, RefuseKilled, PassGates, TakeBudgetGate, MoneyEventFails, ClaimProposal,
         Check, recordVars
    <3>3. CASE Mutation(w) \/ Answer(w)
      BY <3>3 DEF Mutation, CheckUserCommand, SendRequest, SendBlocked, RetryCall, CallReturns,
         CallFails, CallLost, FinalizeProposal, FinalizeFails, Answer, PostVerify,
         PostVerifyMismatch, FlagMismatch, ReportOutcome, ReportFails, Check, recordVars
    <3> QED
      BY <2>1, <3>1, <3>2, <3>3 DEF Work
  <2>2. \/ UNCHANGED requested
        \/ \E w \in Workers : Work(w)
    BY DEF Next, Start, StartReply, StartDirect, Begin, Server, ServerApplies, ServerRefuses,
       ServerUnavailable, Propose, CancelProposal, Sweep, AdriftLands, AdriftVanishes,
       ForeignEdit, FlipKillSwitch, Tick, Crash, recordVars, vars
  <2> QED
    BY <2>1, <2>2
<1> QED
  BY <1>1, <1>2, <1>3

\* An effect is never undone.
LEMMA EffectsStay ==
    ASSUME TypeOK, Serving, PathInv, [Next]_vars, NEW c \in Proposals, effects[c] > 0
    PROVE  effects'[c] > 0
<1>1. CASE effects' = effects
  BY <1>1
<1>2. CASE Next /\ effects' # effects
  <2>1. ASSUME NEW w \in Workers, ServerApplies(w) PROVE effects'[c] > 0
    BY <2>1 DEF ServerApplies, Effect, TypeOK
  <2>2. ASSUME NEW r \in adrift, AdriftLands(r) PROVE effects'[c] > 0
    BY <2>2 DEF AdriftLands, Effect, TypeOK
  <2> QED
    BY <1>2, <2>1, <2>2, EffectSteps
<1> QED
  BY <1>1, <1>2 DEF vars, accountVars

-----------------------------------------------------------------------------
(* Consent is the author's.                                                 *)

\* Past the reading of the card the quotation is known to be unchanged.
QuotesIntact ==
    \A w \in Workers : pc[w] \in {"bind", "recheck", "confirm"} => turn[w].intact

LEMMA QuotesIntactInit == Init => QuotesIntact
  BY DEF Init, QuotesIntact

LEMMA QuotesIntactNext ==
    ASSUME TypeOK, Serving, QuotesIntact, [Next]_vars
    PROVE  QuotesIntact'
<1> SUFFICES ASSUME NEW w \in Workers, pc'[w] \in {"bind", "recheck", "confirm"}
             PROVE  turn'[w].intact
  BY DEF QuotesIntact
<1>1. CASE pc'[w] = pc[w] /\ turn'[w] = turn[w]
  BY <1>1 DEF QuotesIntact
<1>2. CASE turn'[w] = turn[w] /\ Edge(w)
  BY <1>2 DEF QuotesIntact, Edge
<1> QED
  BY <1>1, <1>2, WorkerSteps DEF Moved

\* The only step that turns a pending row into a confirmed one, or stamps an
\* anchor, is the reply's.
LEMMA AnswerSteps ==
    ASSUME TypeOK, Serving, Next, NEW c \in Proposals
    PROVE  /\ ConsentGiven(c) =>
                \E w \in Workers : ConfirmReply(w) /\ Cid(w) = c
                                   /\ MatchConfirmByReply(c, turn[w].actor, turn[w].chat, turn[w].reply)
           /\ anchor'[c] # anchor[c] =>
                \E w \in Workers : /\ Cid(w) = c
                                   /\ BindCard(c, turn[w].actor, turn[w].chat, turn[w].reply)
<1> DEFINE Consents == \E w \in Workers : ConfirmReply(w) /\ Cid(w) = c
                          /\ MatchConfirmByReply(c, turn[w].actor, turn[w].chat, turn[w].reply)
           Binds == \E w \in Workers : Cid(w) = c
                          /\ BindCard(c, turn[w].actor, turn[w].chat, turn[w].reply)
           Goal == (ConsentGiven(c) => Consents) /\ (anchor'[c] # anchor[c] => Binds)
<1>1. ASSUME UNCHANGED storeVars PROVE Goal
  BY <1>1 DEF storeVars, ConsentGiven
<1>2. ASSUME anchor' = anchor, NEW x \in Proposals, NEW to, to # "confirmed",
             status' = [status EXCEPT ![x] = to]
      PROVE  Goal
  BY <1>2 DEF ConsentGiven, TypeOK, StoreTypeOK
<1>3. ASSUME NEW w \in Workers, Confirmation(w) PROVE Goal
  <2>1. CASE BindAnchor(w) /\ ~UNCHANGED storeVars
    <3>1. /\ BindCard(Cid(w), turn[w].actor, turn[w].chat, turn[w].reply)
          /\ Cid(w) \in Proposals
      BY <2>1, TurnMoves DEF BindAnchor
    <3>2. ~ConsentGiven(c)
      BY <3>1 DEF BindCard, Stamp, ConsentGiven
    <3>3. anchor'[c] # anchor[c] => Cid(w) = c
      BY <3>1 DEF BindCard, Stamp, TypeOK, StoreTypeOK
    <3> QED
      BY <3>1, <3>2, <3>3
  <2>2. CASE ConfirmReply(w) /\ ~UNCHANGED storeVars
    <3>1. /\ MatchConfirmByReply(Cid(w), turn[w].actor, turn[w].chat, turn[w].reply)
          /\ status' = [status EXCEPT ![Cid(w)] = "confirmed"]
          /\ anchor' = anchor /\ Cid(w) \in Proposals
      BY <2>2, TurnMoves DEF ConfirmReply, ConfirmByReply, Decide, Cid
    <3>2. ConsentGiven(c) => Cid(w) = c
      BY <3>1 DEF ConsentGiven, TypeOK, StoreTypeOK
    <3> QED
      BY <2>2, <3>1, <3>2
  <2> QED
    BY <1>1, <1>3, <2>1, <2>2 DEF Confirmation, ReadCard, RecheckAnchor, Check
<1>4. ASSUME NEW w \in Workers, Orchestration(w) \/ Gates(w) PROVE Goal
  <2>1. CASE ClaimProposal(w) /\ ~UNCHANGED storeVars
    <3>1. /\ status' = [status EXCEPT ![Cid(w)] = "executing"]
          /\ anchor' = anchor /\ Cid(w) \in Proposals
      BY <2>1, TurnMoves DEF ClaimProposal, Claim
    <3> QED
      BY <1>2, <3>1
  <2> QED
    BY <1>1, <1>4, <2>1 DEF Orchestration, Gates, LoadConfirmed, LoadKilled, VerifyFreshness,
       ResolveTarget, RefuseKilled, PassGates, TakeBudgetGate, RecordMoneyEvent, MoneyEventFails,
       Check
<1>5. ASSUME NEW w \in Workers, Mutation(w) \/ Answer(w) PROVE Goal
  <2>1. CASE FinalizeProposal(w) /\ ~UNCHANGED storeVars
    <3>1. /\ status' = [status EXCEPT ![Cid(w)] = "applied"]
          /\ anchor' = anchor /\ Cid(w) \in Proposals
      BY <2>1, TurnMoves DEF FinalizeProposal, Finalize, Decide
    <3> QED
      BY <1>2, <3>1
  <2>2. CASE FlagMismatch(w) /\ ~UNCHANGED storeVars
    <3>1. /\ status' = [status EXCEPT ![Cid(w)] = "needs_review"]
          /\ anchor' = anchor /\ Cid(w) \in Proposals
      BY <2>2, TurnMoves DEF FlagMismatch, RecordVerification, Decide
    <3> QED
      BY <1>2, <3>1
  <2> QED
    BY <1>1, <1>5, <2>1, <2>2 DEF Mutation, Answer, CheckUserCommand, SendRequest, SendBlocked,
       RetryCall, CallReturns, CallFails, CallLost, FinalizeFails, PostVerify,
       PostVerifyMismatch, ReportOutcome, ReportFails, Check
<1>6. ASSUME NEW x \in Proposals, NEW d \in Drafts, Propose(x, d) PROVE Goal
  BY <1>2, <1>6 DEF Propose, SaveProposal
<1>7. ASSUME NEW x \in Proposals, CancelProposal(x) PROVE Goal
  BY <1>2, <1>7 DEF CancelProposal, RejectByActor, Decide
<1>8. ASSUME NEW x \in Proposals, Sweep(x) PROVE Goal
  BY <1>2, <1>8 DEF Sweep, CleanupStale, Reject, ReconcileExecuting, MarkNeedsReview,
                    ReconcileConfirmed, MarkConfirmedFailed, Decide
<1>9. ASSUME Tick PROVE Goal
  BY <1>9 DEF Tick, Advance, ConsentGiven
<1> HIDE DEF Goal
<1>10. Goal
  BY <1>1, <1>3, <1>4, <1>5, <1>6, <1>7, <1>8, <1>9, OtherMoves DEF Next, Work
<1> QED
  BY <1>10 DEF Goal

\* However many replies race, and whoever sends them: a card becomes consent
\* only by its author's reply to the message it is anchored to, with the diff
\* unchanged, and only the author's reply anchors it.
THEOREM AuthorAlone == Spec => OnlyTheAuthorAnswers
<1> DEFINE Inv == TypeOK /\ Serving /\ QuotesIntact
           Answers2 == \A c \in Proposals :
              /\ ConsentGiven(c) =>
                    \E w \in Workers : Serves(w, c) /\ turn[w].intact /\ turn[w].reply = anchor[c]
              /\ anchor'[c] # anchor[c] =>
                    \E w \in Workers : Serves(w, c) /\ turn[w].reply = anchor'[c]
<1>1. ASSUME Inv, [Next]_vars PROVE [Answers2]_vars
  <2> SUFFICES ASSUME Next, NEW c \in Proposals
               PROVE  /\ ConsentGiven(c) =>
                         \E w \in Workers :
                            Serves(w, c) /\ turn[w].intact /\ turn[w].reply = anchor[c]
                      /\ anchor'[c] # anchor[c] =>
                         \E w \in Workers : Serves(w, c) /\ turn[w].reply = anchor'[c]
    BY <1>1
  <2>1. ASSUME ConsentGiven(c)
        PROVE  \E w \in Workers : Serves(w, c) /\ turn[w].intact /\ turn[w].reply = anchor[c]
    <3>1. PICK w \in Workers :
            /\ ConfirmReply(w) /\ Cid(w) = c
            /\ MatchConfirmByReply(c, turn[w].actor, turn[w].chat, turn[w].reply)
      BY <1>1, <2>1, AnswerSteps
    <3>2. turn[w].intact
      BY <1>1, <3>1 DEF ConfirmReply, QuotesIntact
    <3> QED
      BY <3>1, <3>2 DEF Serves, MatchConfirmByReply
  <2>2. ASSUME anchor'[c] # anchor[c]
        PROVE  \E w \in Workers : Serves(w, c) /\ turn[w].reply = anchor'[c]
    <3>1. PICK w \in Workers :
            Cid(w) = c /\ BindCard(c, turn[w].actor, turn[w].chat, turn[w].reply)
      BY <1>1, <2>2, AnswerSteps
    <3> QED
      BY <1>1, <3>1 DEF BindCard, MatchBind, Stamp, Serves, TypeOK, StoreTypeOK
  <2> QED
    BY <2>1, <2>2
<1>2. Init => Inv
  BY PathTypeInit, QuotesIntactInit
<1>3. Inv /\ [Next]_vars => Inv'
  BY PathTypeNext, QuotesIntactNext
<1> HIDE DEF Inv
<1> QED
  BY <1>1, <1>2, <1>3, PTL DEF Spec, OnlyTheAuthorAnswers

-----------------------------------------------------------------------------
(* The answer and the journal are true.                                     *)

AnswersTrue ==
    \A w \in Workers : report[w].answer = "executed" =>
        report[w].cid \in Proposals /\ effects[report[w].cid] > 0

JournalTrue ==
    \A c \in Proposals : \A i \in 1 .. Len(journal[c]) : journal[c][i] = "applied" => effects[c] > 0

LEMMA AnswersTrueInit == Init => AnswersTrue /\ JournalTrue
<1>1. Init => AnswersTrue
  BY DEF Init, NoReport, AnswersTrue
<1>2. Init => JournalTrue
  BY DEF Init, StoreInit, JournalTrue
<1> QED
  BY <1>1, <1>2

\* A worker answers "executed" only at the end of its work.
LEMMA ReportSteps ==
    ASSUME TypeOK, Serving, [Next]_vars, NEW w \in Workers, report'[w].answer = "executed"
    PROVE  \/ report'[w] = report[w]
           \/ pc[w] = "report" /\ report'[w].cid = Cid(w)
<1> DEFINE Goal == report'[w] = report[w] \/ (pc[w] = "report" /\ report'[w].cid = Cid(w))
<1>1. ASSUME report' = report PROVE Goal
  BY <1>1
<1>2. ASSUME NEW v \in Workers, NEW answer, answer # "executed", Finish(v, answer) PROVE Goal
  BY <1>2 DEF Finish, TypeOK
<1>3. ASSUME NEW v \in Workers, NEW step, Goto(v, step) PROVE Goal
  BY <1>3 DEF Goto
<1>4. ASSUME NEW v \in Workers, NEW at, NEW holds, NEW next, NEW answer, answer # "executed",
             Check(v, at, holds, next, answer)
      PROVE  Goal
  BY <1>2, <1>3, <1>4 DEF Check
<1>5. ASSUME NEW v \in Workers, ReportOutcome(v) PROVE Goal
  BY <1>5 DEF ReportOutcome, Finish, TypeOK
<1> HIDE DEF Goal
<1>6. ASSUME NEW v \in Workers, Confirmation(v) PROVE Goal
  BY <1>2, <1>3, <1>4, <1>6
     DEF Confirmation, ReadCard, BindAnchor, RecheckAnchor, ConfirmReply
<1>7. ASSUME NEW v \in Workers, Orchestration(v) PROVE Goal
  BY <1>4, <1>7 DEF Orchestration, LoadConfirmed, LoadKilled, VerifyFreshness, ResolveTarget
<1>8. ASSUME NEW v \in Workers, Gates(v) PROVE Goal
  <2>1. CASE RefuseKilled(v) \/ PassGates(v) \/ MoneyEventFails(v)
    BY <1>4, <2>1 DEF RefuseKilled, PassGates, MoneyEventFails
  <2>2. CASE TakeBudgetGate(v) \/ RecordMoneyEvent(v) \/ ClaimProposal(v)
    BY <1>2, <1>3, <2>2 DEF TakeBudgetGate, RecordMoneyEvent, ClaimProposal
  <2> QED
    BY <1>8, <2>1, <2>2 DEF Gates
<1>9. ASSUME NEW v \in Workers, Mutation(v) PROVE Goal
  <2>1. CASE CheckUserCommand(v) \/ SendBlocked(v) \/ FinalizeFails(v)
    BY <1>4, <2>1 DEF CheckUserCommand, SendBlocked, FinalizeFails
  <2>2. CASE SendRequest(v) \/ RetryCall(v) \/ CallReturns(v)
    BY <1>1, <2>2 DEF SendRequest, RetryCall, CallReturns
  <2>3. CASE CallFails(v) \/ CallLost(v) \/ FinalizeProposal(v)
    BY <1>2, <1>3, <2>3 DEF CallFails, CallLost, FinalizeProposal
  <2> QED
    BY <1>9, <2>1, <2>2, <2>3 DEF Mutation
<1>10. ASSUME NEW v \in Workers, Answer(v) PROVE Goal
  BY <1>3, <1>4, <1>5, <1>10 DEF Answer, PostVerify, PostVerifyMismatch, FlagMismatch, ReportFails
<1>11. ASSUME NEW v \in Workers, Start(v) PROVE Goal
  BY <1>11 DEF Start, StartReply, StartDirect, Begin, NoReport, TypeOK, Goal
<1>12. \/ report' = report
       \/ \E v \in Workers : Start(v) \/ Work(v)
  BY DEF Next, Server, ServerApplies, ServerRefuses, ServerUnavailable, Propose,
         CancelProposal, Sweep, AdriftLands, AdriftVanishes, ForeignEdit, FlipKillSwitch, Tick,
         Crash, workerVars, vars
<1>13. Goal
  BY <1>1, <1>6, <1>7, <1>8, <1>9, <1>10, <1>11, <1>12 DEF Work
<1> QED
  BY <1>13 DEF Goal

\* What a move of the table writes into a journal.
LEMMA JournalMoves ==
    ASSUME TypeOK, StoreMove \/ UNCHANGED storeVars, NEW c \in Proposals
    PROVE  /\ journal[c] \in Seq(AuditStatuses)
           /\ \/ journal'[c] = journal[c]
              \/ \E s \in AuditStatuses :
                    /\ journal'[c] = Append(journal[c], s)
                    /\ s # "reopened" => status'[c] = s
<1> USE DEF TypeOK, StoreTypeOK
<1>1. journal[c] \in Seq(AuditStatuses)
  OBVIOUS
<1>2. ASSUME journal' = journal PROVE journal'[c] = journal[c]
  BY <1>2
<1>3. ASSUME NEW x \in Proposals, Decides(x) \/ Reopen(x)
      PROVE  \/ journal'[c] = journal[c]
             \/ \E s \in AuditStatuses :
                   journal'[c] = Append(journal[c], s) /\ (s # "reopened" => status'[c] = s)
  BY <1>3 DEF Decides, Decide, Reopen, AuditStatuses
<1> QED
  BY <1>1, <1>2, <1>3 DEF StoreMove, SaveProposal, Anchors, Stamp, Claim, Advance, storeVars

LEMMA AnswersTrueNext ==
    ASSUME TypeOK, Serving, PathInv, PathInv', AnswersTrue, JournalTrue, [Next]_vars
    PROVE  AnswersTrue' /\ JournalTrue'
<1>1. AnswersTrue'
  <2> SUFFICES ASSUME NEW w \in Workers, report'[w].answer = "executed"
               PROVE  report'[w].cid \in Proposals /\ effects'[report'[w].cid] > 0
    BY DEF AnswersTrue
  <2>1. CASE report'[w] = report[w]
    BY <2>1, EffectsStay DEF AnswersTrue
  <2>2. CASE pc[w] = "report" /\ report'[w].cid = Cid(w)
    <3>1. Landed(w) /\ Cid(w) \in Proposals
      BY <2>2, TurnMoves DEF Landed
    <3> QED
      BY <2>2, <3>1, EffectsStay DEF PathInv, LandedIsDone
  <2> QED
    BY <2>1, <2>2, ReportSteps
<1>2. JournalTrue'
  <2> SUFFICES ASSUME NEW c \in Proposals, NEW i \in 1 .. Len(journal'[c]),
                      journal'[c][i] = "applied"
               PROVE  effects'[c] > 0
    BY DEF JournalTrue
  <2>1. StoreMove \/ UNCHANGED storeVars
    BY EveryPathStepIsAMove DEF vars
  <2>2. CASE journal'[c] = journal[c]
    BY <2>2, EffectsStay DEF JournalTrue
  <2>3. ASSUME NEW s \in AuditStatuses, journal'[c] = Append(journal[c], s),
               s # "reopened" => status'[c] = s
        PROVE  effects'[c] > 0
    <3>1. journal[c] \in Seq(AuditStatuses)
      BY <2>1, JournalMoves
    <3>2. CASE i \in 1 .. Len(journal[c])
      <4>1. journal[c][i] = "applied"
        BY <2>3, <3>1, <3>2
      <4> QED
        BY <3>2, <4>1, EffectsStay DEF JournalTrue
    <3>3. CASE i = Len(journal[c]) + 1
      <4>1. status'[c] = "applied"
        BY <2>3, <3>1, <3>3
      <4> QED
        BY <4>1 DEF PathInv, EffectsFit
    <3> QED
      BY <2>3, <3>1, <3>2, <3>3
  <2> QED
    BY <2>1, <2>2, <2>3, JournalMoves
<1> QED
  BY <1>1, <1>2

\* "Executed" is answered and "applied" is journaled only of a change that is
\* in the account, whatever timed out, crashed or was swept meanwhile.
THEOREM SuccessIsHonest == Spec => []SuccessIsTrue
<1> DEFINE Inv == TypeOK /\ Serving /\ PathInv
           Honest == AnswersTrue /\ JournalTrue
<1>1. Init => Honest
  BY AnswersTrueInit
<1>2. Inv /\ Inv' /\ Honest /\ [Next]_vars => Honest'
  BY AnswersTrueNext
<1>3. Honest => SuccessIsTrue
  BY DEF AnswersTrue, JournalTrue, SuccessIsTrue
<1> HIDE DEF Inv, Honest
<1>4. Spec => []Inv
  BY PathInvariant DEF Inv
<1> QED
  BY <1>1, <1>2, <1>3, <1>4, PTL DEF Spec

-----------------------------------------------------------------------------
(* Every effect is authorised.                                              *)

Consented(c) == \E i \in 1 .. Len(journal[c]) : journal[c][i] = "confirmed"

BehindGate == {"send", "call", "finalize", "verify", "flag", "report"}
BehindClaim == BehindGate \cup {"command"}

\* A worker past the loading of its proposal works on a row that exists.
RowsAreThere ==
    \A w \in Workers :
        pc[w] \in BehindClaim \cup {"fresh", "resolve", "gates", "cap", "event", "claim"} =>
            Cid(w) \in Proposals /\ status[Cid(w)] # "absent"

ConsentJournaled ==
    \A c \in Proposals :
        status[c] \in {"confirmed", "executing", "needs_review", "applied"} => Consented(c)

WorkAuthorised ==
    \A w \in Workers :
        /\ pc[w] \in BehindClaim \cup {"claim"} => requested[Cid(w)]
        /\ pc[w] \in BehindGate => Commanded(Cid(w))

AdriftAuthorised == \A r \in adrift : requested[r[1]] /\ Commanded(r[1])

EffectsAuthorised == \A c \in Proposals : effects[c] > 0 => requested[c] /\ Commanded(c)

AuthInv ==
    /\ RowsAreThere /\ ConsentJournaled
    /\ WorkAuthorised /\ AdriftAuthorised /\ EffectsAuthorised

LEMMA AuthInvInit == Init => AuthInv
  BY DEF Init, StoreInit, AuthInv, RowsAreThere, ConsentJournaled, WorkAuthorised,
         AdriftAuthorised, EffectsAuthorised, BehindGate, BehindClaim

LEMMA RowsAreThereNext ==
    ASSUME TypeOK, Serving, RowsAreThere, [Next]_vars
    PROVE  RowsAreThere'
<1> SUFFICES ASSUME NEW w \in Workers,
                    pc'[w] \in BehindClaim \cup {"fresh", "resolve", "gates", "cap", "event", "claim"}
             PROVE  Cid(w)' \in Proposals /\ status'[Cid(w)'] # "absent"
  BY DEF RowsAreThere, BehindClaim, BehindGate
<1>1. CASE pc'[w] = pc[w] /\ turn'[w] = turn[w]
  BY <1>1, DraftsStay DEF RowsAreThere, Cid
<1>2. CASE turn'[w] = turn[w] /\ Edge(w)
  <2>1. Cid(w)' = Cid(w)
    BY <1>2 DEF Cid
  <2>2. Cid(w) \in Proposals /\ status[Cid(w)] # "absent"
    BY <1>2, TurnMoves DEF RowsAreThere, Edge, BehindClaim, BehindGate
  <2> QED
    BY <2>1, <2>2, DraftsStay
<1> QED
  BY <1>1, <1>2, WorkerSteps DEF Moved, BehindClaim, BehindGate

LEMMA ConsentJournaledNext ==
    ASSUME TypeOK, Serving, ConsentJournaled, [Next]_vars
    PROVE  ConsentJournaled'
<1> DEFINE Held == {"confirmed", "executing", "needs_review", "applied"}
<1> SUFFICES ASSUME NEW c \in Proposals, status'[c] \in Held
             PROVE  Consented(c)'
  BY DEF ConsentJournaled
<1>1. StoreMove \/ UNCHANGED storeVars
  BY EveryPathStepIsAMove DEF vars
<1>2. ASSUME status[c] \in Held PROVE Consented(c)'
  <2>1. PICK i \in 1 .. Len(journal[c]) : journal[c][i] = "confirmed"
    BY <1>2 DEF ConsentJournaled, Consented
  <2>2. i \in 1 .. Len(journal'[c]) /\ journal'[c][i] = "confirmed"
    BY <1>1, <2>1, JournalMoves
  <2> QED
    BY <2>2 DEF Consented
<1>3. ASSUME journal'[c] = Append(journal[c], "confirmed") PROVE Consented(c)'
  <2>1. journal[c] \in Seq(AuditStatuses) /\ "confirmed" \in AuditStatuses
    BY DEF TypeOK, StoreTypeOK, AuditStatuses
  <2>2. /\ Len(journal[c]) + 1 \in 1 .. Len(journal'[c])
        /\ journal'[c][Len(journal[c]) + 1] = "confirmed"
    BY <1>3, <2>1
  <2> QED
    BY <2>2 DEF Consented
<1>4. status[c] \in Held \/ journal'[c] = Append(journal[c], "confirmed")
  <2> USE DEF TypeOK, StoreTypeOK
  <2>1. ASSUME status' = status PROVE status[c] \in Held
    BY <2>1
  <2>2. ASSUME NEW x \in Proposals, NEW d \in Drafts, SaveProposal(x, d) PROVE status[c] \in Held
    BY <2>2 DEF SaveProposal
  <2>3. ASSUME NEW x \in Proposals, Decides(x)
        PROVE  status[c] \in Held \/ journal'[c] = Append(journal[c], "confirmed")
    BY <2>3 DEF Decides, Decide
  <2>4. ASSUME NEW x \in Proposals, Claim(x, draft[x].op) \/ Reopen(x) PROVE status[c] \in Held
    BY <2>4 DEF Claim, MatchClaim, Reopen
  <2> HIDE DEF Held
  <2> QED
    BY <1>1, <2>1, <2>2, <2>3, <2>4 DEF StoreMove, Anchors, Stamp, Advance, storeVars
<1> QED
  BY <1>2, <1>3, <1>4

LEMMA WorkAuthorisedNext ==
    ASSUME TypeOK, Serving, RowsAreThere, WorkAuthorised, [Next]_vars
    PROVE  WorkAuthorised'
<1> SUFFICES ASSUME NEW w \in Workers, pc'[w] \in BehindClaim \cup {"claim"}
             PROVE  requested'[Cid(w)'] /\ (pc'[w] \in BehindGate => Commanded(Cid(w))')
  BY DEF WorkAuthorised, BehindClaim
<1>1. /\ pc[w] # "idle" /\ turn'[w] = turn[w]
      /\ pc'[w] = pc[w] \/ Edge(w)
  <2>1. Moved(w) /\ pc'[w] \notin {"idle", "read", "load"}
    BY WorkerSteps DEF BehindClaim, BehindGate
  <2>2. Edge(w) => pc[w] # "idle"
    BY DEF Edge
  <2> QED
    BY <2>1, <2>2 DEF Moved
<1>2. Cid(w)' = Cid(w) /\ Cid(w) \in Proposals
  BY <1>1, TurnMoves DEF Cid
<1>3. requested'[Cid(w)]
  <2>1. CASE pc[w] \in BehindClaim \cup {"claim"}
    BY <1>2, <2>1, RequestsStay DEF WorkAuthorised
  <2>2. CASE pc[w] \notin BehindClaim \cup {"claim"}
    BY <1>1, <2>2 DEF Edge, BehindClaim, BehindGate
  <2> QED
    BY <2>1, <2>2
<1>4. ASSUME pc'[w] \in BehindGate PROVE Commanded(Cid(w))'
  <2>1. Commanded(Cid(w)) /\ pc[w] \in BehindClaim
    BY <1>1, <1>4 DEF Edge, BehindClaim, BehindGate, WorkAuthorised
  <2>2. draft'[Cid(w)] = draft[Cid(w)]
    BY <1>2, <2>1, DraftsStay DEF RowsAreThere
  <2> QED
    BY <1>2, <2>1, <2>2 DEF Commanded
<1> QED
  BY <1>2, <1>3, <1>4

\* A request is adrift only if a worker had sent it and waited for it.
LEMMA AdriftSteps ==
    ASSUME TypeOK, [Next]_vars, NEW r \in adrift' \ adrift
    PROVE  \E w \in Workers : call[w] = "flying" /\ r[1] = Cid(w)
<1>1. ASSUME NEW S \in SUBSET Workers, adrift' = adrift \cup LeftBehind(S)
      PROVE  \E w \in Workers : call[w] = "flying" /\ r[1] = Cid(w)
  BY <1>1 DEF LeftBehind
<1>2. ASSUME NEW w \in Workers, Work(w)
      PROVE  adrift' = adrift \/ adrift' = adrift \cup LeftBehind({w})
  <2>1. CASE Confirmation(w) \/ Orchestration(w)
    BY <2>1 DEF Confirmation, Orchestration, ReadCard, BindAnchor, RecheckAnchor, ConfirmReply,
       LoadConfirmed, LoadKilled, VerifyFreshness, ResolveTarget, Check, accountVars
  <2>2. CASE Gates(w)
    BY <2>2 DEF Gates, RefuseKilled, PassGates, TakeBudgetGate, RecordMoneyEvent,
       MoneyEventFails, ClaimProposal, Check, accountVars
  <2>3. CASE Mutation(w) \/ Answer(w)
    BY <2>3 DEF Mutation, CheckUserCommand, SendRequest, SendBlocked, RetryCall, CallReturns,
       CallFails, CallLost, FinalizeProposal, FinalizeFails, Answer, PostVerify,
       PostVerifyMismatch, FlagMismatch, ReportOutcome, ReportFails, Check, accountVars
  <2> QED
    BY <1>2, <2>1, <2>2, <2>3 DEF Work
<1>3. ASSUME NEW p \in Processes, Crash(p)
      PROVE  \E S \in SUBSET Workers : adrift' = adrift \cup LeftBehind(S)
  BY <1>3 DEF Crash
<1>4. \/ adrift' \subseteq adrift
      \/ \E w \in Workers : Work(w) \/ ServerUnavailable(w)
      \/ \E p \in Processes : Crash(p)
  BY DEF Next, Start, StartReply, StartDirect, Begin, Server, ServerApplies, ServerRefuses,
     Propose, CancelProposal, Sweep, AdriftLands, AdriftVanishes, ForeignEdit, FlipKillSwitch,
     Tick, accountVars, vars
<1>5. ASSUME NEW w \in Workers, Work(w)
      PROVE  \E v \in Workers : call[v] = "flying" /\ r[1] = Cid(v)
  <2>1. adrift' = adrift \cup LeftBehind({w}) /\ {w} \in SUBSET Workers
    BY <1>2, <1>5
  <2> QED
    BY <1>1, <2>1
<1>6. ASSUME NEW p \in Processes, Crash(p)
      PROVE  \E v \in Workers : call[v] = "flying" /\ r[1] = Cid(v)
  BY <1>1, <1>3, <1>6
<1>7. ASSUME NEW w \in Workers, ServerUnavailable(w)
      PROVE  \E v \in Workers : call[v] = "flying" /\ r[1] = Cid(v)
  BY <1>1, <1>7 DEF ServerUnavailable
<1> QED
  BY <1>4, <1>5, <1>6, <1>7

LEMMA EffectsAuthorisedNext ==
    ASSUME TypeOK, Serving, PathInv, AuthInv, [Next]_vars
    PROVE  AdriftAuthorised' /\ EffectsAuthorised'
<1> DEFINE Free(c) == requested[c] /\ Commanded(c) /\ status[c] # "absent" /\ c \in Proposals
<1>1. ASSUME NEW c, Free(c) PROVE requested'[c] /\ Commanded(c)'
  BY <1>1, DraftsStay, RequestsStay DEF Commanded
<1>2. ASSUME NEW w \in Workers, call[w] = "flying" PROVE Free(Cid(w))
  <2>1. pc[w] = "call"
    BY <1>2 DEF Serving
  <2> QED
    BY <2>1 DEF AuthInv, RowsAreThere, WorkAuthorised, BehindClaim, BehindGate
<1>3. ASSUME NEW r \in adrift PROVE Free(r[1])
  <2>1. r[1] \in Proposals
    BY DEF TypeOK
  <2>2. status[r[1]] # "absent"
    BY <2>1 DEF PathInv, AdriftIsSingle, Unsent
  <2> QED
    BY <2>1, <2>2 DEF AuthInv, AdriftAuthorised
<1>4. ASSUME NEW c \in Proposals, effects[c] > 0 PROVE Free(c)
  BY <1>4 DEF AuthInv, EffectsAuthorised, PathInv, EffectsFit, Unsent
<1> HIDE DEF Free
<1>5. AdriftAuthorised'
  <2> SUFFICES ASSUME NEW r \in adrift' PROVE requested'[r[1]] /\ Commanded(r[1])'
    BY DEF AdriftAuthorised
  <2>1. CASE r \in adrift
    BY <1>1, <1>3, <2>1
  <2>2. CASE r \notin adrift
    BY <1>1, <1>2, <2>2, AdriftSteps
  <2> QED
    BY <2>1, <2>2
<1>6. EffectsAuthorised'
  <2> SUFFICES ASSUME NEW c \in Proposals, effects'[c] > 0 PROVE Free(c)
    BY <1>1 DEF EffectsAuthorised
  <2>1. CASE effects' = effects
    BY <1>4, <2>1
  <2>2. ASSUME NEW w \in Workers, ServerApplies(w) PROVE Free(c)
    <3>1. call[w] = "flying" /\ effects' = [effects EXCEPT ![Cid(w)] = @ + 1]
      BY <2>2 DEF ServerApplies, Effect
    <3>2. CASE c = Cid(w)
      BY <1>2, <3>1, <3>2
    <3>3. CASE c # Cid(w)
      BY <1>4, <3>1, <3>3 DEF TypeOK
    <3> QED
      BY <3>2, <3>3
  <2>3. ASSUME NEW r \in adrift, AdriftLands(r) PROVE Free(c)
    <3>1. effects' = [effects EXCEPT ![r[1]] = @ + 1]
      BY <2>3 DEF AdriftLands, Effect
    <3>2. CASE c = r[1]
      BY <1>3, <3>2
    <3>3. CASE c # r[1]
      BY <1>4, <3>1, <3>3 DEF TypeOK
    <3> QED
      BY <3>2, <3>3
  <2> QED
    BY <2>1, <2>2, <2>3, EffectSteps DEF vars, accountVars
<1> QED
  BY <1>5, <1>6

\* No change reaches the account without a consent in its journal, a request in
\* the money journal and, where money moves, a human turn behind its draft.
THEOREM EffectsAreAuthorised == Spec => []EffectIsAuthorised
<1> DEFINE Inv == TypeOK /\ Serving /\ PathInv
<1>1. Inv /\ AuthInv /\ [Next]_vars => AuthInv'
  BY RowsAreThereNext, ConsentJournaledNext, WorkAuthorisedNext, EffectsAuthorisedNext DEF AuthInv
<1>2. Inv /\ AuthInv => EffectIsAuthorised
  <2> SUFFICES ASSUME Inv, AuthInv, NEW c \in Proposals, effects[c] > 0
               PROVE  Consented(c) /\ requested[c] /\ Commanded(c)
    BY DEF EffectIsAuthorised, Consented, Commanded
  <2>1. effects[c] > 0 /\ status[c] \in Statuses \ Unsent
    BY DEF PathInv, EffectsFit, TypeOK, StoreTypeOK
  <2> QED
    BY <2>1 DEF AuthInv, ConsentJournaled, EffectsAuthorised, Statuses, Unsent
<1> HIDE DEF Inv
<1>3. Spec => []Inv
  BY PathInvariant DEF Inv
<1> QED
  BY <1>1, <1>2, <1>3, AuthInvInit, PTL DEF Spec

-----------------------------------------------------------------------------
(* What was sent is the diff on the card.  Once the base of a relative      *)
(* change has moved under an undecided card, the card is doomed: the        *)
(* version of the account only grows, nothing draws the card again, no      *)
(* worker was past the comparison yet, and none can pass it any more.       *)

PastLoad == BehindClaim \cup {"fresh", "resolve", "gates", "cap", "event", "claim"}
PastFresh == PastLoad \ {"fresh"}

\* A worker past the loading of its proposal works on a decided row, and a card
\* shows a version the account has had.
CardsArePast ==
    /\ \A w \in Workers : pc[w] \in PastLoad =>
            Cid(w) \in Proposals /\ status[Cid(w)] \notin {"absent", "pending"}
    /\ \A c \in Proposals : shown[c] # Unread => shown[c] <= version

Doomed(c) ==
    /\ status[c] # "absent" /\ Relative(draft[c].op) /\ ~SameAsShown(c)
    /\ \A w \in Workers : pc[w] \in PastFresh => Cid(w) # c
    /\ ~Drifting(c)
    /\ effects[c] = 0

\* On this path no row becomes undecided again.
LEMMA DecidedStays ==
    ASSUME TypeOK, Serving, [Next]_vars, NEW c \in Proposals, status[c] \notin {"absent", "pending"}
    PROVE  status'[c] \notin {"absent", "pending"}
<1> DEFINE Goal == status'[c] \notin {"absent", "pending"}
<1>1. ASSUME status' = status PROVE Goal
  BY <1>1
<1>2. ASSUME NEW x \in Proposals, NEW to, to \notin {"absent", "pending"},
             status' = [status EXCEPT ![x] = to]
      PROVE  Goal
  BY <1>2 DEF TypeOK, StoreTypeOK
<1> USE DEF storeVars
<1>3. ASSUME NEW w \in Workers, Confirmation(w) PROVE Goal
  <2>1. \/ status' = status
        \/ Cid(w) \in Proposals /\ status' = [status EXCEPT ![Cid(w)] = "confirmed"]
    BY <1>3, TurnMoves DEF Confirmation, ReadCard, BindAnchor, BindCard, Stamp, RecheckAnchor,
       ConfirmReply, ConfirmByReply, Decide, Check, Cid
  <2> QED
    BY <1>1, <1>2, <2>1
<1>4. ASSUME NEW w \in Workers, Orchestration(w) \/ Gates(w) PROVE Goal
  <2>1. \/ status' = status
        \/ Cid(w) \in Proposals /\ status' = [status EXCEPT ![Cid(w)] = "executing"]
    BY <1>4, TurnMoves DEF Orchestration, Gates, LoadConfirmed, LoadKilled, VerifyFreshness,
       ResolveTarget, RefuseKilled, PassGates, TakeBudgetGate, RecordMoneyEvent, MoneyEventFails,
       ClaimProposal, Claim, Check
  <2> QED
    BY <1>1, <1>2, <2>1
<1>5. ASSUME NEW w \in Workers, Mutation(w) \/ Answer(w) PROVE Goal
  <2>1. \/ status' = status
        \/ Cid(w) \in Proposals /\ status' = [status EXCEPT ![Cid(w)] = "applied"]
        \/ Cid(w) \in Proposals /\ status' = [status EXCEPT ![Cid(w)] = "needs_review"]
    BY <1>5, TurnMoves DEF Mutation, Answer, CheckUserCommand, SendRequest, SendBlocked,
       RetryCall, CallReturns, CallFails, CallLost, FinalizeProposal, Finalize, FinalizeFails,
       PostVerify, PostVerifyMismatch, FlagMismatch, RecordVerification, ReportOutcome,
       ReportFails, Decide, Check
  <2> QED
    BY <1>1, <1>2, <2>1
<1>6. ASSUME NEW x \in Proposals, NEW d \in Drafts, Propose(x, d) PROVE Goal
  BY <1>6 DEF Propose, SaveProposal, MatchSave, TypeOK, StoreTypeOK
<1>7. ASSUME NEW x \in Proposals, CancelProposal(x) \/ Sweep(x) PROVE Goal
  <2>1. \E to \in {"rejected", "needs_review", "failed"} : status' = [status EXCEPT ![x] = to]
    BY <1>7 DEF CancelProposal, RejectByActor, Sweep, CleanupStale, Reject, ReconcileExecuting,
       MarkNeedsReview, ReconcileConfirmed, MarkConfirmedFailed, Decide
  <2> QED
    BY <1>2, <2>1
<1>8. ASSUME Tick PROVE Goal
  BY <1>1, <1>8 DEF Tick, Advance
<1> HIDE DEF Goal
<1>9. Goal
  BY <1>1, <1>3, <1>4, <1>5, <1>6, <1>7, <1>8, OtherMoves DEF Next, Work, vars
<1> QED
  BY <1>9 DEF Goal

\* A card is drawn once, and the version of the account only grows.
LEMMA ShownStays ==
    ASSUME TypeOK, Serving, [Next]_vars
    PROVE  /\ version' >= version
           /\ \A c \in Proposals :
                \/ shown'[c] = shown[c]
                \/ status[c] = "absent" /\ shown'[c] \in {Unread, version}
<1>1. version' >= version
  <2>1. CASE version' = version
    BY <2>1 DEF TypeOK
  <2>2. CASE version' = version + 1
    BY <2>2 DEF TypeOK
  <2>3. CASE effects' = effects /\ ~ForeignEdit
    <3>1. ASSUME NEW w \in Workers, Work(w) PROVE version' = version
      <4>1. CASE Confirmation(w) \/ Orchestration(w) \/ Gates(w)
        BY <4>1 DEF Confirmation, Orchestration, Gates, ReadCard, BindAnchor, RecheckAnchor,
           ConfirmReply, LoadConfirmed, LoadKilled, VerifyFreshness, ResolveTarget, RefuseKilled,
           PassGates, TakeBudgetGate, RecordMoneyEvent, MoneyEventFails, ClaimProposal, Check,
           accountVars
      <4>2. CASE Mutation(w) \/ Answer(w)
        BY <4>2 DEF Mutation, CheckUserCommand, SendRequest, SendBlocked, RetryCall, CallReturns,
           CallFails, CallLost, FinalizeProposal, FinalizeFails, Answer, PostVerify,
           PostVerifyMismatch, FlagMismatch, ReportOutcome, ReportFails, Check, accountVars
      <4> QED
        BY <3>1, <4>1, <4>2 DEF Work
    <3>2. ASSUME NEW w \in Workers, ServerApplies(w) PROVE version' \in {version, version + 1}
      BY <3>2 DEF ServerApplies, Effect
    <3>3. ASSUME NEW r \in adrift, AdriftLands(r) PROVE version' \in {version, version + 1}
      BY <3>3 DEF AdriftLands, Effect
    <3> QED
      BY <2>1, <2>2, <2>3, <3>1, <3>2, <3>3 DEF Next, Start, StartReply, StartDirect, Begin,
         Server, ServerRefuses, ServerUnavailable, Propose, CancelProposal, Sweep,
         AdriftVanishes, FlipKillSwitch, Tick, Crash, accountVars, vars
  <2>4. CASE ForeignEdit
    BY <2>2, <2>4 DEF ForeignEdit
  <2>5. CASE Next /\ effects' # effects
    BY <2>1, <2>2, <2>5, EffectSteps DEF ServerApplies, AdriftLands, Effect
  <2> QED
    BY <2>3, <2>4, <2>5 DEF vars, accountVars
<1>2. ASSUME NEW w \in Workers, Work(w) PROVE shown' = shown
  <2>1. CASE Confirmation(w) \/ Orchestration(w) \/ Gates(w)
    BY <2>1 DEF Confirmation, Orchestration, Gates, ReadCard, BindAnchor, RecheckAnchor,
       ConfirmReply, LoadConfirmed, LoadKilled, VerifyFreshness, ResolveTarget, RefuseKilled,
       PassGates, TakeBudgetGate, RecordMoneyEvent, MoneyEventFails, ClaimProposal, Check,
       recordVars
  <2>2. CASE Mutation(w) \/ Answer(w)
    BY <2>2 DEF Mutation, CheckUserCommand, SendRequest, SendBlocked, RetryCall, CallReturns,
       CallFails, CallLost, FinalizeProposal, FinalizeFails, Answer, PostVerify,
       PostVerifyMismatch, FlagMismatch, ReportOutcome, ReportFails, Check, recordVars
  <2> QED
    BY <1>2, <2>1, <2>2 DEF Work
<1>3. shown' = shown \/ \E c \in Proposals, d \in Drafts : Propose(c, d)
  BY <1>2 DEF Next, Start, StartReply, StartDirect, Begin, Server, ServerApplies,
     ServerRefuses, ServerUnavailable, CancelProposal, Sweep, AdriftLands, AdriftVanishes,
     ForeignEdit, FlipKillSwitch, Tick, Crash, recordVars, vars
<1>4. ASSUME NEW c \in Proposals, NEW d \in Drafts, Propose(c, d), NEW x \in Proposals
      PROVE  shown'[x] = shown[x] \/ (status[x] = "absent" /\ shown'[x] \in {Unread, version})
  BY <1>4 DEF Propose, SaveProposal, MatchSave, Snapshots, TypeOK
<1> QED
  BY <1>1, <1>3, <1>4

LEMMA CardsArePastNext ==
    ASSUME TypeOK, Serving, CardsArePast, [Next]_vars
    PROVE  CardsArePast'
<1>1. ASSUME NEW w \in Workers, pc'[w] \in PastLoad
      PROVE  Cid(w)' \in Proposals /\ status'[Cid(w)'] \notin {"absent", "pending"}
  <2> USE DEF PastLoad, BehindClaim, BehindGate
  <2>1. CASE pc'[w] = pc[w] /\ turn'[w] = turn[w]
    BY <1>1, <2>1, DecidedStays DEF CardsArePast, Cid
  <2>2. CASE turn'[w] = turn[w] /\ Edge(w)
    <3>1. Cid(w)' = Cid(w)
      BY <2>2 DEF Cid
    <3>2. Cid(w) \in Proposals /\ status[Cid(w)] \notin {"absent", "pending"}
      BY <1>1, <2>2, TurnMoves DEF CardsArePast, Edge
    <3> QED
      BY <3>1, <3>2, DecidedStays
  <2> QED
    BY <1>1, <2>1, <2>2, WorkerSteps DEF Moved
<1>2. ASSUME NEW c \in Proposals, shown'[c] # Unread PROVE shown'[c] <= version'
  <2>1. version \in Nat /\ version' \in Int /\ version' >= version /\ (shown[c] # Unread => shown[c] \in Nat)
    BY ShownStays, PathTypeNext DEF TypeOK
  <2>2. CASE shown'[c] = shown[c]
    BY <1>2, <2>1, <2>2 DEF CardsArePast
  <2>3. CASE shown'[c] \in {Unread, version}
    BY <1>2, <2>1, <2>3
  <2> QED
    BY <2>2, <2>3, ShownStays
<1> QED
  BY <1>1, <1>2 DEF CardsArePast

LEMMA DoomedStays ==
    ASSUME TypeOK, Serving, CardsArePast, [Next]_vars, NEW c \in Proposals, Doomed(c)
    PROVE  Doomed(c)'
<1>1. status'[c] # "absent" /\ draft'[c] = draft[c]
  BY DraftsStay DEF Doomed
<1>2. ~SameAsShown(c)'
  <2>1. shown'[c] = shown[c] /\ version' >= version
    BY ShownStays DEF Doomed
  <2>2. version \in Nat /\ version' \in Nat /\ (shown[c] # Unread => shown[c] \in Nat)
    BY PathTypeNext DEF TypeOK
  <2>3. CASE shown[c] = Unread
    BY <2>1, <2>2, <2>3, PathAssumption DEF SameAsShown
  <2>4. CASE shown[c] # Unread
    BY <2>1, <2>2, <2>4 DEF Doomed, SameAsShown, CardsArePast
  <2> QED
    BY <2>3, <2>4
<1>3. ASSUME NEW w \in Workers, pc'[w] \in PastFresh PROVE Cid(w)' # c
  <2> USE DEF PastFresh, PastLoad, BehindClaim, BehindGate
  <2>1. CASE pc'[w] = pc[w] /\ turn'[w] = turn[w]
    BY <1>3, <2>1 DEF Doomed, Cid
  <2>2. CASE turn'[w] = turn[w] /\ Edge(w)
    <3>1. Cid(w)' = Cid(w)
      BY <2>2 DEF Cid
    <3>2. pc[w] \in PastFresh \/ (pc[w] = "fresh" /\ (Relative(Op(w)) => SameAsShown(Cid(w))))
      BY <1>3, <2>2 DEF Edge
    <3> QED
      BY <3>1, <3>2 DEF Doomed, Op
  <2> QED
    BY <1>3, <2>1, <2>2, WorkerSteps DEF Moved
<1>4. ASSUME NEW w \in Workers, call[w] = "flying" PROVE Cid(w) # c
  <2>1. pc[w] = "call"
    BY <1>4 DEF Serving
  <2> QED
    BY <2>1 DEF Doomed, PastFresh, PastLoad, BehindClaim, BehindGate
<1>5. ~Drifting(c)'
  BY <1>4, AdriftSteps DEF Doomed, Drifting
<1>6. effects'[c] = 0
  <2>1. CASE effects' = effects
    BY <2>1 DEF Doomed
  <2>2. ASSUME NEW w \in Workers, ServerApplies(w) PROVE effects'[c] = 0
    BY <1>4, <2>2 DEF ServerApplies, Effect, Doomed, TypeOK
  <2>3. ASSUME NEW r \in adrift, AdriftLands(r) PROVE effects'[c] = 0
    BY <2>3 DEF AdriftLands, Effect, Doomed, Drifting, TypeOK
  <2> QED
    BY <2>1, <2>2, <2>3, EffectSteps DEF vars, accountVars
<1> QED
  BY <1>1, <1>2, <1>3, <1>5, <1>6 DEF Doomed

\* Whatever replies, edits, timeouts and crashes follow: a relative change whose
\* base had moved while its card was undecided never reaches the account.
THEOREM MovedBaseStaysOut == Spec => MovedBaseIsNeverExecuted
<1> DEFINE Inv == TypeOK /\ Serving /\ PathInv
           Untouched(c) == effects[c] = 0
<1>1. Init => CardsArePast
  BY DEF Init, CardsArePast, PastLoad, BehindClaim, BehindGate
<1>2. Inv /\ CardsArePast /\ [Next]_vars => CardsArePast'
  BY CardsArePastNext
<1>3. ASSUME NEW c \in Proposals
      PROVE  Inv /\ CardsArePast /\ BaseMoved(c) => Doomed(c)
  <2> SUFFICES ASSUME Inv, CardsArePast, BaseMoved(c) PROVE Doomed(c)
    OBVIOUS
  <2>1. status[c] = "pending" /\ Relative(draft[c].op) /\ ~SameAsShown(c)
    BY DEF BaseMoved
  <2>2. ~Drifting(c) /\ effects[c] = 0
    BY <2>1 DEF PathInv, AdriftIsSingle, EffectsFit, Drifting, Unsent
  <2>3. \A w \in Workers : pc[w] \in PastFresh => Cid(w) # c
    BY <2>1 DEF CardsArePast, PastFresh
  <2> QED
    BY <2>1, <2>2, <2>3 DEF Doomed
<1>4. ASSUME NEW c \in Proposals
      PROVE  Inv /\ CardsArePast /\ Doomed(c) /\ [Next]_vars => Doomed(c)'
  BY DoomedStays
<1>5. ASSUME NEW c \in Proposals PROVE Doomed(c) => Untouched(c)
  BY DEF Doomed
<1> HIDE DEF Inv, Untouched
<1>6. Spec => []Inv
  BY PathInvariant DEF Inv
<1>7. ASSUME NEW c \in Proposals
      PROVE  Spec => [](BaseMoved(c) => []Untouched(c))
  BY <1>1, <1>2, <1>3, <1>4, <1>5, <1>6, PTL DEF Spec
<1> QED
  BY <1>7 DEF MovedBaseIsNeverExecuted, Untouched

-----------------------------------------------------------------------------
(* The budget cap, in one process.  The lock is held from reading the       *)
(* history to the claim; the claims of the window are among the rows the    *)
(* history counts, because a stamp of decided_at only makes a row younger.  *)

Claimed == {c \in Proposals : draft[c] # NoDraft /\ ClaimedInWindow(c)}

ClaimsStand ==
    \A c \in Proposals : claimAge[c] # Null =>
        /\ status[c] \in {"executing", "needs_review", "applied"}
        /\ decided[c] # Null /\ decided[c] <= claimAge[c]

Inside(w) == pc[w] \in {"event", "claim"}

GateHeld == \A w \in Workers : Inside(w) /\ BudgetOp(Op(w)) => gate[ProcessOf[w]] = w

RoomLeft == \A w \in Workers : Inside(w) /\ Increase(Op(w)) => Cardinality(Claimed) < MaxOps

CapInv == ClaimsStand /\ GateHeld /\ RoomLeft /\ BudgetCapHolds

\* Which steps touch the ages of claims.
LEMMA ClaimAgeSteps ==
    ASSUME [Next]_vars
    PROVE  \/ UNCHANGED claimAge
           \/ Tick
           \/ \E w \in Workers : ClaimProposal(w)
<1>1. ASSUME NEW w \in Workers, Work(w) PROVE UNCHANGED claimAge \/ ClaimProposal(w)
  <2>1. CASE Confirmation(w) \/ Orchestration(w)
    BY <2>1 DEF Confirmation, Orchestration, ReadCard, BindAnchor, RecheckAnchor, ConfirmReply,
       LoadConfirmed, LoadKilled, VerifyFreshness, ResolveTarget, Check, recordVars
  <2>2. CASE Gates(w)
    BY <2>2 DEF Gates, RefuseKilled, PassGates, TakeBudgetGate, RecordMoneyEvent,
       MoneyEventFails, Check, recordVars
  <2>3. CASE Mutation(w) \/ Answer(w)
    BY <2>3 DEF Mutation, CheckUserCommand, SendRequest, SendBlocked, RetryCall, CallReturns,
       CallFails, CallLost, FinalizeProposal, FinalizeFails, Answer, PostVerify,
       PostVerifyMismatch, FlagMismatch, ReportOutcome, ReportFails, Check, recordVars
  <2> QED
    BY <1>1, <2>1, <2>2, <2>3 DEF Work
<1>2. UNCHANGED claimAge \/ Tick \/ \E w \in Workers : Work(w)
  BY DEF Next, Start, StartReply, StartDirect, Begin, Server, ServerApplies, ServerRefuses,
     ServerUnavailable, Propose, CancelProposal, Sweep, AdriftLands, AdriftVanishes,
     ForeignEdit, FlipKillSwitch, Crash, recordVars, vars
<1> QED
  BY <1>1, <1>2

\* What happens to a row behind its claim: it is decided again, or grows older.
LEMMA ClaimedRows ==
    ASSUME TypeOK, Serving, [Next]_vars, ~Tick, NEW c \in Proposals,
           status[c] \in {"executing", "needs_review", "applied"}
    PROVE  /\ status'[c] \in {"executing", "needs_review", "applied"}
           /\ decided'[c] \in {decided[c], 0}
<1> DEFINE Goal == /\ status'[c] \in {"executing", "needs_review", "applied"}
                   /\ decided'[c] \in {decided[c], 0}
<1>1. ASSUME UNCHANGED <<status, decided>> PROVE Goal
  BY <1>1
<1>2. ASSUME NEW x \in Proposals, status[x] \in {"absent", "pending", "confirmed"},
             \A y \in Proposals \ {x} : status'[y] = status[y] /\ decided'[y] = decided[y]
      PROVE  Goal
  BY <1>2
<1>3. ASSUME NEW x \in Proposals, NEW to \in {"applied", "needs_review"}, Decide(x, to) PROVE Goal
  BY <1>3 DEF Decide, TypeOK, StoreTypeOK
<1>11. ASSUME NEW x \in Proposals, NEW to, status[x] \in {"absent", "pending", "confirmed"},
              Decide(x, to)
       PROVE  Goal
  BY <1>2, <1>11 DEF Decide, TypeOK, StoreTypeOK
<1>12. ASSUME UNCHANGED storeVars PROVE Goal
  BY <1>1, <1>12 DEF storeVars
<1> HIDE DEF Goal
<1>4. ASSUME NEW w \in Workers, Confirmation(w) PROVE Goal
  <2>1. CASE BindAnchor(w)
    BY <1>1, <2>1 DEF BindAnchor, BindCard, Stamp, storeVars
  <2>2. CASE ConfirmReply(w) /\ ~UNCHANGED storeVars
    <3>1. status[Cid(w)] = "pending" /\ Decide(Cid(w), "confirmed") /\ Cid(w) \in Proposals
      BY <2>2, TurnMoves DEF ConfirmReply, ConfirmByReply, MatchConfirmByReply, Cid
    <3> QED
      BY <1>11, <3>1
  <2>3. CASE ReadCard(w) \/ RecheckAnchor(w)
    BY <1>12, <2>3 DEF ReadCard, RecheckAnchor, Check
  <2> QED
    BY <1>4, <1>12, <2>1, <2>2, <2>3 DEF Confirmation
<1>5. ASSUME NEW w \in Workers, Orchestration(w) \/ Gates(w) PROVE Goal
  <2>1. CASE ClaimProposal(w) /\ ~UNCHANGED storeVars
    <3>1. status[Cid(w)] = "confirmed" /\ Claim(Cid(w), Op(w)) /\ Cid(w) \in Proposals
      BY <2>1, TurnMoves DEF ClaimProposal, Claim, MatchClaim
    <3>2. \A y \in Proposals \ {Cid(w)} : status'[y] = status[y] /\ decided'[y] = decided[y]
      BY <3>1 DEF Claim, TypeOK, StoreTypeOK
    <3> QED
      BY <1>2, <3>1, <3>2
  <2>2. CASE Orchestration(w)
    BY <1>12, <2>2 DEF Orchestration, LoadConfirmed, LoadKilled, VerifyFreshness, ResolveTarget,
                       Check
  <2>3. CASE Gates(w) /\ ~ClaimProposal(w)
    BY <1>12, <2>3 DEF Gates, RefuseKilled, PassGates, TakeBudgetGate, RecordMoneyEvent,
                       MoneyEventFails, Check
  <2> QED
    BY <1>5, <1>12, <2>1, <2>2, <2>3
<1>6. ASSUME NEW w \in Workers, Mutation(w) \/ Answer(w) PROVE Goal
  <2>1. CASE FinalizeProposal(w) /\ ~UNCHANGED storeVars
    <3>1. Decide(Cid(w), "applied") /\ Cid(w) \in Proposals
      BY <2>1, TurnMoves DEF FinalizeProposal, Finalize
    <3> QED
      BY <1>3, <3>1
  <2>2. CASE FlagMismatch(w) /\ ~UNCHANGED storeVars
    <3>1. Decide(Cid(w), "needs_review") /\ Cid(w) \in Proposals
      BY <2>2, TurnMoves DEF FlagMismatch, RecordVerification
    <3> QED
      BY <1>3, <3>1
  <2> QED
    BY <1>6, <1>12, <2>1, <2>2 DEF Mutation, Answer, CheckUserCommand, SendRequest, SendBlocked,
       RetryCall, CallReturns, CallFails, CallLost, FinalizeFails, PostVerify,
       PostVerifyMismatch, ReportOutcome, ReportFails, Check
<1>7. ASSUME NEW x \in Proposals, NEW d \in Drafts, Propose(x, d) PROVE Goal
  <2>1. status[x] = "absent" /\ status' = [status EXCEPT ![x] = "pending"] /\ decided' = decided
    BY <1>7 DEF Propose, SaveProposal, MatchSave
  <2>2. \A y \in Proposals \ {x} : status'[y] = status[y] /\ decided'[y] = decided[y]
    BY <2>1 DEF TypeOK, StoreTypeOK
  <2> QED
    BY <1>2, <2>1, <2>2
<1>8. ASSUME NEW x \in Proposals, CancelProposal(x) PROVE Goal
  BY <1>8, <1>11 DEF CancelProposal, RejectByActor, MatchReject
<1>9. ASSUME NEW x \in Proposals, Sweep(x) PROVE Goal
  <2>1. ASSUME CleanupStale(x) PROVE Goal
    BY <1>11, <2>1 DEF CleanupStale, Reject, MatchReject
  <2>2. ASSUME ReconcileExecuting(x) PROVE Goal
    BY <1>3, <2>2 DEF ReconcileExecuting, MarkNeedsReview
  <2>3. ASSUME ReconcileConfirmed(x) PROVE Goal
    BY <1>11, <2>3 DEF ReconcileConfirmed, MarkConfirmedFailed, MatchConfirmedFailed
  <2> QED
    BY <1>9, <2>1, <2>2, <2>3 DEF Sweep
<1>10. Goal
  BY <1>4, <1>5, <1>6, <1>7, <1>8, <1>9, <1>12, OtherMoves DEF Next, Work, vars
<1> QED
  BY <1>10 DEF Goal

LEMMA ClaimsStandNext ==
    ASSUME TypeOK, Serving, ClaimsStand, [Next]_vars
    PROVE  ClaimsStand'
<1> SUFFICES ASSUME NEW c \in Proposals, claimAge'[c] # Null
             PROVE  /\ status'[c] \in {"executing", "needs_review", "applied"}
                    /\ decided'[c] # Null /\ decided'[c] <= claimAge'[c]
  BY DEF ClaimsStand
<1>1. claimAge[c] \in Age \cup {Null} /\ decided[c] \in Age \cup {Null}
  BY DEF TypeOK, StoreTypeOK
<1>2. CASE Tick
  <2>1. /\ status' = status /\ decided'[c] = Older(decided[c])
        /\ claimAge'[c] = Older(claimAge[c])
    BY <1>2 DEF Tick, Advance
  <2>2. claimAge[c] # Null
    BY <1>1, <2>1 DEF Older, Age, Null
  <2> QED
    BY <1>1, <2>1, <2>2, StoreAssumption DEF ClaimsStand, Older, Age, Null
<1>3. CASE ~Tick /\ claimAge'[c] = claimAge[c]
  <2>1. claimAge[c] \in Nat
    BY <1>1, <1>3 DEF Age, Null
  <2> QED
    BY <1>3, <2>1, ClaimedRows DEF ClaimsStand, Null
<1>4. CASE ~Tick /\ claimAge'[c] # claimAge[c]
  <2>1. PICK w \in Workers : ClaimProposal(w) /\ claimAge' # claimAge
    BY <1>4, ClaimAgeSteps
  <2>2. /\ Claim(Cid(w), Op(w)) /\ Cid(w) \in Proposals
        /\ claimAge' = [claimAge EXCEPT ![Cid(w)] = 0]
    BY <2>1, TurnMoves DEF ClaimProposal
  <2>3. c = Cid(w)
    BY <1>4, <2>2 DEF TypeOK
  <2> QED
    BY <2>2, <2>3 DEF Claim, TypeOK, StoreTypeOK, Null
<1> QED
  BY <1>2, <1>3, <1>4

\* Claims enter the window only by a claim of an increase.
LEMMA ClaimedSteps ==
    ASSUME TypeOK, Serving, RowsAreThere, ClaimsStand, [Next]_vars
    PROVE  \/ Claimed' \subseteq Claimed
           \/ \E w \in Workers : /\ ClaimProposal(w) /\ Increase(Op(w))
                                 /\ Cid(w) \in Proposals
                                 /\ Claimed' \subseteq Claimed \cup {Cid(w)}
<1>1. ASSUME NEW c \in Proposals, claimAge[c] # Null PROVE draft'[c] = draft[c]
  BY <1>1, DraftsStay DEF ClaimsStand
<1>2. ASSUME UNCHANGED claimAge PROVE Claimed' \subseteq Claimed
  <2> SUFFICES ASSUME NEW c \in Proposals, draft'[c] # NoDraft, ClaimedInWindow(c)'
               PROVE  draft[c] # NoDraft /\ ClaimedInWindow(c)
    BY DEF Claimed
  <2>1. claimAge[c] # Null
    BY <1>2 DEF ClaimedInWindow, Null
  <2> QED
    BY <1>1, <1>2, <2>1 DEF ClaimedInWindow
<1>3. ASSUME Tick PROVE Claimed' \subseteq Claimed
  <2> SUFFICES ASSUME NEW c \in Proposals, draft'[c] # NoDraft, ClaimedInWindow(c)'
               PROVE  draft[c] # NoDraft /\ ClaimedInWindow(c)
    BY DEF Claimed
  <2>1. draft'[c] = draft[c] /\ claimAge'[c] = Older(claimAge[c])
    BY <1>3 DEF Tick, Advance
  <2>2. claimAge[c] \in Age \cup {Null} /\ WINDOW \in Nat /\ WINDOW < HORIZON
    BY PathAssumption DEF TypeOK
  <2>3. claimAge[c] \in 0 .. WINDOW
    BY <2>1, <2>2, StoreAssumption DEF ClaimedInWindow, Older, Age, Null
  <2> QED
    BY <2>1, <2>3 DEF ClaimedInWindow
<1>4. ASSUME NEW w \in Workers, ClaimProposal(w), claimAge' # claimAge
      PROVE  \/ Claimed' \subseteq Claimed
             \/ Increase(Op(w)) /\ Cid(w) \in Proposals /\ Claimed' \subseteq Claimed \cup {Cid(w)}
  <2>1. Cid(w) \in Proposals /\ draft' = draft /\ claimAge' = [claimAge EXCEPT ![Cid(w)] = 0]
    BY <1>4, TurnMoves DEF ClaimProposal, Claim
  <2>2. \A c \in Proposals : c # Cid(w) => claimAge'[c] = claimAge[c]
    BY <2>1 DEF TypeOK
  <2>3. Claimed' \subseteq Claimed \cup {Cid(w)}
    BY <2>1, <2>2 DEF Claimed, ClaimedInWindow
  <2>4. ~Increase(Op(w)) => Cid(w) \notin Claimed'
    BY <2>1 DEF Claimed, ClaimedInWindow, Op
  <2> QED
    BY <2>1, <2>3, <2>4
<1> QED
  BY <1>2, <1>3, <1>4, ClaimAgeSteps

\* The lock stays with its holder until he claims or answers, or dies.
LEMMA GateSteps ==
    ASSUME TypeOK, Serving, [Next]_vars, NEW w \in Workers, pc'[w] \in {"event", "claim"},
           gate[ProcessOf[w]] = w
    PROVE  gate'[ProcessOf[w]] = w
<1> DEFINE Goal == gate'[ProcessOf[w]] = w
<1>t. w # NoWorker /\ ProcessOf \in [Workers -> Processes]
  BY PathAssumption
<1>1. ASSUME UNCHANGED gate PROVE Goal
  BY <1>1
<1>2. ASSUME NEW v \in Workers, v # w, Release(v) PROVE Goal
  BY <1>2, <1>t DEF Release, TypeOK
<1>3. ASSUME NEW v \in Workers, NEW answer, Finish(v, answer) PROVE Goal
  <2>1. v # w
    BY <1>3, FinishMoves
  <2> QED
    BY <1>2, <1>3, <2>1 DEF Finish
<1>4. ASSUME NEW v \in Workers, NEW at, NEW holds, NEW next, NEW answer,
             Check(v, at, holds, next, answer)
      PROVE  Goal
  BY <1>1, <1>3, <1>4 DEF Check
<1>5. ASSUME NEW v \in Workers, TakeBudgetGate(v) PROVE Goal
  <2>1. CASE gate' = [gate EXCEPT ![ProcessOf[v]] = v]
    BY <1>5, <1>t, <2>1 DEF TakeBudgetGate, TypeOK
  <2> QED
    BY <1>3, <1>5, <2>1 DEF TakeBudgetGate
<1>6. ASSUME NEW v \in Workers, ClaimProposal(v) PROVE Goal
  <2>1. CASE Goto(v, "command") /\ Release(v)
    <3>1. v # w
      BY <2>1, GotoMoves
    <3> QED
      BY <1>2, <2>1, <3>1
  <2> QED
    BY <1>3, <1>6, <2>1 DEF ClaimProposal
<1>7. ASSUME NEW p \in Processes, Crash(p) PROVE Goal
  <2>1. ProcessOf[w] # p
    BY <1>7 DEF Crash
  <2> QED
    BY <1>7, <1>t, <2>1 DEF Crash, TypeOK
<1> HIDE DEF Goal
<1>8. ASSUME NEW v \in Workers, Confirmation(v) \/ Orchestration(v) PROVE Goal
  <2>1. CASE ReadCard(v) \/ RecheckAnchor(v) \/ Orchestration(v)
    BY <1>4, <2>1 DEF ReadCard, RecheckAnchor, Orchestration, LoadConfirmed, LoadKilled,
                      VerifyFreshness, ResolveTarget
  <2>2. CASE BindAnchor(v) \/ ConfirmReply(v)
    BY <1>1, <1>3, <2>2 DEF BindAnchor, ConfirmReply
  <2> QED
    BY <1>8, <2>1, <2>2 DEF Confirmation
<1>9. ASSUME NEW v \in Workers, Gates(v) PROVE Goal
  BY <1>1, <1>4, <1>5, <1>6, <1>9 DEF Gates, RefuseKilled, PassGates, RecordMoneyEvent,
                                      MoneyEventFails
<1>10. ASSUME NEW v \in Workers, Mutation(v) PROVE Goal
  <2>1. CASE CheckUserCommand(v) \/ SendBlocked(v) \/ FinalizeFails(v)
    BY <1>4, <2>1 DEF CheckUserCommand, SendBlocked, FinalizeFails
  <2>2. CASE SendRequest(v) \/ RetryCall(v) \/ CallReturns(v) \/ FinalizeProposal(v)
    BY <1>1, <2>2 DEF SendRequest, RetryCall, CallReturns, FinalizeProposal
  <2>3. CASE CallFails(v) \/ CallLost(v)
    BY <1>3, <2>3 DEF CallFails, CallLost
  <2> QED
    BY <1>10, <2>1, <2>2, <2>3 DEF Mutation
<1>11. ASSUME NEW v \in Workers, Answer(v) PROVE Goal
  BY <1>1, <1>3, <1>4, <1>11
     DEF Answer, PostVerify, PostVerifyMismatch, FlagMismatch, ReportOutcome, ReportFails
<1>12. \/ UNCHANGED gate
       \/ \E v \in Workers : Work(v)
       \/ \E p \in Processes : Crash(p)
  BY DEF Next, Start, StartReply, StartDirect, Begin, Server, ServerApplies, ServerRefuses,
     ServerUnavailable, Propose, CancelProposal, Sweep, AdriftLands, AdriftVanishes,
     ForeignEdit, FlipKillSwitch, Tick, vars
<1>13. Goal
  BY <1>1, <1>7, <1>8, <1>9, <1>10, <1>11, <1>12 DEF Work
<1> QED
  BY <1>13 DEF Goal

\* Nobody but a worker himself moves his call on.
LEMMA OthersStand ==
    ASSUME TypeOK, NEW v \in Workers, Work(v), NEW w \in Workers, w # v
    PROVE  pc'[w] = pc[w]
<1> DEFINE Goal == pc'[w] = pc[w]
<1>1. ASSUME NEW step, Goto(v, step) PROVE Goal
  BY <1>1, GotoMoves
<1>2. ASSUME NEW answer, Finish(v, answer) PROVE Goal
  BY <1>2, FinishMoves
<1>3. ASSUME NEW at, NEW holds, NEW next, NEW answer, Check(v, at, holds, next, answer) PROVE Goal
  BY <1>1, <1>2, <1>3 DEF Check
<1>4. ASSUME NEW step, pc' = [pc EXCEPT ![v] = step] PROVE Goal
  BY <1>4 DEF TypeOK
<1> HIDE DEF Goal
<1>5. ASSUME Confirmation(v) PROVE Goal
  BY <1>1, <1>2, <1>3, <1>5 DEF Confirmation, ReadCard, BindAnchor, RecheckAnchor, ConfirmReply
<1>6. ASSUME Orchestration(v) PROVE Goal
  BY <1>3, <1>6 DEF Orchestration, LoadConfirmed, LoadKilled, VerifyFreshness, ResolveTarget
<1>7. ASSUME Gates(v) PROVE Goal
  BY <1>1, <1>2, <1>3, <1>7 DEF Gates, RefuseKilled, PassGates, TakeBudgetGate, RecordMoneyEvent,
                                MoneyEventFails, ClaimProposal
<1>8. ASSUME Mutation(v) PROVE Goal
  <2>1. CASE CheckUserCommand(v) \/ SendBlocked(v) \/ FinalizeFails(v)
    BY <1>3, <2>1 DEF CheckUserCommand, SendBlocked, FinalizeFails
  <2>2. CASE SendRequest(v) \/ CallReturns(v)
    BY <1>4, <2>2 DEF SendRequest, CallReturns
  <2>3. CASE RetryCall(v)
    BY <2>3 DEF RetryCall, Goal
  <2>4. CASE CallFails(v) \/ CallLost(v) \/ FinalizeProposal(v)
    BY <1>1, <1>2, <2>4 DEF CallFails, CallLost, FinalizeProposal
  <2> QED
    BY <1>8, <2>1, <2>2, <2>3, <2>4 DEF Mutation
<1>9. ASSUME Answer(v) PROVE Goal
  BY <1>1, <1>2, <1>3, <1>9
     DEF Answer, PostVerify, PostVerifyMismatch, FlagMismatch, ReportOutcome, ReportFails
<1>10. Goal
  BY <1>5, <1>6, <1>7, <1>8, <1>9 DEF Work
<1> QED
  BY <1>10 DEF Goal

\* A worker enters behind the lock by taking it, with room under the cap.
LEMMA EnteringSteps ==
    ASSUME TypeOK, Serving, [Next]_vars, NEW w \in Workers, pc[w] = "cap", pc'[w] = "event"
    PROVE  /\ gate'[ProcessOf[w]] = w
           /\ Increase(Op(w)) => CapLeft
           /\ UNCHANGED <<storeVars, claimAge, turn>>
<1>1. ProcessOf[w] \in Processes
  BY PathAssumption
<1>2. TakeBudgetGate(w)
  <2>1. ASSUME NEW v \in Workers, Work(v), v # w PROVE pc'[w] = pc[w]
    BY <2>1, OthersStand
  <2>2. ASSUME Work(w) PROVE TakeBudgetGate(w)
    BY <2>2 DEF Work, Confirmation, ReadCard, BindAnchor, RecheckAnchor, ConfirmReply,
       Orchestration, LoadConfirmed, LoadKilled, VerifyFreshness, ResolveTarget, Gates,
       RefuseKilled, PassGates, RecordMoneyEvent, MoneyEventFails, ClaimProposal, Mutation,
       CheckUserCommand, SendRequest, SendBlocked, RetryCall, CallReturns, CallFails, CallLost,
       FinalizeProposal, FinalizeFails, Answer, PostVerify, PostVerifyMismatch, FlagMismatch,
       ReportOutcome, ReportFails, Check
  <2>3. ASSUME NEW v \in Workers, Start(v) PROVE pc'[w] \in {pc[w], "read", "load"}
    BY <2>3 DEF Start, StartReply, StartDirect, Begin, TypeOK
  <2>4. \/ \E v \in Workers : Start(v) \/ Work(v)
        \/ pc' = pc
        \/ \E p \in Processes : Crash(p)
    BY DEF Next, Server, ServerApplies, ServerRefuses, ServerUnavailable, Propose,
       CancelProposal, Sweep, AdriftLands, AdriftVanishes, ForeignEdit, FlipKillSwitch, Tick,
       workerVars, vars
  <2>5. ASSUME NEW p \in Processes, Crash(p) PROVE pc'[w] \in {pc[w], "idle"}
    BY <2>5 DEF Crash
  <2> QED
    BY <2>1, <2>2, <2>3, <2>4, <2>5
<1>3. /\ Goto(w, "event") /\ gate' = [gate EXCEPT ![ProcessOf[w]] = w]
      /\ Increase(Op(w)) => CapLeft
      /\ UNCHANGED <<storeVars, claimAge>>
  <2>1. ~Finish(w, "gate_refusal")
    BY FinishMoves
  <2> QED
    BY <1>2, <2>1 DEF TakeBudgetGate, recordVars
<1> QED
  BY <1>1, <1>3 DEF Goto, TypeOK

LEMMA GateHeldNext ==
    ASSUME TypeOK, Serving, RowsAreThere, GateHeld, [Next]_vars
    PROVE  GateHeld'
<1> SUFFICES ASSUME NEW w \in Workers, Inside(w)', BudgetOp(Op(w)')
             PROVE  gate'[ProcessOf[w]] = w
  BY DEF GateHeld
<1>1. turn'[w] = turn[w] /\ (pc'[w] = pc[w] \/ Edge(w)) /\ pc'[w] \in {"event", "claim"}
  BY WorkerSteps DEF Moved, Inside
<1>2. pc[w] \in {"gates", "cap", "event", "claim"}
  BY <1>1 DEF Edge
<1>3. Op(w)' = Op(w)
  BY <1>1, <1>2, DraftsStay DEF RowsAreThere, Op, Cid
<1>4. CASE pc[w] \in {"event", "claim"}
  BY <1>1, <1>3, <1>4, GateSteps DEF GateHeld, Inside
<1>5. CASE pc[w] = "gates"
  BY <1>1, <1>3, <1>5 DEF Edge
<1>6. CASE pc[w] = "cap"
  BY <1>1, <1>6, EnteringSteps DEF Edge
<1> QED
  BY <1>2, <1>4, <1>5, <1>6

\* What counts against the cap includes every claim of the window.
LEMMA HistoryIsComplete ==
    ASSUME TypeOK, ClaimsStand, IsFiniteSet(Proposals), CapLeft
    PROVE  Cardinality(Claimed) < MaxOps
<1> DEFINE History == {x \in Proposals : SpentByCap(x)}
<1>1. Claimed \subseteq History
  <2> SUFFICES ASSUME NEW c \in Claimed PROVE SpentByCap(c)
    BY DEF Claimed
  <2>1. c \in Proposals /\ claimAge[c] \in 0 .. WINDOW /\ Increase(draft[c].op)
    BY DEF Claimed, ClaimedInWindow
  <2>2. claimAge[c] # Null /\ decided[c] \in Age \cup {Null} /\ WINDOW \in Nat
    BY <2>1, PathAssumption DEF Null, TypeOK, StoreTypeOK
  <2> QED
    BY <2>1, <2>2, StoreAssumption DEF ClaimsStand, SpentByCap, Age, Null
<1>2. IsFiniteSet(History)
  BY FS_Subset
<1>3. Cardinality(Claimed) <= Cardinality(History) /\ IsFiniteSet(Claimed)
  BY <1>1, <1>2, FS_Subset
<1>4. Cardinality(Claimed) \in Nat /\ Cardinality(History) \in Nat
  BY <1>2, <1>3, FS_CardinalityType
<1> QED
  BY <1>3, <1>4, PathAssumption DEF CapLeft

\* The arrangement of mutations.py:541-547: one MCP server, hence one lock.
OneProcess == \A v, w \in Workers : ProcessOf[v] = ProcessOf[w]

LEMMA CapNext ==
    ASSUME TypeOK, Serving, RowsAreThere, CapInv, [Next]_vars,
           IsFiniteSet(Proposals), OneProcess
    PROVE  RoomLeft' /\ BudgetCapHolds'
<1>1. Claimed \subseteq Proposals /\ IsFiniteSet(Claimed) /\ Cardinality(Claimed) \in Nat
  BY FS_Subset, FS_CardinalityType DEF Claimed
<1>2. CASE Claimed' \subseteq Claimed
  <2>1. /\ IsFiniteSet(Claimed') /\ Cardinality(Claimed') \in Nat
        /\ Cardinality(Claimed') <= Cardinality(Claimed)
    BY <1>1, <1>2, FS_Subset, FS_CardinalityType
  <2>2. BudgetCapHolds'
    BY <1>1, <2>1, PathAssumption DEF CapInv, BudgetCapHolds, Claimed
  <2>3. ASSUME NEW w \in Workers, Inside(w)', Increase(Op(w)')
        PROVE  Cardinality(Claimed') < MaxOps
    <3>1. turn'[w] = turn[w] /\ (pc'[w] = pc[w] \/ Edge(w)) /\ pc'[w] \in {"event", "claim"}
      BY <2>3, WorkerSteps DEF Moved, Inside
    <3>2. pc[w] \in {"gates", "cap", "event", "claim"}
      BY <3>1 DEF Edge
    <3>3. Op(w)' = Op(w)
      BY <3>1, <3>2, DraftsStay DEF RowsAreThere, Op, Cid
    <3>4. CASE Inside(w)
      BY <1>1, <2>1, <2>3, <3>3, <3>4, PathAssumption DEF CapInv, RoomLeft
    <3>5. CASE pc[w] = "gates"
      BY <2>3, <3>1, <3>3, <3>5 DEF Edge, BudgetOp, Increase
    <3>6. CASE pc[w] = "cap"
      <4>1. CapLeft
        BY <2>3, <3>1, <3>3, <3>6, EnteringSteps DEF Edge
      <4>2. Cardinality(Claimed) < MaxOps
        BY <4>1, HistoryIsComplete DEF CapInv
      <4> QED
        BY <1>1, <2>1, <4>2, PathAssumption
    <3> QED
      BY <3>2, <3>4, <3>5, <3>6 DEF Inside
  <2> QED
    BY <2>2, <2>3 DEF RoomLeft
<1>3. ASSUME NEW v \in Workers, ClaimProposal(v), Increase(Op(v)),
             Claimed' \subseteq Claimed \cup {Cid(v)}
      PROVE  RoomLeft' /\ BudgetCapHolds'
  <2>1. pc[v] = "claim" /\ pc'[v] \in {"command", "idle"}
    <3>1. pc[v] = "claim" /\ (Goto(v, "command") \/ Finish(v, "refused"))
      BY <1>3 DEF ClaimProposal
    <3>2. Goto(v, "command") => pc'[v] = "command"
      BY GotoMoves
    <3>3. Finish(v, "refused") => pc'[v] = "idle"
      BY FinishMoves
    <3> QED
      BY <3>1, <3>2, <3>3
  <2>2. Cardinality(Claimed) < MaxOps
    BY <1>3, <2>1 DEF CapInv, RoomLeft, Inside
  <2>3. /\ IsFiniteSet(Claimed \cup {Cid(v)})
        /\ Cardinality(Claimed \cup {Cid(v)}) <= Cardinality(Claimed) + 1
    <3>1. /\ IsFiniteSet(Claimed \cup {Cid(v)})
          /\ \/ Cardinality(Claimed \cup {Cid(v)}) = Cardinality(Claimed)
             \/ Cardinality(Claimed \cup {Cid(v)}) = Cardinality(Claimed) + 1
      BY <1>1, FS_AddElement, Zenon
    <3> QED
      BY <1>1, <3>1
  <2>4. Cardinality(Claimed') <= Cardinality(Claimed \cup {Cid(v)})
    BY <1>3, <2>3, FS_Subset
  <2>5. /\ Cardinality(Claimed') \in Nat
        /\ Cardinality(Claimed \cup {Cid(v)}) \in Nat
    BY <1>3, <2>3, FS_Subset, FS_CardinalityType
  <2>6. BudgetCapHolds'
    BY <1>1, <2>2, <2>3, <2>4, <2>5, PathAssumption DEF BudgetCapHolds, Claimed
  <2>7. ASSUME NEW w \in Workers, Inside(w)', Increase(Op(w)') PROVE FALSE
    <3>1. w # v /\ pc'[w] = pc[w] /\ turn'[w] = turn[w]
      <4>1. w # v
        BY <2>1, <2>7 DEF Inside
      <4>2. Goto(v, "command") \/ Finish(v, "refused")
        BY <1>3 DEF ClaimProposal
      <4> QED
        BY <4>1, <4>2, GotoMoves, FinishMoves
    <3>2. Inside(w) /\ Op(w)' = Op(w)
      BY <2>7, <3>1, DraftsStay DEF Inside, RowsAreThere, Op, Cid
    <3>3. BudgetOp(Op(w)) /\ BudgetOp(Op(v)) /\ Inside(v)
      BY <1>3, <2>1, <2>7, <3>2 DEF BudgetOp, Increase, Inside
    <3>4. gate[ProcessOf[w]] = w /\ gate[ProcessOf[v]] = v
      BY <3>2, <3>3 DEF CapInv, GateHeld
    <3> QED
      BY <3>1, <3>4 DEF OneProcess
  <2> QED
    BY <2>6, <2>7 DEF RoomLeft
<1> QED
  BY <1>2, <1>3, ClaimedSteps DEF CapInv

LEMMA CapInvInit == Init => CapInv
<1> SUFFICES ASSUME Init PROVE CapInv
  OBVIOUS
<1>1. ClaimsStand /\ GateHeld /\ RoomLeft
  BY DEF Init, ClaimsStand, GateHeld, RoomLeft, Inside
<1>2. Claimed = {}
  <2> SUFFICES ASSUME NEW c \in Proposals PROVE claimAge[c] \notin 0 .. WINDOW
    BY DEF Claimed, ClaimedInWindow
  <2> QED
    BY PathAssumption DEF Init, Null
<1>3. Cardinality(Claimed) = 0 /\ MaxOps \in Nat
  BY <1>2, FS_EmptySet, PathAssumption
<1> QED
  BY <1>1, <1>3 DEF CapInv, BudgetCapHolds, Claimed

\* With finitely many proposals and all executions in one process, no more
\* increases are ever claimed within the window than the cap allows, however
\* the executions, the sweeps, crashes and the clock interleave.
THEOREM CapHolds ==
    ASSUME IsFiniteSet(Proposals), OneProcess
    PROVE  Spec => []BudgetCapHolds
<1> DEFINE Inv == TypeOK /\ Serving /\ PathInv
<1>1. Inv /\ AuthInv /\ [Next]_vars => AuthInv'
  BY RowsAreThereNext, ConsentJournaledNext, WorkAuthorisedNext, EffectsAuthorisedNext DEF AuthInv
<1>2. Inv /\ AuthInv /\ CapInv /\ [Next]_vars => CapInv'
  <2> SUFFICES ASSUME Inv, AuthInv, CapInv, [Next]_vars PROVE CapInv'
    OBVIOUS
  <2>1. ClaimsStand' /\ GateHeld'
    BY ClaimsStandNext, GateHeldNext DEF AuthInv, CapInv
  <2>2. RoomLeft' /\ BudgetCapHolds'
    BY CapNext DEF AuthInv
  <2> QED
    BY <2>1, <2>2 DEF CapInv
<1>3. CapInv => BudgetCapHolds
  BY DEF CapInv
<1> HIDE DEF Inv
<1>4. Spec => []Inv
  BY PathInvariant DEF Inv
<1> QED
  BY <1>1, <1>2, <1>3, <1>4, AuthInvInit, CapInvInit, PTL DEF Spec
=============================================================================
