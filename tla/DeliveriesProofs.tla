-------------------------- MODULE DeliveriesProofs --------------------------
(***************************************************************************)
(* Theorems about what MCDeliveries watches: the attachment courier and the *)
(* outcome checker, for any number of proposals, schedulers and crashes,    *)
(* the circuit, for any number of calls, threshold, lease and faults, and   *)
(* the journal of a run.                                                    *)
(*                                                                         *)
(* The arguments for the two jobs are about who holds a row.  The claim of  *)
(* the courier is given up by nobody else, so a row in "sending" has at     *)
(* most one holder (CourierInv).  The claim of the checker may be taken     *)
(* over; the history variable disturbed collects the rows that this, or a   *)
(* failed call, has happened to, and for all others the same holds          *)
(* (Undisturbed).  The table takes part only by what a StoreMove keeps      *)
(* (lemma MovesKeep).                                                       *)
(*                                                                         *)
(* The circuit (CircuitInv) keeps the lease of its last opening in the row  *)
(* until it ends, and has evidence for every failure that is counted in the *)
(* row or is still to be.                                                   *)
(*                                                                         *)
(* Last comes the journal of a run, for any number of writers, events and   *)
(* batches.  As long as no two transactions overlap, the one that is open   *)
(* has read the tail the journal still has (TailIsCurrent), so what has     *)
(* been written is one chain (Chain): genuine, linked, one row for each     *)
(* number.  What has been written stays such a chain whatever happens to    *)
(* the rows behind the back of the code, and has no gaps before it is swept *)
(* (Unbroken).                                                              *)
(***************************************************************************)
EXTENDS Deliveries, ConfirmStoreProofs, CircuitBreaker, RunJournal, FiniteSetTheorems,
        WellFoundedInduction

\* Rows do not disappear, and what was applied stays applied or in doubt.
Keeps ==
    \A c \in Proposals :
        /\ status'[c] = "absent" => status[c] = "absent"
        /\ status[c] \in {"applied", "needs_review"} => status'[c] \in {"applied", "needs_review"}

LEMMA MovesKeep ==
    ASSUME StoreTypeOK, StoreMove
    PROVE  Keeps
<1> USE DEF StoreTypeOK, Keeps
<1>1. ASSUME NEW c \in Proposals, NEW d \in Drafts, SaveProposal(c, d) PROVE Keeps
  BY <1>1 DEF SaveProposal, MatchSave
<1>2. ASSUME NEW c \in Proposals, Anchors(c) PROVE Keeps
  BY <1>2 DEF Anchors, Stamp
<1>3. ASSUME NEW c \in Proposals, Decides(c) PROVE Keeps
  BY <1>3 DEF Decides, Decide
<1>4. ASSUME NEW c \in Proposals, Claim(c, draft[c].op) PROVE Keeps
  BY <1>4 DEF Claim, MatchClaim
<1>5. ASSUME NEW c \in Proposals, Reopen(c) PROVE Keeps
  BY <1>5 DEF Reopen, MatchReopen
<1>6. ASSUME Advance PROVE Keeps
  BY <1>6 DEF Advance
<1> QED
  BY <1>1, <1>2, <1>3, <1>4, <1>5, <1>6 DEF StoreMove

LEMMA RowMovesAreMoves ==
    ASSUME NEW c \in Proposals, RowMoves(c)
    PROVE  StoreMove
<1>1. ASSUME NEW k, Confirm(c, k) \/ Reject(c, k) PROVE StoreMove
  BY <1>1 DEF StoreMove, Decides, Confirm, MatchConfirm, Reject, MatchReject
<1>2. ASSUME NEW op, Claim(c, op) PROVE StoreMove
  BY <1>2 DEF StoreMove, Claim, MatchClaim
<1>3. ASSUME MarkNeedsReview(c) \/ RecordFailure(c) \/ RecordVerification(c) PROVE StoreMove
  BY <1>3 DEF StoreMove, Decides, MarkNeedsReview, MatchNeedsReview, RecordFailure,
              MatchRecordFailure, RecordVerification, MatchVerification
<1> QED
  BY <1>1, <1>2, <1>3 DEF RowMoves

\* What a step does to the table.
LEMMA TableMoves ==
    ASSUME StoreTypeOK, Next
    PROVE  StoreTypeOK' /\ Keeps
<1>1. StoreMove \/ UNCHANGED storeVars
  <2>1. ASSUME NEW c \in Proposals, NEW d \in Drafts, Promise(c, d) PROVE StoreMove
    BY <2>1 DEF Promise, StoreMove
  <2>2. ASSUME NEW c \in Proposals, FinalizeWithOutcome(c) PROVE StoreMove
    BY <2>2 DEF FinalizeWithOutcome, Finalize, MatchFinalize, StoreMove, Decides
  <2>3. ASSUME NEW s \in Schedulers, CourierStep(s) PROVE UNCHANGED storeVars
    BY <2>3 DEF CourierStep, ListAttachments, ClaimAttachment, BuildAttachment, SendFile,
                FinishAttachment, CourierRests
  <2>4. ASSUME NEW s \in Schedulers, CheckerStep(s) PROVE UNCHANGED storeVars
    BY <2>4 DEF CheckerStep, ClaimDueOutcomes, Measure, SendOutcome, CompleteOutcome,
                CompletionFails, ReadOutcome, WriteOutcome, CheckerRests
  <2>5. ASSUME NEW s \in Schedulers, Crash(s) PROVE UNCHANGED storeVars
    BY <2>5 DEF Crash
  <2>6. ASSUME Tick PROVE StoreMove
    BY <2>6 DEF Tick, StoreMove
  <2> QED
    BY <2>1, <2>2, <2>3, <2>4, <2>5, <2>6, RowMovesAreMoves DEF Next
<1>2. CASE StoreMove
  BY <1>2, StoreTypeMove, MovesKeep
<1>3. CASE UNCHANGED storeVars
  BY <1>3 DEF storeVars, StoreTypeOK, Keeps
<1> QED
  BY <1>1, <1>2, <1>3

-----------------------------------------------------------------------------
(* The courier.                                                             *)

\* A claimed row is held by one courier, which knows whether the file arrived.
CourierInv ==
    /\ \A s \in Schedulers : courier[s] # "finish" => verdict[s] = "failed"
    /\ \A s \in Schedulers : parcel[s] # Nobody =>
        /\ file[parcel[s]] = "sending"
        /\ courier[s] # "finish" => arrived[parcel[s]] = 0
        /\ verdict[s] = "sent" => arrived[parcel[s]] = 1
        /\ \A t \in Schedulers : parcel[t] = parcel[s] => t = s
    /\ \A c \in Proposals : status[c] = "absent" => file[c] = "none"
    /\ FilesArriveOnce

LEMMA CourierStarts == Init => CourierTypeOK /\ CourierInv
  BY OutcomeAssumption
  DEF Init, StoreInit, CourierInit, CourierTypeOK, CourierInv, FilesArriveOnce

LEMMA CourierSteps ==
    ASSUME CourierTypeOK, CourierInv, NEW s \in Schedulers, CourierStep(s)
    PROVE  CourierTypeOK' /\ CourierInv'
<1> USE OutcomeAssumption DEF CourierTypeOK, CourierInv, FilesArriveOnce, storeVars, To
<1>1. CASE ListAttachments(s)
  BY <1>1 DEF ListAttachments, Promised
<1>2. ASSUME NEW c \in Proposals, ClaimAttachment(s, c) PROVE CourierTypeOK' /\ CourierInv'
  BY <1>2 DEF ClaimAttachment, Claimable
<1>3. CASE BuildAttachment(s)
  BY <1>3 DEF BuildAttachment
<1>4. CASE SendFile(s)
  <2>1. parcel[s] \in Proposals
    BY <1>4 DEF SendFile
  <2> QED
    BY <1>4, <2>1 DEF SendFile
<1>5. CASE FinishAttachment(s)
  <2>1. parcel[s] \in Proposals
    BY <1>5 DEF FinishAttachment
  <2> QED
    BY <1>5, <2>1 DEF FinishAttachment, NextParcel
<1>6. CASE CourierRests(s)
  BY <1>6 DEF CourierRests
<1> QED
  BY <1>1, <1>2, <1>3, <1>4, <1>5, <1>6 DEF CourierStep

LEMMA CourierMoves ==
    ASSUME StoreTypeOK, CourierTypeOK, CourierInv, Next
    PROVE  CourierTypeOK' /\ CourierInv'
<1> USE DEF CourierTypeOK, CourierInv, FilesArriveOnce
<1>1. Keeps
  BY TableMoves
<1>2. ASSUME NEW c \in Proposals, NEW d \in Drafts, Promise(c, d)
      PROVE  CourierTypeOK' /\ CourierInv'
  <2>0. file[c] = "none" /\ c # Nobody
    BY <1>2, OutcomeAssumption DEF Promise, SaveProposal, MatchSave
  <2>1. file[c] = "none" /\ \A s \in Schedulers : parcel[s] # c
    BY <2>0
  <2> QED
    BY <1>2, <2>1, OutcomeAssumption DEF Promise, SaveProposal, MatchSave, StoreTypeOK
<1>3. ASSUME NEW s \in Schedulers, Crash(s) PROVE CourierTypeOK' /\ CourierInv'
  BY <1>3, OutcomeAssumption DEF Crash, CourierDies, To, storeVars
<1>4. CASE UNCHANGED courierVars
  BY <1>1, <1>4 DEF courierVars, Keeps
<1> QED
  BY <1>2, <1>3, <1>4, CourierSteps DEF Next, Tick

-----------------------------------------------------------------------------
(* The outcome checker.                                                     *)

\* What a checker knows of the row it is about.
HoldersFit ==
    /\ \A s \in Schedulers :
        /\ at[s] # Nobody => at[s] \in batch[s]
        /\ checker[s] = "idle" => batch[s] = {}
        /\ \A c \in batch[s] : outcome[c].state # "none"
        /\ checker[s] = "complete" => told[at[s]] > 0
        /\ checker[s] = "write" => known[s] <= outcome[at[s]].attempts
    /\ \A c \in Proposals :
        /\ outcome[c].state = "delivered" => told[c] > 0
        /\ outcome[c].state = "failed" => outcome[c].attempts >= MaxAttempts

\* A row nothing has gone wrong with: it is held by one checker at most, while
\* it is "checking", and once it is told its holder is about to complete it.
Undisturbed ==
    \A c \in Proposals \ disturbed :
        /\ told[c] <= 1
        /\ told[c] > 0 => outcome[c].state \in {"checking", "delivered"}
        /\ \A s \in Schedulers : c \in batch[s] =>
            /\ outcome[c].state = "checking"
            /\ told[c] > 0 => at[s] = c /\ checker[s] = "complete"
            /\ \A t \in Schedulers : c \in batch[t] => t = s

CheckerInv == HoldersFit /\ Undisturbed

LEMMA CheckerStarts == Init => CheckerTypeOK /\ CheckerInv
  BY StoreAssumption, OutcomeAssumption
  DEF Init, CheckerInit, NoOutcome, CheckerTypeOK, CheckerInv, HoldersFit, Undisturbed, Age, Null

OutcomeRow ==
    [state : {"none", "pending", "checking", "delivered", "failed"},
     due : Nat, claimed : Age \cup {Null}, attempts : Nat]

LEMMA RowPut ==
    ASSUME NEW f \in [Proposals -> OutcomeRow], NEW c \in Proposals, NEW o \in OutcomeRow
    PROVE  [f EXCEPT ![c] = o] \in [Proposals -> OutcomeRow]
  OBVIOUS

LEMMA ClaimedRow ==
    ASSUME NEW o \in OutcomeRow,
           NEW q, q = [o EXCEPT !.state = "checking", !.claimed = 0, !.attempts = @ + 1]
    PROVE  /\ q \in OutcomeRow
           /\ q.state = "checking" /\ q.claimed = 0 /\ q.attempts = o.attempts + 1
<1>1. PICK z \in Age \cup {Null}, n \in Nat, st \in {"checking"} : z = 0 /\ n = o.attempts + 1
  BY StoreAssumption DEF Age, OutcomeRow
<1>2. q = [o EXCEPT !.state = st, !.claimed = z, !.attempts = n]
  BY <1>1
<1> QED
  BY <1>1, <1>2 DEF OutcomeRow

Aged(o) == [o EXCEPT !.claimed = Older(@), !.due = IF @ > 0 THEN @ - 1 ELSE 0]

LEMMA AgedRow ==
    ASSUME NEW o \in OutcomeRow
    PROVE  /\ Aged(o) \in OutcomeRow
           /\ Aged(o).state = o.state /\ Aged(o).attempts = o.attempts
           /\ Aged(o).claimed = Null <=> o.claimed = Null
<1>1. ASSUME NEW a \in Age \cup {Null}
      PROVE  Older(a) \in Age \cup {Null} /\ (Older(a) = Null <=> a = Null)
  BY StoreAssumption DEF Older, Age, Null
<1>2. ASSUME NEW n \in Nat PROVE (IF n > 0 THEN n - 1 ELSE 0) \in Nat
  OBVIOUS
<1>3. PICK a \in Age \cup {Null}, n \in Nat :
        a = Older(o.claimed) /\ n = IF o.due > 0 THEN o.due - 1 ELSE 0
  BY <1>1, <1>2 DEF OutcomeRow
<1>4. Aged(o) = [o EXCEPT !.claimed = a, !.due = n]
  BY <1>3 DEF Aged
<1>5. a = Null <=> o.claimed = Null
  BY <1>1, <1>3 DEF OutcomeRow
<1> QED
  BY <1>4, <1>5 DEF OutcomeRow

\* A claim of the checker, row by row.
ClaimsRows(s, taken) ==
    /\ checker[s] = "idle" /\ checker' = [checker EXCEPT ![s] = "measure"]
    /\ lag' = [lag EXCEPT ![s] = 0]
    /\ UNCHANGED <<storeVars, at, known, told>>
    /\ batch' = [batch EXCEPT ![s] = taken]
    /\ disturbed' \subseteq Proposals /\ disturbed \subseteq disturbed'
    /\ outcome' \in [Proposals -> OutcomeRow]
    /\ \A c \in Proposals \ taken : outcome'[c] = outcome[c]
    /\ \A c \in taken :
        /\ status[c] = "applied" /\ outcome[c].state \in {"pending", "checking"}
        /\ outcome'[c].state = "checking" /\ outcome'[c].claimed = 0
        /\ outcome'[c].attempts = outcome[c].attempts + 1
        /\ c \notin disturbed' => outcome[c].state = "pending"

LEMMA ClaimByRow ==
    ASSUME CheckerTypeOK, NEW s \in Schedulers, ClaimDueOutcomes(s)
    PROVE  \E taken \in SUBSET Proposals : ClaimsRows(s, taken)
<1> DEFINE taken == {c \in Proposals : IsDue(c)}
<1>1. taken \in SUBSET Proposals
  OBVIOUS
<1>2. \A c \in taken : status[c] = "applied" /\ outcome[c].state \in {"pending", "checking"}
                      /\ (~Stale(c) => outcome[c].state = "pending")
  BY DEF IsDue, Stale
<1>3. /\ disturbed' = disturbed \cup {c \in taken : Stale(c)}
      /\ batch' = [batch EXCEPT ![s] = taken]
      /\ outcome' = [c \in Proposals |->
                          IF c \in taken
                          THEN [outcome[c] EXCEPT !.state = "checking", !.claimed = 0,
                                                  !.attempts = @ + 1]
                          ELSE outcome[c]]
  BY Zenon DEF ClaimDueOutcomes
<1>4. disturbed \subseteq Proposals
  BY DEF CheckerTypeOK
<1>5. ASSUME NEW c \in taken
      PROVE  /\ outcome'[c] \in OutcomeRow
             /\ outcome'[c].state = "checking" /\ outcome'[c].claimed = 0
             /\ outcome'[c].attempts = outcome[c].attempts + 1
  <2>1. outcome'[c] = [outcome[c] EXCEPT !.state = "checking", !.claimed = 0, !.attempts = @ + 1]
    BY <1>3
  <2>2. outcome[c] \in OutcomeRow
    BY DEF CheckerTypeOK, OutcomeRow
  <2> QED
    BY <2>1, <2>2, ClaimedRow
<1>6. \A c \in Proposals \ taken : outcome'[c] = outcome[c]
  BY <1>3
<1>7. outcome' \in [Proposals -> OutcomeRow]
  <2>1. \A c \in Proposals : outcome'[c] \in OutcomeRow
    BY <1>5, <1>6 DEF CheckerTypeOK, OutcomeRow
  <2> DEFINE G(c) == IF c \in taken
                     THEN [outcome[c] EXCEPT !.state = "checking", !.claimed = 0,
                                             !.attempts = @ + 1]
                     ELSE outcome[c]
  <2>2. outcome' = [c \in Proposals |-> G(c)]
    BY <1>3
  <2>3. ASSUME NEW c \in Proposals PROVE G(c) \in OutcomeRow
    BY <2>1, <2>2
  <2> HIDE DEF G
  <2> QED
    BY <2>2, <2>3
<1>8. \A c \in taken : c \notin disturbed' => outcome[c].state = "pending"
  BY <1>2, <1>3
<1>9. /\ checker[s] = "idle" /\ checker' = [checker EXCEPT ![s] = "measure"]
      /\ lag' = [lag EXCEPT ![s] = 0]
      /\ UNCHANGED <<storeVars, at, known, told>>
  BY DEF ClaimDueOutcomes, Onto
<1>10. disturbed' \subseteq Proposals /\ disturbed \subseteq disturbed'
  BY <1>3, <1>4
<1> HIDE DEF taken
<1> QED
  BY <1>1, <1>2, <1>3, <1>5, <1>6, <1>7, <1>8, <1>9, <1>10 DEF ClaimsRows

\* The columns of the checker keep their types.
LEMMA CheckerTypeSteps ==
    ASSUME StoreTypeOK, CheckerTypeOK, CheckerInv, NEW s \in Schedulers, CheckerStep(s)
    PROVE  CheckerTypeOK'
<1> USE StoreAssumption, OutcomeAssumption
    DEF CheckerTypeOK, CheckerInv, HoldersFit, storeVars, Onto, Age, Null
<1>1. CASE ClaimDueOutcomes(s)
  <2>1. PICK taken \in SUBSET Proposals : ClaimsRows(s, taken)
    BY <1>1, ClaimByRow
  <2> USE DEF ClaimsRows
  <2>2. ClaimsRows(s, taken)
    BY <2>1
  <2>3. outcome' \in [Proposals -> OutcomeRow]
    BY <2>1
  <2>4. \A c \in Proposals :
            /\ outcome'[c].state # "none" => status'[c] \in {"applied", "needs_review"}
            /\ outcome'[c].claimed # Null <=> outcome'[c].state = "checking"
    <3> TAKE c \in Proposals
    <3>1. CASE c \in taken
      BY <2>1, <2>2, <3>1
    <3>2. CASE c \notin taken
      BY <2>1, <2>2, <3>2
    <3> QED
      BY <3>1, <3>2
  <2>5. 0 \in Age
    OBVIOUS
  <2> QED
    BY <2>1, <2>2, <2>3, <2>4, <2>5 DEF OutcomeRow
<1>2. ASSUME NEW c \in Proposals, Measure(s, c) PROVE CheckerTypeOK'
  BY <1>2 DEF Measure
<1>3. CASE SendOutcome(s)
  <2>1. at[s] \in Proposals
    BY <1>3 DEF SendOutcome
  <2> QED
    BY <1>3, <2>1 DEF SendOutcome
<1>4. CASE CompleteOutcome(s)
  <2>1. at[s] \in Proposals
    BY <1>4 DEF CompleteOutcome
  <2> QED
    BY <1>4, <2>1 DEF CompleteOutcome, InMyHands, NextRow
<1>5. CASE CompletionFails(s)
  <2>1. at[s] \in Proposals
    BY <1>5 DEF CompletionFails
  <2> QED
    BY <1>5, <2>1 DEF CompletionFails
<1>6. CASE ReadOutcome(s)
  <2>1. at[s] \in Proposals
    BY <1>6 DEF ReadOutcome
  <2>2. outcome[at[s]].attempts \in Nat
    BY <2>1
  <2>3. known' \in [Schedulers -> Nat]
    BY <1>6, <2>2 DEF ReadOutcome, NextRow
  <2> QED
    BY <1>6, <2>1, <2>3, SMTT(20) DEF ReadOutcome, NextRow
<1>7. CASE WriteOutcome(s)
  <2>1. at[s] \in Proposals /\ outcome[at[s]].state # "none"
    BY <1>7 DEF WriteOutcome
  <2>2. DAY < lag[s] \/ DAY - lag[s] \in Nat
    BY DEF Age
  <2> DEFINE st == IF Terminal(s) THEN "failed" ELSE "pending"
             n == IF Terminal(s) \/ DAY < lag[s] THEN 0 ELSE DAY - lag[s]
  <2>3. /\ st \in {"failed", "pending"} /\ n \in Nat
        /\ outcome' = [outcome EXCEPT ![at[s]] =
                           [@ EXCEPT !.state = st, !.due = n, !.claimed = Null]]
    BY <1>7, <2>2 DEF WriteOutcome
  <2> HIDE DEF st, n
  <2>4. outcome' \in [Proposals ->
            [state : {"none", "pending", "checking", "delivered", "failed"},
             due : Nat, claimed : Age \cup {Null}, attempts : Nat]]
    <3>1. outcome \in [Proposals -> OutcomeRow]
      BY DEF OutcomeRow
    <3>2. ASSUME NEW o \in OutcomeRow
          PROVE  [o EXCEPT !.state = st, !.due = n, !.claimed = Null] \in OutcomeRow
      BY <2>3 DEF OutcomeRow
    <3>3. outcome' \in [Proposals -> OutcomeRow]
      BY <2>1, <2>3, <3>1, <3>2
    <3> QED
      BY <3>3 DEF OutcomeRow
  <2>5. \A c \in Proposals :
            /\ outcome'[c].state # "none" => outcome[c].state # "none"
            /\ outcome'[c].claimed # Null <=> outcome'[c].state = "checking"
    BY <2>1, <2>3
  <2>6. known' \in [Schedulers -> Nat] /\ disturbed' \subseteq Proposals
    BY <1>7, <2>1 DEF WriteOutcome, NextRow
  <2> QED
    BY <1>7, <2>1, <2>4, <2>5, <2>6 DEF WriteOutcome, NextRow
<1>8. CASE CheckerRests(s)
  BY <1>8 DEF CheckerRests
<1> QED
  BY <1>1, <1>2, <1>3, <1>4, <1>5, <1>6, <1>7, <1>8 DEF CheckerStep

LEMMA HoldersSteps ==
    ASSUME StoreTypeOK, CheckerTypeOK, CheckerInv, NEW s \in Schedulers, CheckerStep(s)
    PROVE  HoldersFit'
<1> USE OutcomeAssumption DEF CheckerTypeOK, HoldersFit, Onto
<1>0. HoldersFit
  BY DEF CheckerInv
<1>1. CASE ClaimDueOutcomes(s)
  <2>1. PICK taken \in SUBSET Proposals : ClaimsRows(s, taken)
    BY <1>1, ClaimByRow
  <2> USE DEF ClaimsRows
  <2>2. ClaimsRows(s, taken)
    BY <2>1
  <2>3. \A c \in Proposals :
            /\ outcome'[c].state \in {outcome[c].state, "checking"}
            /\ outcome[c].state # "none" => outcome'[c].state # "none"
            /\ outcome'[c].attempts >= outcome[c].attempts
            /\ c \in taken => outcome'[c].state = "checking"
    <3> TAKE c \in Proposals
    <3>1. CASE c \in taken
      BY <2>1, <3>1
    <3>2. CASE c \notin taken
      BY <2>1, <3>2
    <3> QED
      BY <3>1, <3>2
  <2>4. at[s] = Nobody
    BY <2>2
  <2>5. \A t \in Schedulers : batch'[t] = IF t = s THEN taken ELSE batch[t]
    BY <2>1
  <2>6. \A t \in Schedulers :
            /\ at'[t] # Nobody => at'[t] \in batch'[t]
            /\ checker'[t] = "idle" => batch'[t] = {}
            /\ \A c \in batch'[t] : outcome'[c].state # "none"
            /\ checker'[t] = "complete" => told'[at'[t]] > 0
    BY <1>0, <2>2, <2>3, <2>4, <2>5
  <2>7. \A t \in Schedulers :
            checker'[t] = "write" => known'[t] <= outcome'[at'[t]].attempts
    <3> SUFFICES ASSUME NEW t \in Schedulers, checker'[t] = "write"
                 PROVE  known[t] <= outcome'[at[t]].attempts
      BY <2>2
    <3>1. checker[t] = "write" /\ at[t] \in Proposals
      BY <2>2
    <3>2. /\ known[t] <= outcome[at[t]].attempts
          /\ outcome'[at[t]].attempts \in Nat /\ outcome[at[t]].attempts \in Nat
          /\ known[t] \in Nat
      BY <1>0, <2>2, <3>1 DEF OutcomeRow
    <3>3. outcome'[at[t]].attempts >= outcome[at[t]].attempts
      BY <2>3, <3>1
    <3> QED
      BY <3>2, <3>3
  <2>8. \A c \in Proposals :
            /\ outcome'[c].state = "delivered" => told'[c] > 0
            /\ outcome'[c].state = "failed" => outcome'[c].attempts >= MaxAttempts
    BY <1>0, <2>2, <2>3
  <2> QED
    BY <2>6, <2>7, <2>8
<1>2. ASSUME NEW c \in Proposals, Measure(s, c) PROVE HoldersFit'
  BY <1>0, <1>2 DEF Measure
<1>3. CASE SendOutcome(s)
  <2>1. at[s] \in Proposals
    BY <1>3 DEF SendOutcome
  <2> QED
    BY <1>0, <1>3, <2>1 DEF SendOutcome
<1>4. CASE CompleteOutcome(s)
  <2>1. at[s] \in Proposals
    BY <1>4 DEF CompleteOutcome
  <2> QED
    BY <1>0, <1>4, <2>1 DEF CompleteOutcome, InMyHands, NextRow
<1>5. CASE CompletionFails(s)
  BY <1>0, <1>5 DEF CompletionFails
<1>6. CASE ReadOutcome(s)
  <2>1. at[s] \in Proposals
    BY <1>6 DEF ReadOutcome
  <2> QED
    BY <1>0, <1>6, <2>1 DEF ReadOutcome, NextRow
<1>7. CASE WriteOutcome(s)
  <2>1. at[s] \in Proposals /\ known[s] <= outcome[at[s]].attempts
    BY <1>0, <1>7 DEF WriteOutcome
  <2> QED
    BY <1>0, <1>7, <2>1 DEF WriteOutcome, NextRow, Terminal
<1>8. CASE CheckerRests(s)
  BY <1>0, <1>8 DEF CheckerRests
<1> QED
  BY <1>1, <1>2, <1>3, <1>4, <1>5, <1>6, <1>7, <1>8 DEF CheckerStep

LEMMA UndisturbedSteps ==
    ASSUME StoreTypeOK, CheckerTypeOK, CheckerInv, NEW s \in Schedulers, CheckerStep(s)
    PROVE  Undisturbed'
<1> USE OutcomeAssumption DEF CheckerTypeOK, Undisturbed, Onto
<1>0. HoldersFit /\ Undisturbed
  BY DEF CheckerInv
<1>1. CASE ClaimDueOutcomes(s)
  <2>1. PICK taken \in SUBSET Proposals : ClaimsRows(s, taken)
    BY <1>1, ClaimByRow
  <2> USE DEF ClaimsRows
  <2>2. ClaimsRows(s, taken)
    BY <2>1
  <2>3. ASSUME NEW c \in Proposals \ disturbed'
        PROVE  /\ told'[c] <= 1
               /\ told'[c] > 0 => outcome'[c].state \in {"checking", "delivered"}
               /\ \A u \in Schedulers : c \in batch'[u] =>
                   /\ outcome'[c].state = "checking"
                   /\ told'[c] > 0 => at'[u] = c /\ checker'[u] = "complete"
                   /\ \A t \in Schedulers : c \in batch'[t] => t = u
    <3>1. c \in Proposals \ disturbed
      BY <2>1
    <3>2. CASE c \in taken
      <4>1. outcome[c].state = "pending" /\ outcome'[c].state = "checking"
        BY <2>1, <3>2
      <4>2. told[c] = 0 /\ \A t \in Schedulers : c \notin batch[t]
        BY <1>0, <3>1, <4>1
      <4> QED
        BY <2>1, <2>2, <4>1, <4>2
    <3>3. CASE c \notin taken
      <4>1. batch[s] = {}
        BY <1>0, <2>2 DEF HoldersFit
      <4> QED
        BY <1>0, <2>1, <2>2, <3>1, <3>3, <4>1
    <3> QED
      BY <3>2, <3>3
  <2> QED
    BY <2>3
<1>2. ASSUME NEW c \in Proposals, Measure(s, c) PROVE Undisturbed'
  BY <1>0, <1>2 DEF Measure
<1>3. CASE SendOutcome(s)
  <2>1. at[s] \in Proposals /\ at[s] \in batch[s]
    BY <1>0, <1>3 DEF SendOutcome, HoldersFit
  <2> QED
    BY <1>0, <1>3, <2>1 DEF SendOutcome
<1>4. CASE CompleteOutcome(s)
  <2>1. at[s] \in Proposals /\ at[s] \in batch[s]
    BY <1>0, <1>4 DEF CompleteOutcome, HoldersFit
  <2> QED
    BY <1>0, <1>4, <2>1 DEF CompleteOutcome, InMyHands, NextRow
<1>5. CASE CompletionFails(s)
  <2>1. at[s] \in Proposals
    BY <1>5 DEF CompletionFails
  <2> QED
    BY <1>0, <1>5, <2>1 DEF CompletionFails
<1>6. CASE ReadOutcome(s)
  <2>1. at[s] \in Proposals /\ at[s] \in batch[s]
    BY <1>0, <1>6 DEF ReadOutcome, HoldersFit
  <2> QED
    BY <1>0, <1>6, <2>1 DEF ReadOutcome, NextRow
<1>7. CASE WriteOutcome(s)
  <2>1. at[s] \in Proposals /\ at[s] \in batch[s]
    BY <1>0, <1>7 DEF WriteOutcome, HoldersFit
  <2> QED
    BY <1>0, <1>7, <2>1 DEF WriteOutcome, InMyHands, NextRow
<1>8. CASE CheckerRests(s)
  BY <1>0, <1>8 DEF CheckerRests
<1> QED
  BY <1>1, <1>2, <1>3, <1>4, <1>5, <1>6, <1>7, <1>8 DEF CheckerStep

LEMMA CheckerMoves ==
    ASSUME StoreTypeOK, CheckerTypeOK, CheckerInv, Next
    PROVE  CheckerTypeOK' /\ CheckerInv'
<1> USE StoreAssumption, OutcomeAssumption
    DEF CheckerTypeOK, CheckerInv, HoldersFit, Undisturbed
<1>1. Keeps
  BY TableMoves
<1>2. ASSUME NEW c \in Proposals, FinalizeWithOutcome(c) PROVE CheckerTypeOK' /\ CheckerInv'
  <2>1. outcome[c].state = "none" /\ \A s \in Schedulers : c \notin batch[s] /\ at[s] # c
    BY <1>2 DEF FinalizeWithOutcome, Finalize, MatchFinalize
  <2>2. status' = [status EXCEPT ![c] = "applied"]
    BY <1>2 DEF FinalizeWithOutcome, Finalize, Decide
  <2>3. WEEK \in Nat
    OBVIOUS
  <2>4. CheckerTypeOK'
    <3> DEFINE new == [NoOutcome EXCEPT !.state = "pending", !.due = WEEK]
    <3>1. new \in OutcomeRow /\ new.state = "pending" /\ new.claimed = Null
      BY DEF OutcomeRow, NoOutcome
    <3>2. outcome \in [Proposals -> OutcomeRow] /\ outcome[c] \in OutcomeRow
      BY DEF OutcomeRow
    <3>3. outcome' = [outcome EXCEPT ![c] = IF draft[c].op \in OutcomeOps THEN new ELSE @]
      BY <1>2 DEF FinalizeWithOutcome, Expected
    <3>4. outcome' \in [Proposals -> OutcomeRow]
      <4> HIDE DEF new
      <4> DEFINE o == IF draft[c].op \in OutcomeOps THEN new ELSE outcome[c]
      <4>1. o \in OutcomeRow
        BY <3>1, <3>2
      <4>2. outcome' = [outcome EXCEPT ![c] = o]
        BY <3>3
      <4> HIDE DEF o
      <4> QED
        BY <3>2, <4>1, <4>2, RowPut
    <3>5. \A b \in Proposals :
            /\ outcome'[b].state # "none" => status'[b] \in {"applied", "needs_review"}
            /\ outcome'[b].claimed # Null <=> outcome'[b].state = "checking"
      <4> HIDE DEF new
      <4> TAKE b \in Proposals
      <4>1. CASE b = c
        BY <2>1, <2>2, <3>1, <3>2, <3>3, <4>1 DEF StoreTypeOK
      <4>2. CASE b # c
        BY <2>2, <3>3, <4>2 DEF StoreTypeOK
      <4> QED
        BY <4>1, <4>2
    <3> QED
      BY <1>2, <3>4, <3>5 DEF FinalizeWithOutcome, OutcomeRow
  <2>5. HoldersFit'
    BY <1>2, <2>1, <2>3 DEF FinalizeWithOutcome, Expected, NoOutcome
  <2>6. Undisturbed'
    BY <1>2, <2>1, <2>3 DEF FinalizeWithOutcome, Expected, NoOutcome
  <2> QED
    BY <2>4, <2>5, <2>6
<1>3. ASSUME NEW s \in Schedulers, Crash(s) PROVE CheckerTypeOK' /\ CheckerInv'
  BY <1>3 DEF Crash, CheckerDies, Onto, storeVars, Age
<1>4. ASSUME Tick PROVE CheckerTypeOK' /\ CheckerInv'
  <2>1. /\ outcome' \in [Proposals -> OutcomeRow]
        /\ \A c \in Proposals :
            /\ outcome'[c].state = outcome[c].state
            /\ outcome'[c].attempts = outcome[c].attempts
            /\ outcome'[c].claimed = Null <=> outcome[c].claimed = Null
    <3>1. outcome' = [c \in Proposals |-> Aged(outcome[c])]
      BY <1>4 DEF Tick, OutcomesAge, Aged
    <3>2. \A c \in Proposals : outcome[c] \in OutcomeRow
      BY DEF OutcomeRow
    <3> QED
      BY <3>1, <3>2, AgedRow
  <2>2. lag' \in [Schedulers -> Age]
    <3>1. ASSUME NEW a \in Age PROVE Older(a) \in Age
      BY DEF Older, Age
    <3>2. 0 \in Age
      BY DEF Age
    <3> QED
      BY <1>4, <3>1, <3>2 DEF Tick, OutcomesAge
  <2>3. UNCHANGED <<status, checker, batch, at, known, told, disturbed>>
    BY <1>4 DEF Tick, Advance, OutcomesAge
  <2>4. CheckerTypeOK'
    BY <2>1, <2>2, <2>3 DEF OutcomeRow
  <2>5. HoldersFit'
    <3>1. \A s \in Schedulers : checker[s] = "write" => at[s] \in Proposals
      OBVIOUS
    <3> QED
      BY <2>1, <2>3, <3>1
  <2>6. Undisturbed'
    BY <2>1, <2>3
  <2> QED
    BY <2>4, <2>5, <2>6
<1>5. CASE UNCHANGED checkerVars
  BY <1>1, <1>5 DEF checkerVars, Keeps
<1>6. ASSUME NEW s \in Schedulers, CheckerStep(s) PROVE CheckerTypeOK' /\ CheckerInv'
  BY <1>6, CheckerTypeSteps, HoldersSteps, UndisturbedSteps
<1> QED
  BY <1>2, <1>3, <1>4, <1>5, <1>6 DEF Next

-----------------------------------------------------------------------------

DeliveriesInv == TypeOK /\ CourierInv /\ CheckerInv

\* The columns of the two jobs keep their types, a claimed file has one holder,
\* and so has an outcome nothing has gone wrong with.
THEOREM DeliveriesInvariant == Spec => []DeliveriesInv
<1>1. Init => DeliveriesInv
  <2>1. Init => StoreTypeOK
    BY StoreTypeInit DEF Init
  <2>2. Init => crashes \in 0 .. MaxCrashes
    BY OutcomeAssumption DEF Init
  <2> QED
    BY <2>1, <2>2, CourierStarts, CheckerStarts DEF DeliveriesInv, TypeOK
<1>2. DeliveriesInv /\ [Next]_vars => DeliveriesInv'
  <2>1. ASSUME DeliveriesInv, Next PROVE DeliveriesInv'
    <3>1. crashes' \in 0 .. MaxCrashes
      BY <2>1, OutcomeAssumption DEF DeliveriesInv, TypeOK, Next, Crash, Tick
    <3> QED
      BY <2>1, <3>1, TableMoves, CourierMoves, CheckerMoves DEF DeliveriesInv, TypeOK
  <2>2. ASSUME DeliveriesInv, UNCHANGED vars PROVE DeliveriesInv'
    BY <2>2 DEF DeliveriesInv, TypeOK, StoreTypeOK, CourierTypeOK, CheckerTypeOK, CourierInv,
                FilesArriveOnce, CheckerInv, HoldersFit, Undisturbed, vars, storeVars,
                courierVars, checkerVars
  <2> QED
    BY <2>1, <2>2
<1> QED
  BY <1>1, <1>2, PTL DEF Spec

\* The variables of the deliveries keep their types.
THEOREM DeliveriesTypeCorrect == Spec => []TypeOK
<1>1. DeliveriesInv => TypeOK
  BY DEF DeliveriesInv
<1> QED
  BY <1>1, DeliveriesInvariant, PTL

\* However many schedulers there are and whenever they die: a promised file
\* reaches the chat at most once, and "sent" is said of a file that is there.
THEOREM FilesDoArriveOnce == Spec => []FilesArriveOnce
<1>1. DeliveriesInv => FilesArriveOnce
  BY DEF DeliveriesInv, CourierInv
<1> QED
  BY <1>1, DeliveriesInvariant, PTL

\* A delivered outcome has been told, a failed one has had its attempts, and a
\* row nothing has gone wrong with is told at most once.
THEOREM OutcomesAreHonest == Spec => []OutcomeIsHonest
<1>1. DeliveriesInv => OutcomeIsHonest
  <2>1. ASSUME DeliveriesInv, NEW c \in Proposals \ disturbed PROVE ~ told[c] > 1
    <3>1. told[c] <= 1 /\ told[c] \in Nat
      BY <2>1 DEF DeliveriesInv, TypeOK, CheckerTypeOK, CheckerInv, Undisturbed
    <3> QED
      BY <3>1
  <2>2. ASSUME DeliveriesInv, NEW c \in Proposals
        PROVE  /\ outcome[c].state = "delivered" => told[c] > 0
               /\ outcome[c].state = "failed" => outcome[c].attempts >= MaxAttempts
    BY <2>2 DEF DeliveriesInv, CheckerInv, HoldersFit
  <2> QED
    BY <2>1, <2>2 DEF OutcomeIsHonest
<1> QED
  BY <1>1, DeliveriesInvariant, PTL

-----------------------------------------------------------------------------
\* A lease of the last opening that still runs is the one in the row, unless
\* the circuit has been closed since.
LeaseIsInRow ==
    \A c \in Calls : probing[c].last /\ probing[c].lease > 0 =>
        \/ row.state \in {"none", "closed"}
        \/ row.state = "half_open" /\ row.lease = probing[c].lease

\* The evidence is there for what has been counted and what will be.
EvidenceSuffices ==
    \/ evidence = FAILURE_THRESHOLD
    \/ evidence >= row.count + Cardinality(Unrecorded)

CircuitInv ==
    /\ CircuitTypeOK
    /\ row.state = "none" => row.count = 0
    /\ row.state \in {"open", "half_open"} => row.count >= FAILURE_THRESHOLD
    /\ LeaseIsInRow
    /\ OneProbePerOpening
    /\ EvidenceSuffices
    /\ OpenIsEarned

\* What a row may be.
Rows ==
    [state : {"none", "closed", "open", "half_open"}, count : 0 .. FAILURE_THRESHOLD + 1,
     cooling : 0 .. OPEN_COOLDOWN, lease : 0 .. PROBE_LEASE]

RowTyped(r) ==
    r \in Rows /\ (r.cooling > 0 => r.state = "open") /\ (r.lease > 0 => r.state = "half_open")

Labels == {"idle", "lease", "calling", "success", "failure", "insert"}
Probes == [lease : 0 .. PROBE_LEASE, last : BOOLEAN]

\* The types after a step of one call.
LEMMA StillTyped ==
    ASSUME CircuitTypeOK, NEW c \in Calls, NEW label \in Labels, Goto(c, label),
           RowTyped(row'), clean' \in [Calls -> BOOLEAN], spans' \in [Calls -> BOOLEAN],
           UNCHANGED far, faults' \in 0 .. MaxFaults, probing' \in [Calls -> Probes],
           evidence' \in 0 .. FAILURE_THRESHOLD
    PROVE  CircuitTypeOK'
<1>1. pc' \in [Calls -> Labels]
  BY DEF CircuitTypeOK, Goto, Labels
<1>2. up' \in BOOLEAN /\ turns' \in 0 .. MaxTurns
  BY DEF CircuitTypeOK, far
<1> QED
  BY <1>1, <1>2 DEF CircuitTypeOK, RowTyped, Rows, Labels, Probes

\* Ends of probes are probes.
LEMMA EndProbeTyped ==
    ASSUME CircuitTypeOK, NEW c \in Calls
    PROVE  /\ RowTyped(row)
           /\ probing \in [Calls -> Probes]
           /\ EndProbe(c) => probing' \in [Calls -> Probes]
<1>1. RowTyped(row) /\ probing \in [Calls -> Probes]
  BY DEF CircuitTypeOK, RowTyped, Rows, Probes
<1>2. NoProbe \in Probes
  BY BreakerAssumption DEF NoProbe, Probes
<1> QED
  BY <1>1, <1>2 DEF EndProbe

\* Failures that are still owed a record are finitely many.
LEMMA UnrecordedTyped ==
    ASSUME CircuitTypeOK
    PROVE  /\ IsFiniteSet(Unrecorded)
           /\ Cardinality(Unrecorded) \in Nat
<1>1. IsFiniteSet(Unrecorded)
  BY BreakerAssumption, FS_Subset DEF Unrecorded
<1> QED
  BY <1>1, FS_CardinalityType

\* A call that goes on changes the number of owed records by its own.
LEMMA UnrecordedMoves ==
    ASSUME CircuitTypeOK, NEW c \in Calls, NEW label, Goto(c, label)
    PROVE  /\ (c \in Unrecorded /\ label \notin {"failure", "insert"}) =>
                Cardinality(Unrecorded') = Cardinality(Unrecorded) - 1
           /\ (c \notin Unrecorded /\ label \in {"failure", "insert"}) =>
                Cardinality(Unrecorded') = Cardinality(Unrecorded) + 1
           /\ (c \in Unrecorded <=> label \in {"failure", "insert"}) =>
                Unrecorded' = Unrecorded
           /\ c \in Unrecorded => Cardinality(Unrecorded) > 0
           /\ Cardinality(Unrecorded) \in Nat
<1>1. pc' = [pc EXCEPT ![c] = label] /\ DOMAIN pc = Calls
  BY DEF Goto, CircuitTypeOK
<1>2. IsFiniteSet(Unrecorded) /\ Cardinality(Unrecorded) \in Nat
  BY UnrecordedTyped
<1>3. c \in Unrecorded /\ label \notin {"failure", "insert"} => Unrecorded' = Unrecorded \ {c}
  BY <1>1 DEF Unrecorded
<1>4. c \notin Unrecorded /\ label \in {"failure", "insert"} => Unrecorded' = Unrecorded \cup {c}
  BY <1>1 DEF Unrecorded
<1>5. (c \in Unrecorded <=> label \in {"failure", "insert"}) => Unrecorded' = Unrecorded
  BY <1>1 DEF Unrecorded
<1>6. c \in Unrecorded => Cardinality(Unrecorded \ {c}) = Cardinality(Unrecorded) - 1
  BY <1>2, FS_RemoveElement
<1>7. c \notin Unrecorded => Cardinality(Unrecorded \cup {c}) = Cardinality(Unrecorded) + 1
  BY <1>2, FS_AddElement
<1>8. c \in Unrecorded => Cardinality(Unrecorded) # 0
  BY <1>2, FS_EmptySet
<1>9. c \in Unrecorded => Cardinality(Unrecorded) > 0
  BY <1>2, <1>8
<1> QED
  BY <1>2, <1>3, <1>4, <1>5, <1>6, <1>7, <1>9

LEMMA CircuitStarts == CircuitInit => CircuitInv
<1> SUFFICES ASSUME CircuitInit PROVE CircuitInv
  OBVIOUS
<1>1. CircuitTypeOK
  BY BreakerAssumption DEF CircuitInit, CircuitTypeOK, NoRow, NoProbe
<1>2. Unrecorded = {}
  BY DEF CircuitInit, Unrecorded
<1>3. EvidenceSuffices
  BY <1>2, FS_EmptySet DEF CircuitInit, EvidenceSuffices, NoRow
<1> QED
  BY <1>1, <1>3 DEF CircuitInit, CircuitInv, LeaseIsInRow, OneProbePerOpening, OpenIsEarned, NoRow, NoProbe

\* The row and its history stay; a call moves without owing a record.
LEMMA QuietMove ==
    ASSUME CircuitInv, NEW c \in Calls, NEW label \in {"idle", "lease", "calling", "success"},
           Goto(c, label), row' = row, evidence' = evidence,
           probing' = probing \/ EndProbe(c),
           clean' \in [Calls -> BOOLEAN], spans' \in [Calls -> BOOLEAN],
           faults' \in 0 .. MaxFaults, UNCHANGED far
    PROVE  CircuitInv'
<1>1. CircuitTypeOK'
  <2>1. CircuitTypeOK /\ label \in Labels /\ evidence \in 0 .. FAILURE_THRESHOLD
    BY DEF CircuitInv, CircuitTypeOK, Labels
  <2>2. RowTyped(row') /\ probing' \in [Calls -> Probes]
    BY <2>1, EndProbeTyped
  <2> QED
    BY <2>1, <2>2, StillTyped
<1>2. LeaseIsInRow' /\ OneProbePerOpening'
  BY DEF CircuitInv, CircuitTypeOK, LeaseIsInRow, OneProbePerOpening, EndProbe, NoProbe
<1>3. Cardinality(Unrecorded') <= Cardinality(Unrecorded) /\ Cardinality(Unrecorded') \in Nat
  BY UnrecordedMoves, UnrecordedTyped, <1>1 DEF CircuitInv
<1>4. EvidenceSuffices'
  BY <1>3, UnrecordedTyped, BreakerAssumption DEF CircuitInv, CircuitTypeOK, EvidenceSuffices
<1> QED
  BY <1>1, <1>2, <1>4 DEF CircuitInv, OpenIsEarned

LEMMA FaultTyped ==
    ASSUME CircuitTypeOK
    PROVE  /\ Fault => faults' \in 0 .. MaxFaults
           /\ faults' = faults => faults' \in 0 .. MaxFaults
BY BreakerAssumption DEF CircuitTypeOK, Fault

LEMMA LookKeeps ==
    ASSUME CircuitInv, NEW c \in Calls, Look(c) PROVE CircuitInv'
<1>1. CircuitTypeOK /\ row' = row /\ evidence' = evidence /\ probing' = probing /\ UNCHANGED far
  BY DEF CircuitInv, Look, history
<1>2. spans' \in [Calls -> BOOLEAN]
  BY <1>1 DEF Look, CircuitTypeOK
<1>3. faults' \in 0 .. MaxFaults
  BY <1>1, FaultTyped DEF Look
<1>4. \E label \in {"lease", "calling"} : Goto(c, label) /\ clean' \in [Calls -> BOOLEAN]
  BY <1>1 DEF Look, Pass, CircuitTypeOK
<1> QED
  BY <1>1, <1>2, <1>3, <1>4, QuietMove

LEMMA LeaseKeeps ==
    ASSUME CircuitInv, NEW c \in Calls, TakeProbe(c) \/ Refuse(c) \/ PassUnheard(c)
    PROVE  CircuitInv'
<1>1. CASE Refuse(c)
  <2>1. faults' \in 0 .. MaxFaults
    BY <1>1, FaultTyped DEF Refuse, CircuitInv
  <2> QED
    BY <1>1, <2>1, QuietMove DEF Refuse, CircuitInv, CircuitTypeOK, history
<1>2. CASE PassUnheard(c) /\ row' = row
  <2>1. faults' \in 0 .. MaxFaults /\ clean' \in [Calls -> BOOLEAN]
    BY <1>2, FaultTyped DEF PassUnheard, Pass, CircuitInv, CircuitTypeOK
  <2> QED
    BY <1>2, <2>1, QuietMove DEF PassUnheard, Pass, CircuitInv, CircuitTypeOK, history
<1>3. CASE (TakeProbe(c) \/ PassUnheard(c)) /\ ProbeIsFree /\ row' = Leased
  <2>1. CircuitTypeOK /\ faults' \in 0 .. MaxFaults
    BY <1>3, FaultTyped DEF TakeProbe, PassUnheard, CircuitInv
  <2>2. /\ pc[c] = "lease" /\ Goto(c, "calling") /\ evidence' = evidence
        /\ UNCHANGED far /\ spans' = spans /\ clean' \in [Calls -> BOOLEAN]
    BY <1>3, <2>1 DEF TakeProbe, PassUnheard, Pass, CircuitTypeOK, history
  <2>3. /\ row' = [row EXCEPT !.state = "half_open", !.lease = PROBE_LEASE]
        /\ row.state \in {"open", "half_open"} /\ row.lease = 0 /\ row.cooling = 0
    BY <1>3 DEF Leased, ProbeIsFree
  <2>4. \/ probing' = probing
        \/ probing' = [probing EXCEPT ![c] = [lease |-> PROBE_LEASE, last |-> TRUE]]
    BY <1>3 DEF TakeProbe, PassUnheard, history
  <2>5. \A d \in Calls : ~(probing[d].last /\ probing[d].lease > 0)
    BY <2>3 DEF CircuitInv, LeaseIsInRow
  <2>6. CircuitTypeOK'
    <3>1. RowTyped(row')
      <4>1. row \in Rows
        BY <2>1, EndProbeTyped DEF RowTyped
      <4>2. PROBE_LEASE \in 0 .. PROBE_LEASE
        BY BreakerAssumption
      <4>3. row' \in Rows /\ row'.state = "half_open" /\ row'.cooling = 0
        BY <2>3, <4>1, <4>2 DEF Rows
      <4> QED
        BY <4>3 DEF RowTyped
    <3>2. probing' \in [Calls -> Probes]
      <4>1. [lease |-> PROBE_LEASE, last |-> TRUE] \in Probes
        BY BreakerAssumption DEF Probes
      <4> QED
        BY <2>1, <2>4, <4>1, EndProbeTyped
    <3>3. evidence' \in 0 .. FAILURE_THRESHOLD /\ spans' \in [Calls -> BOOLEAN] /\ "calling" \in Labels
      BY <2>1, <2>2 DEF CircuitTypeOK, Labels
    <3> QED
      BY <2>1, <2>2, <3>1, <3>2, <3>3, StillTyped
  <2>7. LeaseIsInRow' /\ OneProbePerOpening'
    <3>1. row'.state = "half_open" /\ row'.lease = PROBE_LEASE
      BY <2>1, <2>3 DEF CircuitTypeOK
    <3>2. CASE probing' = probing
      BY <2>5, <3>2 DEF LeaseIsInRow, OneProbePerOpening, CircuitInv
    <3>3. CASE probing' = [probing EXCEPT ![c] = [lease |-> PROBE_LEASE, last |-> TRUE]]
      <4>1. /\ probing'[c].lease = PROBE_LEASE
            /\ \A d \in Calls : d # c => probing'[d] = probing[d]
        BY <2>1, <3>3 DEF CircuitTypeOK
      <4>2. \A d \in Calls : probing[d].lease \in Nat
        BY <2>1, BreakerAssumption DEF CircuitTypeOK
      <4>3. LeaseIsInRow'
        BY <2>5, <3>1, <4>1 DEF LeaseIsInRow
      <4>4. OneProbePerOpening'
        BY <2>5, <4>1, <4>2 DEF OneProbePerOpening
      <4> QED
        BY <4>3, <4>4
    <3> QED
      BY <2>4, <3>2, <3>3
  <2>8. Unrecorded' = Unrecorded
    <3>1. c \notin Unrecorded
      BY <2>2 DEF Unrecorded
    <3> QED
      BY <2>1, <2>2, <3>1, UnrecordedMoves
  <2>9. row'.count = row.count /\ row'.state = "half_open"
    BY <2>1, <2>3 DEF CircuitTypeOK
  <2> QED
    BY <2>2, <2>3, <2>6, <2>7, <2>8, <2>9 DEF CircuitInv, OpenIsEarned, EvidenceSuffices
<1> QED
  BY <1>1, <1>2, <1>3 DEF TakeProbe, PassUnheard

LEMMA CallEndKeeps ==
    ASSUME CircuitInv, NEW c \in Calls,
           Succeed(c) \/ Unjudged(c) \/ CallDies(c) \/ Fail(c)
    PROVE  CircuitInv'
<1>1. CircuitTypeOK /\ faults' \in 0 .. MaxFaults
  BY FaultTyped DEF CircuitInv, Succeed, Unjudged, CallDies, Fail
<1>2. CASE Succeed(c) \/ Unjudged(c) \/ CallDies(c)
  <2>1. \E label \in {"idle", "success"} : Goto(c, label)
    BY <1>2 DEF Succeed, Unjudged, CallDies
  <2> QED
    BY <1>1, <1>2, <2>1, QuietMove DEF Succeed, Unjudged, CallDies, CircuitTypeOK
<1>3. CASE Fail(c)
  <2>1. /\ Goto(c, "failure") /\ pc[c] = "calling" /\ EndProbe(c) /\ row' = row
        /\ evidence' = Capped(evidence + 1) /\ clean' = clean /\ spans' = spans /\ UNCHANGED far
    BY <1>3 DEF Fail
  <2>2. evidence' \in 0 .. FAILURE_THRESHOLD
    BY <1>1, <2>1, BreakerAssumption DEF Capped, CircuitTypeOK
  <2>3. CircuitTypeOK'
    <3>1. RowTyped(row') /\ probing' \in [Calls -> Probes]
      BY <1>1, <2>1, EndProbeTyped
    <3>2. clean' \in [Calls -> BOOLEAN] /\ spans' \in [Calls -> BOOLEAN] /\ "failure" \in Labels
      BY <1>1, <2>1 DEF CircuitTypeOK, Labels
    <3> QED
      BY <1>1, <2>1, <2>2, <3>1, <3>2, StillTyped
  <2>4. Cardinality(Unrecorded') = Cardinality(Unrecorded) + 1 /\ Cardinality(Unrecorded) \in Nat
    BY <1>1, <2>1, UnrecordedMoves DEF Unrecorded
  <2>5. EvidenceSuffices' /\ (evidence = FAILURE_THRESHOLD => evidence' = FAILURE_THRESHOLD)
    BY <1>1, <2>1, <2>4, BreakerAssumption
    DEF CircuitInv, EvidenceSuffices, Capped, CircuitTypeOK
  <2>6. LeaseIsInRow' /\ OneProbePerOpening'
    BY <1>1, <2>1 DEF CircuitInv, CircuitTypeOK, LeaseIsInRow, OneProbePerOpening, EndProbe, NoProbe
  <2> QED
    BY <2>1, <2>3, <2>5, <2>6 DEF CircuitInv, OpenIsEarned
<1> QED
  BY <1>2, <1>3

LEMMA SuccessKeeps ==
    ASSUME CircuitInv, NEW c \in Calls, WriteSuccess(c) PROVE CircuitInv'
<1>1. CircuitTypeOK /\ faults' \in 0 .. MaxFaults
  BY FaultTyped DEF CircuitInv, WriteSuccess
<1>2. /\ pc[c] = "success" /\ Goto(c, "idle") /\ clean' = clean /\ spans' = spans
      /\ UNCHANGED far /\ probing' = probing
  BY DEF WriteSuccess
<1>3. CASE row' # Closed
  BY <1>1, <1>2, <1>3, QuietMove DEF WriteSuccess, CircuitTypeOK
<1>4. CASE row' = Closed
  <2>1. evidence' = Capped(Cardinality(Unrecorded)) /\ Unrecorded' = Unrecorded
        /\ Cardinality(Unrecorded) \in Nat
    <3>1. c \notin Unrecorded
      BY <1>2 DEF Unrecorded
    <3>2. Unrecorded' = Unrecorded /\ Cardinality(Unrecorded) \in Nat
      BY <1>1, <1>2, <3>1, UnrecordedMoves
    <3> QED
      BY <1>4, <3>2 DEF WriteSuccess
  <2>2. /\ row'.state \in {"none", "closed"} /\ row'.count = 0
        /\ row' \in Rows
        /\ row'.cooling > 0 => row'.state = "open"
        /\ row'.lease > 0 => row'.state = "half_open"
    BY <1>1, <1>4, BreakerAssumption DEF Closed, NoRow, CircuitInv, CircuitTypeOK, Rows
  <2>3. evidence' \in 0 .. FAILURE_THRESHOLD
    BY <2>1, BreakerAssumption DEF Capped
  <2>4. CircuitTypeOK'
    <3>1. clean' \in [Calls -> BOOLEAN] /\ spans' \in [Calls -> BOOLEAN] /\ "idle" \in Labels
      BY <1>1, <1>2 DEF CircuitTypeOK, Labels
    <3>2. RowTyped(row') /\ probing' \in [Calls -> Probes]
      BY <1>1, <1>2, <2>2, EndProbeTyped DEF RowTyped
    <3> QED
      BY <1>1, <1>2, <2>3, <3>1, <3>2, StillTyped
  <2>5. EvidenceSuffices'
    BY <2>1, <2>2, BreakerAssumption DEF EvidenceSuffices, Capped
  <2>6. LeaseIsInRow' /\ OneProbePerOpening'
    BY <1>2, <2>2 DEF CircuitInv, LeaseIsInRow, OneProbePerOpening
  <2> QED
    BY <2>2, <2>4, <2>5, <2>6 DEF CircuitInv, OpenIsEarned
<1> QED
  BY <1>3, <1>4

\* The row as a failure leaves it: what it counts, and that whatever opens
\* takes the probes before it out of the last opening.
LEMMA FailureKeeps ==
    ASSUME CircuitInv, NEW c \in Calls, WriteFailure(c) \/ Insert(c) PROVE CircuitInv'
<1>1. CircuitTypeOK /\ faults' \in 0 .. MaxFaults
  BY FaultTyped DEF CircuitInv, WriteFailure, Insert
<1>2. /\ c \in Unrecorded /\ clean' = clean /\ spans' = spans
      /\ UNCHANGED far /\ evidence' = evidence /\ probing' = Outlived
  BY DEF WriteFailure, Insert, Unrecorded
<1>3. PICK label \in {"idle", "insert"} : Goto(c, label)
  BY DEF WriteFailure, Insert
<1>4. \/ row' = row
      \/ label = "idle" /\ row.state # "none" /\ row' = Counted
      \/ label = "idle" /\ row.state = "none" /\ row' = First
  <2>1. CASE Insert(c)
    BY <2>1, <1>1, <1>3 DEF Insert, Goto, CircuitTypeOK
  <2>2. CASE WriteFailure(c)
    BY <2>2, <1>1, <1>3 DEF WriteFailure, Goto, CircuitTypeOK
  <2> QED
    BY <2>1, <2>2
<1>5. probing' \in [Calls -> [lease : 0 .. PROBE_LEASE, last : BOOLEAN]]
  BY <1>1, <1>2 DEF Outlived, CircuitTypeOK
<1>6. \A d \in Calls :
        /\ probing'[d].lease = probing[d].lease
        /\ probing'[d].last => probing[d].last /\ ~Reopened
  BY <1>1, <1>2 DEF Outlived, CircuitTypeOK
<1>7. /\ Cardinality(Unrecorded) \in Nat \ {0}
      /\ label = "idle" => Cardinality(Unrecorded') = Cardinality(Unrecorded) - 1
      /\ label = "insert" => Unrecorded' = Unrecorded
  BY <1>1, <1>2, <1>3, UnrecordedMoves
<1>11. RowTyped(row') => CircuitTypeOK'
  <2>1. /\ clean' \in [Calls -> BOOLEAN] /\ spans' \in [Calls -> BOOLEAN] /\ label \in Labels
        /\ evidence' \in 0 .. FAILURE_THRESHOLD
    BY <1>1, <1>2 DEF CircuitTypeOK, Labels
  <2> QED
    BY <1>1, <1>2, <1>3, <1>5, <2>1, StillTyped DEF Probes
<1>8. CASE row' = row
  <2>1. CircuitTypeOK'
    BY <1>1, <1>8, <1>11, EndProbeTyped
  <2>2. LeaseIsInRow' /\ OneProbePerOpening'
    BY <1>6, <1>8 DEF CircuitInv, LeaseIsInRow, OneProbePerOpening
  <2>3. EvidenceSuffices'
    BY <1>1, <1>2, <1>3, <1>7, <1>8 DEF CircuitInv, EvidenceSuffices, CircuitTypeOK
  <2> QED
    BY <1>2, <1>8, <2>1, <2>2, <2>3 DEF CircuitInv, OpenIsEarned
<1>9. CASE label = "idle" /\ row.state # "none" /\ row' = Counted
  <2>1. PICK n \in 1 .. FAILURE_THRESHOLD + 1 :
          /\ n <= row.count + 1
          /\ n = row.count + 1 \/ n >= FAILURE_THRESHOLD
          /\ row' = [row EXCEPT !.count = n, !.lease = 0,
                       !.state = IF n >= FAILURE_THRESHOLD THEN "open" ELSE @,
                       !.cooling = IF n >= FAILURE_THRESHOLD THEN OPEN_COOLDOWN ELSE @]
    <3>1. row.count \in 0 .. FAILURE_THRESHOLD + 1 /\ FAILURE_THRESHOLD \in Nat \ {0}
      BY <1>1, BreakerAssumption DEF CircuitTypeOK
    <3>2. /\ Bounded(row.count + 1) \in 1 .. FAILURE_THRESHOLD + 1
          /\ Bounded(row.count + 1) <= row.count + 1
          /\ Bounded(row.count + 1) = row.count + 1 \/ Bounded(row.count + 1) >= FAILURE_THRESHOLD
      BY <3>1 DEF Bounded
    <3> QED
      BY <1>9, <3>2 DEF Counted, Opens
  <2>2. /\ row'.count = n /\ row'.lease = 0 /\ n \in Nat
        /\ n >= FAILURE_THRESHOLD => row'.state = "open"
        /\ n < FAILURE_THRESHOLD => row'.state = row.state /\ row'.cooling = row.cooling
        /\ row' \in Rows
    <3> DEFINE s == IF n >= FAILURE_THRESHOLD THEN "open" ELSE row.state
               t == IF n >= FAILURE_THRESHOLD THEN OPEN_COOLDOWN ELSE row.cooling
    <3>1. row \in Rows /\ n \in 0 .. FAILURE_THRESHOLD + 1 /\ n \in Nat /\ FAILURE_THRESHOLD \in Nat
      BY <1>1, BreakerAssumption DEF CircuitTypeOK, Rows
    <3>2. OPEN_COOLDOWN \in 0 .. OPEN_COOLDOWN /\ 0 \in 0 .. PROBE_LEASE
      BY BreakerAssumption
    <3>3. s \in {"none", "closed", "open", "half_open"} /\ t \in 0 .. OPEN_COOLDOWN
      BY <3>1, <3>2 DEF Rows
    <3>4. row' = [row EXCEPT !.count = n, !.lease = 0, !.state = s, !.cooling = t]
      BY <2>1, <3>1 DEF Rows
    <3> HIDE DEF s, t
    <3>5. row' \in Rows /\ row'.state = s /\ row'.count = n /\ row'.cooling = t /\ row'.lease = 0
      BY <3>1, <3>2, <3>3, <3>4 DEF Rows
    <3> QED
      BY <3>1, <3>5 DEF s, t
  <2>3. CircuitTypeOK'
    <3>1. RowTyped(row')
      BY <1>1, <2>1, <2>2, EndProbeTyped, BreakerAssumption DEF RowTyped, Rows
    <3> QED
      BY <3>1, <1>11
  <2>4. n < FAILURE_THRESHOLD => row'.state = "closed" /\ row.state = "closed"
    BY <1>1, <1>9, <2>1, <2>2, BreakerAssumption DEF CircuitInv, CircuitTypeOK
  <2>5. n >= FAILURE_THRESHOLD => evidence = FAILURE_THRESHOLD
    BY <1>1, <1>7, <2>1, BreakerAssumption DEF CircuitInv, EvidenceSuffices, CircuitTypeOK
  <2>6. EvidenceSuffices'
    BY <1>1, <1>2, <1>7, <1>9, <2>1, <2>2, <2>5, BreakerAssumption
    DEF CircuitInv, EvidenceSuffices, CircuitTypeOK
  <2>7. \A d \in Calls : probing[d].last /\ probing[d].lease > 0 /\ row.state # "closed" =>
            row' # row
    BY <1>1, <1>9, <2>2 DEF CircuitInv, LeaseIsInRow, CircuitTypeOK
  <2>8. row'.state = "open" /\ row.state = "closed" => row' # row
    OBVIOUS
  <2>9. LeaseIsInRow' /\ OneProbePerOpening'
    BY <1>6, <2>2, <2>4, <2>7, <2>8, <2>1, BreakerAssumption
    DEF CircuitInv, LeaseIsInRow, OneProbePerOpening, Reopened
  <2> QED
    BY <1>2, <2>1, <2>2, <2>3, <2>4, <2>5, <2>6, <2>9, BreakerAssumption DEF CircuitInv, OpenIsEarned
<1>10. CASE label = "idle" /\ row.state = "none" /\ row' = First
  <2>1. /\ row'.count = 1 /\ row'.lease = 0
        /\ FAILURE_THRESHOLD = 1 => row'.state = "open" /\ row'.cooling = OPEN_COOLDOWN
        /\ FAILURE_THRESHOLD # 1 => row'.state = "closed" /\ row'.cooling = 0
        /\ row' \in Rows
    BY <1>10, BreakerAssumption DEF First, Opens, Rows
  <2>2. CircuitTypeOK'
    BY <1>11, <2>1, BreakerAssumption DEF RowTyped, Rows
  <2>3. row' # row /\ row.count = 0
    BY <1>10, <2>1 DEF CircuitInv
  <2>4. LeaseIsInRow' /\ OneProbePerOpening'
    BY <1>6, <2>1, <2>3 DEF CircuitInv, LeaseIsInRow, OneProbePerOpening, Reopened
  <2>5. FAILURE_THRESHOLD = 1 => evidence = FAILURE_THRESHOLD
    BY <1>1, <1>7, <2>3, BreakerAssumption DEF CircuitInv, EvidenceSuffices, CircuitTypeOK
  <2>6. EvidenceSuffices'
    BY <1>1, <1>2, <1>7, <1>10, <2>1, <2>3 DEF CircuitInv, EvidenceSuffices, CircuitTypeOK
  <2> QED
    BY <1>2, <2>1, <2>2, <2>4, <2>5, <2>6, BreakerAssumption DEF CircuitInv, OpenIsEarned
<1> QED
  BY <1>4, <1>8, <1>9, <1>10

LEMMA AroundKeeps ==
    ASSUME CircuitInv, Turn \/ TimePasses \/ UNCHANGED circuitVars PROVE CircuitInv'
<1>1. CircuitTypeOK /\ UNCHANGED <<calls, faults, evidence>>
  BY DEF CircuitInv, Turn, TimePasses, circuitVars, history
<1>2. Unrecorded' = Unrecorded
  BY <1>1 DEF Unrecorded, calls
<1>3. CASE Turn \/ UNCHANGED circuitVars
  <2>1. row' = row /\ probing' = probing
    BY <1>3 DEF Turn, circuitVars, history
  <2>2. CircuitTypeOK'
    <3>1. CASE Turn
      <4>1. turns \in 0 .. MaxTurns /\ up \in BOOLEAN /\ MaxTurns \in Nat
        BY <1>1, BreakerAssumption DEF CircuitTypeOK
      <4>2. turns' \in 0 .. MaxTurns /\ up' \in BOOLEAN
        BY <3>1, <4>1 DEF Turn
      <4> QED
        BY <1>1, <2>1, <4>2 DEF CircuitTypeOK, calls
    <3>2. CASE UNCHANGED circuitVars
      BY <1>1, <2>1, <3>2 DEF CircuitTypeOK, circuitVars, far, calls, history
    <3> QED
      BY <1>3, <3>1, <3>2
  <2> QED
    BY <1>1, <1>2, <2>1, <2>2 DEF CircuitInv, LeaseIsInRow, OneProbePerOpening, EvidenceSuffices, OpenIsEarned
<1>4. CASE TimePasses
  <2>1. /\ row' = [row EXCEPT !.cooling = Less(@), !.lease = Less(@)]
        /\ probing' = [d \in Calls |-> [probing[d] EXCEPT !.lease = Less(@)]]
        /\ UNCHANGED far
    BY <1>4 DEF TimePasses
  <2>2. /\ row'.state = row.state /\ row'.count = row.count
        /\ row'.lease = Less(row.lease) /\ row'.cooling = Less(row.cooling)
        /\ row' \in Rows
    <3>1. row \in Rows /\ row.lease \in 0 .. PROBE_LEASE /\ row.cooling \in 0 .. OPEN_COOLDOWN
      BY <1>1 DEF CircuitTypeOK, Rows
    <3>2. Less(row.lease) \in 0 .. PROBE_LEASE /\ Less(row.cooling) \in 0 .. OPEN_COOLDOWN
      BY <3>1, BreakerAssumption DEF Less
    <3> QED
      BY <2>1, <3>1, <3>2 DEF Rows
  <2>3. \A d \in Calls :
          /\ probing[d].lease \in Nat
          /\ probing'[d].lease = Less(probing[d].lease) /\ probing'[d].last = probing[d].last
    BY <1>1, <2>1, BreakerAssumption DEF CircuitTypeOK
  <2>4. probing' \in [Calls -> [lease : 0 .. PROBE_LEASE, last : BOOLEAN]]
    BY <1>1, <2>1, BreakerAssumption DEF CircuitTypeOK, Less
  <2>5. CircuitTypeOK'
    BY <1>1, <2>1, <2>2, <2>4, BreakerAssumption DEF CircuitTypeOK, Less, calls, far, Rows
  <2>6. LeaseIsInRow' /\ OneProbePerOpening'
    BY <1>1, <2>2, <2>3 DEF CircuitInv, LeaseIsInRow, OneProbePerOpening, Less
  <2> QED
    BY <1>1, <1>2, <2>2, <2>5, <2>6 DEF CircuitInv, EvidenceSuffices, OpenIsEarned
<1> QED
  BY <1>3, <1>4

\* The invariant of the circuit.
THEOREM CircuitInvariant == CircuitSpec => []CircuitInv
<1>1. CircuitInv /\ [CircuitNext]_circuitVars => CircuitInv'
  <2> SUFFICES ASSUME CircuitInv, [CircuitNext]_circuitVars PROVE CircuitInv'
    OBVIOUS
  <2>1. ASSUME NEW c \in Calls, Proceed(c) \/ PassUnheard(c) \/ Unjudged(c) \/ CallDies(c)
        PROVE  CircuitInv'
    BY <2>1, LookKeeps, LeaseKeeps, CallEndKeeps, SuccessKeeps, FailureKeeps DEF Proceed
  <2> QED
    BY <2>1, AroundKeeps DEF CircuitNext
<1> QED
  BY <1>1, CircuitStarts, PTL DEF CircuitSpec

\* Types, one probe per opening, openings that were earned.
THEOREM CircuitTypeCorrect == CircuitSpec => []CircuitTypeOK
BY CircuitInvariant, PTL DEF CircuitInv

THEOREM ProbesAreSingle == CircuitSpec => []OneProbePerOpening
BY CircuitInvariant, PTL DEF CircuitInv

THEOREM OpeningsAreEarned == CircuitSpec => []OpenIsEarned
BY CircuitInvariant, PTL DEF CircuitInv

-----------------------------------------------------------------------------

\* Every set of natural numbers that has an element has a least one.
LEMMA LeastElement ==
    ASSUME NEW T \in SUBSET Nat, T # {}
    PROVE  \E x \in T : \A y \in T : x <= y
<1> DEFINE R == OpToRel(<, Nat)
<1>1. IsWellFoundedOn(R, Nat)
  BY NatLessThanWellFounded
<1>2. R = {p \in Nat \X Nat : p[1] < p[2]}
  BY DEF OpToRel
<1> HIDE DEF R
<1>3. \E x \in T : \A y \in T : ~ (<<y, x>> \in R)
  BY <1>1, WFMin
<1>4. ASSUME NEW x \in Nat, NEW y \in Nat, ~ (<<y, x>> \in R)
      PROVE  x <= y
  BY <1>2, <1>4
<1> QED
  BY <1>3, <1>4

\* The digests of a sequence of events exist: the recursion of Chained defines a function.
Links(d, evts, t) ==
    d = [n \in 0 .. Len(evts) |->
            IF n = 0 THEN t.prev ELSE Digest(t.seq + n - 1, evts[n], d[n - 1])]

LEMMA LinksExist ==
    ASSUME NEW evts, Len(evts) \in Nat, NEW t
    PROVE  \E d : Links(d, evts, t)
<1> DEFINE Upto(d, m) ==
              d = [n \in 0 .. m |->
                    IF n = 0 THEN t.prev ELSE Digest(t.seq + n - 1, evts[n], d[n - 1])]
           T == {m \in Nat : ~\E d : Upto(d, m)}
<1>0. T \in SUBSET Nat /\ \A m \in Nat : m \in T <=> ~\E d : Upto(d, m)
  OBVIOUS
<1> HIDE DEF T, Upto
<1>1. T = {}
  <2> SUFFICES ASSUME T # {} PROVE FALSE
    OBVIOUS
  <2>1. PICK m \in T : \A k \in T : m <= k
    BY <1>0, LeastElement
  <2>2. m # 0
    <3>1. Upto([n \in 0 .. 0 |-> t.prev], 0)
      BY DEF Upto
    <3> QED
      BY <1>0, <2>1, <3>1
  <2>3. m \in Nat /\ m - 1 \in Nat /\ m - 1 \notin T
    BY <1>0, <2>1, <2>2
  <2>4. PICK d : Upto(d, m - 1)
    BY <1>0, <2>3
  <2> DEFINE D(n) == Digest(t.seq + n - 1, evts[n], d[n - 1])
             e == [n \in 0 .. m |-> IF n = m THEN D(m) ELSE d[n]]
  <2>5. \A n \in 0 .. m - 1 : d[n] = IF n = 0 THEN t.prev ELSE D(n)
    BY <2>4 DEF Upto
  <2> HIDE DEF D
  <2>6. \A n \in 0 .. m : e[n] = IF n = 0 THEN t.prev ELSE D(n)
    BY <2>2, <2>3, <2>5
  <2>7. \A n \in 0 .. m : n # 0 => e[n - 1] = d[n - 1]
    BY <2>3
  <2>8. \A n \in 0 .. m : n # 0 => D(n) = Digest(t.seq + n - 1, evts[n], e[n - 1])
    BY <2>7 DEF D
  <2>9. e = [n \in 0 .. m |->
                IF n = 0 THEN t.prev ELSE Digest(t.seq + n - 1, evts[n], e[n - 1])]
    <3>1. e = [n \in 0 .. m |-> e[n]]
      OBVIOUS
    <3> HIDE DEF e
    <3> QED
      BY <2>6, <2>8, <3>1
  <2>10. Upto(e, m)
    BY <2>9 DEF Upto
  <2> QED
    BY <1>0, <2>1, <2>10
<1>2. \E d : Upto(d, Len(evts))
  BY <1>0, <1>1
<1> QED
  BY <1>2 DEF Links, Upto

Row(evts, t, d, n) ==
    [seq |-> t.seq + n - 1, event |-> evts[n], prev |-> d[n - 1], digest |-> d[n]]

\* What Chained writes: row after row, each with the digest of the one before.
LEMMA ChainedRows ==
    ASSUME NEW evts, Len(evts) \in Nat, DOMAIN evts = 1 .. Len(evts), NEW t
    PROVE  \E d : /\ d[0] = t.prev
                  /\ \A n \in 1 .. Len(evts) :
                        d[n] = Digest(t.seq + n - 1, evts[n], d[n - 1])
                  /\ Chained(evts, t) = {Row(evts, t, d, n) : n \in 1 .. Len(evts)}
<1> DEFINE d == CHOOSE f : Links(f, evts, t)
<1>1. Links(d, evts, t)
  BY LinksExist
<1>2. Chained(evts, t) = {Row(evts, t, d, n) : n \in 1 .. Len(evts)}
  BY DEF Chained, Row, Links
<1> HIDE DEF d
<1>3. \A n \in 0 .. Len(evts) :
        d[n] = IF n = 0 THEN t.prev ELSE Digest(t.seq + n - 1, evts[n], d[n - 1])
  BY <1>1 DEF Links
<1>4. d[0] = t.prev /\ \A n \in 1 .. Len(evts) : d[n] = Digest(t.seq + n - 1, evts[n], d[n - 1])
  BY <1>3
<1> QED
  BY <1>2, <1>4

-----------------------------------------------------------------------------
IsRow(r) ==
    /\ r = [seq |-> r.seq, event |-> r.event, prev |-> r.prev, digest |-> r.digest]
    /\ r.seq \in 0 .. MaxEvents - 1 /\ r.event \in [kind : Kinds, text : Texts]

RowsTyped == IsFiniteSet(rows) /\ \A r \in rows \cup written : IsRow(r)

\* Writing ends before the rows grow old, and old rows only are altered.
InOrder ==
    /\ \A w \in Writers : writing[w] # "idle" =>
            age = 0 /\ tail[w].seq + Len(events[w]) <= MaxEvents
    /\ altered > 0 => age > 0

TailIsCurrent ==
    \A w \in Writers : writing[w] # "idle" =>
        tail[w] \in Tails /\ \A o \in Writers : writing[o] # "idle" => o = w

\* What the code has written.
OneChain ==
    /\ \A r \in written : r.digest = Digest(r.seq, r.event, r.prev)
    /\ \A r, s \in written :
        /\ r.seq = s.seq => r = s
        /\ s.seq = r.seq + 1 => s.prev = r.digest

\* What of it is there.
Intact ==
    /\ written = Signed
    /\ \A r, s \in written : \A n \in r.seq .. s.seq : \E q \in written : q.seq = n

\* No number is missing between two of them, before the run is swept.
Unbroken ==
    rows # {} =>
        \A r, s \in written : \A n \in r.seq .. s.seq : \E q \in written : q.seq = n

LegacyFirst == \A r \in rows \ Signed, s \in rows : s = r \/ s.seq > r.seq

Chain == OneChain /\ (altered = 0 => Intact) /\ Unbroken /\ LegacyFirst

JournalInv ==
    /\ JournalTypeOK /\ RowsTyped /\ InOrder
    /\ ~overlap => Chain /\ TailIsCurrent


LEMMA BatchShape ==
    ASSUME NEW kinds \in Batches
    PROVE  /\ Len(kinds) \in 0 .. MaxBatch /\ DOMAIN kinds = 1 .. Len(kinds)
           /\ \A n \in 1 .. Len(kinds) : kinds[n] \in Kinds
<1>1. PICK n \in 0 .. MaxBatch : kinds \in [1 .. n -> Kinds]
  BY DEF Batches
<1>2. n \in Nat /\ Len(kinds) = n
  BY <1>1, JournalAssumption
<1> QED
  BY <1>1, <1>2

LEMMA SmallBatches == <<>> \in Batches /\ <<"ads_mutate">> \in Batches
<1>1. 0 \in 0 .. MaxBatch /\ 1 \in 0 .. MaxBatch
  BY JournalAssumption
<1>2. <<>> \in [1 .. 0 -> Kinds] /\ <<"ads_mutate">> \in [1 .. 1 -> Kinds]
  BY DEF Kinds
<1> QED
  BY <1>1, <1>2 DEF Batches

LEMMA TailsFit ==
    ASSUME RowsTyped, NEW t \in Tails
    PROVE  t.seq \in Nat
  BY DEF RowsTyped, Tails, LastRows, IsRow

LEMMA JournalStarts == JournalInit => JournalInv
<1> SUFFICES ASSUME JournalInit PROVE JournalInv
  OBVIOUS
<1>1. ASSUME NEW r \in rows
      PROVE  IsRow(r) /\ r.digest = Unsigned /\ DOMAIN r = {"seq", "event", "prev", "digest"}
  <2>1. PICK kind \in Kinds : rows = {Legacy(kind)}
    BY <1>1 DEF JournalInit
  <2>2. r = [seq |-> 0, event |-> Event(kind), prev |-> Unsigned, digest |-> Unsigned]
    BY <1>1, <2>1 DEF Legacy
  <2>3. Event(kind) \in [kind : Kinds, text : Texts]
    BY DEF Event, Texts
  <2>4. 0 \in 0 .. MaxEvents - 1
    BY JournalAssumption
  <2> QED
    BY <2>2, <2>3, <2>4 DEF IsRow
<1>2. IsFiniteSet(rows) /\ Cardinality(rows) <= MaxEvents
  <2>1. 0 <= MaxEvents /\ 1 <= MaxEvents
    BY JournalAssumption
  <2>2. rows = {} \/ \E r : rows = {r}
    BY DEF JournalInit
  <2> QED
    BY <2>1, <2>2, FS_EmptySet, FS_Singleton
<1>3. written = {} /\ Signed = {} /\ \A r, s \in rows : s = r
  BY <1>1 DEF JournalInit, Signed
<1>4. header \in BOOLEAN
  BY DEF JournalInit
<1>5. JournalTypeOK
  <2>1. \A r \in rows \cup written :
          /\ DOMAIN r = {"seq", "event", "prev", "digest"}
          /\ r.seq \in 0 .. MaxEvents - 1 /\ r.event \in [kind : Kinds, text : Texts]
    BY <1>1, <1>3 DEF IsRow
  <2>2. DOMAIN tail = Writers /\ \A w \in Writers : tail[w].seq \in 0 .. MaxEvents
    BY JournalAssumption DEF JournalInit
  <2>3. events \in [Writers -> Batches] /\ writing \in [Writers -> {"idle", "money", "close"}]
    BY SmallBatches DEF JournalInit
  <2>4. age \in 0 .. 2 /\ altered \in 0 .. MaxAlterations
    BY JournalAssumption DEF JournalInit
  <2>6. overlap \in BOOLEAN
    BY DEF JournalInit
  <2>5. \A w \in Writers : writing[w] # "money"
    BY DEF JournalInit
  <2> QED
    BY <1>2, <1>4, <2>1, <2>2, <2>3, <2>4, <2>5, <2>6 DEF JournalTypeOK
<1>6. RowsTyped /\ InOrder /\ TailIsCurrent
  BY <1>1, <1>2 DEF JournalInit, RowsTyped, InOrder, TailIsCurrent
<1>7. Chain
  BY <1>3 DEF Chain, OneChain, Intact, Unbroken, LegacyFirst
<1> QED
  BY <1>5, <1>6, <1>7 DEF JournalInv

\* Reading the tail, giving up and growing old leave the rows alone.
LEMMA RowsStay ==
    ASSUME JournalInv, rows' = rows, written' = written, altered' = altered
    PROVE  /\ RowsTyped' /\ Tails' = Tails
           /\ Chain => Chain'
  BY DEF JournalInv, RowsTyped, IsRow, Tails, LastRows, Chain, OneChain, Intact, Unbroken,
         LegacyFirst, Signed

LEMMA ReadTailKeeps ==
    ASSUME JournalInv, NEW w \in Writers, NEW next \in {"money", "close"}, NEW kinds \in Batches,
           next = "money" => kinds = <<"ads_mutate">>, ReadTail(w, next, kinds)
    PROVE  JournalInv'
<1>1. PICK t \in Tails : t.seq + Len(kinds) <= MaxEvents /\ tail' = [tail EXCEPT ![w] = t]
  BY DEF ReadTail
<1>2. t.seq \in 0 .. MaxEvents
  BY <1>1, TailsFit, BatchShape, JournalAssumption DEF JournalInv
<1>3. JournalTypeOK'
  BY <1>1, <1>2 DEF ReadTail, JournalInv, JournalTypeOK
<1>4. RowsTyped' /\ Tails' = Tails /\ (Chain => Chain')
  BY RowsStay DEF ReadTail
<1>5. InOrder'
  BY <1>1 DEF ReadTail, JournalInv, JournalTypeOK, InOrder
<1>6. ASSUME ~overlap' PROVE TailIsCurrent'
  <2>1. \A o \in Writers : writing[o] = "idle"
    BY <1>6 DEF ReadTail
  <2> QED
    BY <1>1, <1>4, <2>1 DEF ReadTail, JournalInv, JournalTypeOK, TailIsCurrent
<1>7. ~overlap' => ~overlap
  BY DEF ReadTail
<1> QED
  BY <1>3, <1>4, <1>5, <1>6, <1>7 DEF JournalInv

LEMMA DoneKeeps ==
    ASSUME JournalInv, NEW w \in Writers, writing[w] # "idle", Done(w)
    PROVE  /\ writing' \in [Writers -> {"idle", "money", "close"}]
           /\ events' \in [Writers -> Batches]
           /\ DOMAIN tail' = Writers
           /\ \A v \in Writers :
                /\ tail'[v].seq \in 0 .. MaxEvents
                /\ writing'[v] = "money" => events'[v] = <<"ads_mutate">>
                /\ writing'[v] # "idle" =>
                     v # w /\ writing[v] # "idle" /\ tail'[v] = tail[v] /\ events'[v] = events[v]
  BY SmallBatches, JournalAssumption DEF Done, JournalInv, JournalTypeOK

LEMMA AbortKeeps ==
    ASSUME JournalInv, NEW w \in Writers, Abort(w)
    PROVE  JournalInv'
<1>1. writing[w] # "idle" /\ Done(w)
  BY DEF Abort
<1>2. JournalTypeOK'
  BY <1>1, DoneKeeps DEF Abort, JournalInv, JournalTypeOK
<1>3. RowsTyped' /\ Tails' = Tails /\ (Chain => Chain')
  BY RowsStay DEF Abort
<1>4. InOrder'
  BY <1>1, DoneKeeps DEF Abort, JournalInv, InOrder
<1>5. ~overlap => TailIsCurrent'
  BY <1>1, <1>3, DoneKeeps DEF JournalInv, TailIsCurrent
<1> QED
  BY <1>2, <1>3, <1>4, <1>5 DEF JournalInv, Abort

LEMMA GrowKeeps ==
    ASSUME JournalInv, Grow
    PROVE  JournalInv'
<1>1. JournalTypeOK'
  BY DEF Grow, JournalInv, JournalTypeOK
<1>2. RowsTyped' /\ Tails' = Tails /\ (Chain => Chain')
  BY RowsStay DEF Grow
<1>3. InOrder'
  BY DEF Grow, JournalInv, JournalTypeOK, InOrder
<1>4. TailIsCurrent'
  BY DEF Grow, TailIsCurrent
<1> QED
  BY <1>1, <1>2, <1>3, <1>4 DEF JournalInv, Grow

LEMMA PurgeKeeps ==
    ASSUME JournalInv, Purge
    PROVE  JournalInv'
<1>1. rows' = {} /\ written' = written \ rows /\ header' = FALSE /\ age > 0
  BY DEF Purge, Purged
<1>2. \A w \in Writers : writing[w] = "idle"
  BY <1>1 DEF JournalInv, InOrder
<1>3. IsFiniteSet(rows') /\ Cardinality(rows') <= MaxEvents
  BY <1>1, FS_EmptySet, JournalAssumption
<1>4. JournalTypeOK'
  BY <1>1, <1>3 DEF Purge, JournalInv, JournalTypeOK
<1>5. RowsTyped'
  BY <1>1, <1>3 DEF JournalInv, RowsTyped, IsRow
<1>6. InOrder' /\ TailIsCurrent'
  BY <1>2 DEF Purge, JournalInv, InOrder, TailIsCurrent
<1>7. Chain => Chain'
  <2>1. Signed' = {}
    BY <1>1 DEF Signed
  <2>2. altered = 0 /\ Chain => written' = {}
    BY <1>1 DEF Chain, Intact, Signed
  <2> QED
    BY <1>1, <2>1, <2>2 DEF Purge, Chain, OneChain, Intact, Unbroken, LegacyFirst
<1> QED
  BY <1>4, <1>5, <1>6, <1>7 DEF JournalInv, Purge

LEMMA NoDigestIsNull ==
    ASSUME NEW seq, NEW event, NEW prev
    PROVE  Digest(seq, event, prev) # Unsigned
  BY DEF Digest, Unsigned

\* What Chained writes, by itself: typed, signed, one chain that starts at the tail read.
LEMMA BatchIsAChain ==
    ASSUME NEW evts, Len(evts) \in Nat, DOMAIN evts = 1 .. Len(evts),
           \A n \in 1 .. Len(evts) : evts[n] \in [kind : Kinds, text : Texts],
           NEW t, t.seq \in Nat, t.seq + Len(evts) <= MaxEvents,
           NEW new, new = Chained(evts, t)
    PROVE  /\ IsFiniteSet(new)
           /\ \A x \in new :
                /\ IsRow(x) /\ x.digest # Unsigned /\ x.digest = Digest(x.seq, x.event, x.prev)
                /\ x.seq >= t.seq /\ (x.seq = t.seq => x.prev = t.prev)
                /\ \A m \in t.seq .. x.seq : \E q \in new : q.seq = m
           /\ \A x, y \in new :
                (x.seq = y.seq => x = y) /\ (y.seq = x.seq + 1 => y.prev = x.digest)
<1>2. PICK d : /\ d[0] = t.prev
               /\ \A n \in 1 .. Len(evts) :
                     d[n] = Digest(t.seq + n - 1, evts[n], d[n - 1])
               /\ new = {Row(evts, t, d, n) : n \in 1 .. Len(evts)}
  <2>1. \E d : /\ d[0] = t.prev
               /\ \A n \in 1 .. Len(evts) :
                     d[n] = Digest(t.seq + n - 1, evts[n], d[n - 1])
               /\ Chained(evts, t) = {Row(evts, t, d, n) : n \in 1 .. Len(evts)}
    BY ChainedRows
  <2> DEFINE c == Chained(evts, t)
  <2>2. c = new
    OBVIOUS
  <2> HIDE DEF c
  <2> QED
    BY <2>1, <2>2, Zenon DEF c
<1>3. ASSUME NEW n \in 1 .. Len(evts), NEW x, x = Row(evts, t, d, n)
      PROVE  /\ IsRow(x) /\ x.seq = t.seq + n - 1 /\ x.prev = d[n - 1] /\ x.digest = d[n]
             /\ x.digest = Digest(x.seq, x.event, x.prev) /\ x.digest # Unsigned
  <2>1. x = [seq |-> t.seq + n - 1, event |-> evts[n], prev |-> d[n - 1], digest |-> d[n]]
    BY <1>3 DEF Row
  <2>2. evts[n] \in [kind : Kinds, text : Texts]
    OBVIOUS
  <2>3. t.seq + n - 1 \in 0 .. MaxEvents - 1
    BY JournalAssumption
  <2>4. d[n] # Unsigned
    BY <1>2, NoDigestIsNull
  <2>5. x.event = evts[n] /\ x.seq = t.seq + n - 1 /\ x.prev = d[n - 1] /\ x.digest = d[n]
    BY <2>1
  <2>6. IsRow(x)
    BY <2>1, <2>2, <2>3, <2>5 DEF IsRow
  <2> QED
    BY <1>2, <2>4, <2>5, <2>6
<1>4. IsFiniteSet(new)
  <2> DEFINE f == [n \in 1 .. Len(evts) |-> Row(evts, t, d, n)]
  <2>1. IsFiniteSet(1 .. Len(evts))
    BY FS_Interval
  <2>2. f \in Surjection(1 .. Len(evts), new)
    BY <1>2 DEF Surjection
  <2> HIDE DEF f
  <2> QED
    BY <2>1, <2>2, FS_Surjection
<1>5. \A x \in new : \E n \in 1 .. Len(evts) : x = Row(evts, t, d, n)
  BY <1>2
<1>6. ASSUME NEW x \in new
      PROVE  /\ IsRow(x) /\ x.digest # Unsigned /\ x.digest = Digest(x.seq, x.event, x.prev)
             /\ x.seq >= t.seq /\ (x.seq = t.seq => x.prev = t.prev)
             /\ \A m \in t.seq .. x.seq : \E q \in new : q.seq = m
  <2>1. PICK n \in 1 .. Len(evts) : x = Row(evts, t, d, n)
    BY <1>5
  <2>2. x.seq = t.seq => n = 1
    BY <1>3, <2>1
  <2>3. ASSUME NEW m \in t.seq .. x.seq PROVE \E q \in new : q.seq = m
    <3> DEFINE k == m - t.seq + 1
    <3>1. k \in 1 .. Len(evts) /\ t.seq + k - 1 = m
      BY <1>3, <2>1
    <3> HIDE DEF k
    <3>2. Row(evts, t, d, k) \in new
      BY <1>2, <3>1
    <3> QED
      BY <1>3, <3>1, <3>2
  <2>4. x.seq >= t.seq /\ (x.seq = t.seq => x.prev = t.prev)
    BY <1>2, <1>3, <2>1, <2>2
  <2> QED
    BY <1>3, <2>1, <2>3, <2>4
<1>7. ASSUME NEW x \in new, NEW y \in new
      PROVE  (x.seq = y.seq => x = y) /\ (y.seq = x.seq + 1 => y.prev = x.digest)
  <2>1. PICK n \in 1 .. Len(evts), m \in 1 .. Len(evts) :
          x = Row(evts, t, d, n) /\ y = Row(evts, t, d, m)
    BY <1>5
  <2>2. (x.seq = y.seq => n = m) /\ (y.seq = x.seq + 1 => m - 1 = n)
    BY <1>3, <2>1
  <2> QED
    BY <1>3, <2>1, <2>2
<1> QED
  BY <1>4, <1>6, <1>7

\* An alteration removes signed rows and puts typed ones where they were or later.
LEMMA AlterKeeps ==
    ASSUME JournalInv, NEW gone \in SUBSET Signed, NEW put, Alter(gone, put), IsFiniteSet(put),
           \A x \in put : /\ IsRow(x) /\ x.digest # Unsigned
                          /\ \E r \in gone : x.seq >= r.seq
    PROVE  JournalInv'
<1>1. /\ rows' = (rows \ gone) \cup put /\ written' = written /\ gone \subseteq rows
      /\ age > 0 /\ altered' > 0 /\ altered' \in 0 .. MaxAlterations
      /\ Cardinality(rows') <= MaxEvents
  BY JournalAssumption DEF Alter, Signed, JournalInv, JournalTypeOK
<1>2. IsFiniteSet(rows')
  <2>1. IsFiniteSet(rows) /\ (rows \ gone) \in SUBSET rows
    BY DEF JournalInv, RowsTyped
  <2>2. IsFiniteSet(rows \ gone)
    BY <2>1, FS_Subset
  <2> QED
    BY <1>1, <2>2, FS_Union
<1>3. \A x \in rows' \cup written' : IsRow(x)
  BY <1>1 DEF JournalInv, RowsTyped
<1>4. JournalTypeOK'
  <2>1. \A x \in rows' \cup written' :
          /\ DOMAIN x = {"seq", "event", "prev", "digest"}
          /\ x.seq \in 0 .. MaxEvents - 1 /\ x.event \in [kind : Kinds, text : Texts]
    BY <1>3 DEF IsRow
  <2> QED
    BY <1>1, <2>1 DEF Alter, JournalInv, JournalTypeOK
<1>5. RowsTyped'
  BY <1>2, <1>3 DEF RowsTyped, IsRow
<1>6. InOrder' /\ TailIsCurrent'
  BY <1>1 DEF Alter, JournalInv, InOrder, TailIsCurrent
<1>7. Chain => Chain'
  <2> SUFFICES ASSUME Chain PROVE Chain'
    OBVIOUS
  <2>1. OneChain' /\ altered' # 0
    BY <1>1 DEF Chain, OneChain, JournalInv, JournalTypeOK
  <2>2. Unbroken'
    <3>1. rows' # {} => rows # {}
      BY <1>1
    <3> QED
      BY <1>1, <3>1 DEF Chain, Unbroken
  <2>3. ASSUME NEW x \in rows' \ Signed', NEW s \in rows' PROVE s = x \/ s.seq > x.seq
    <3>1. x \in rows \ Signed
      BY <1>1, <2>3 DEF Signed
    <3>2. CASE s \in rows
      BY <3>1, <3>2 DEF Chain, LegacyFirst
    <3>3. CASE s \in put
      <4>1. PICK r \in gone : s.seq >= r.seq
        BY <3>3
      <4>2. r.seq > x.seq
        BY <1>1, <3>1 DEF Chain, LegacyFirst
      <4>3. s.seq \in Nat /\ r.seq \in Nat /\ x.seq \in Nat
        BY <1>1, <1>3, <3>1, <3>3 DEF IsRow, JournalInv, RowsTyped
      <4> QED
        BY <4>1, <4>2, <4>3
    <3> QED
      BY <1>1, <2>3, <3>2, <3>3
  <2> QED
    BY <2>1, <2>2, <2>3 DEF Chain, LegacyFirst
<1> QED
  BY <1>4, <1>5, <1>6, <1>7 DEF JournalInv, Alter

\* A changed row by itself.
LEMMA ChangedFits ==
    ASSUME NEW r, IsRow(r)
    PROVE  Changed(r) \in [kind : Kinds, text : Texts]
<1>1. r.event \in [kind : Kinds, text : Texts]
  BY DEF IsRow
<1> QED
  BY <1>1 DEF Changed, Texts

LEMMA RewriteKeeps ==
    ASSUME JournalInv, Rewrite
    PROVE  JournalInv'
<1>0. PICK r \in Signed : \E digest \in {r.digest, Digest(r.seq, Changed(r), r.prev)} :
        Alter({r}, {[seq |-> r.seq, event |-> Changed(r), prev |-> r.prev, digest |-> digest]})
  BY DEF Rewrite
<1>1. PICK digest \in {r.digest, Digest(r.seq, Changed(r), r.prev)} :
        Alter({r}, {[seq |-> r.seq, event |-> Changed(r), prev |-> r.prev, digest |-> digest]})
  BY <1>0
<1> DEFINE new == [seq |-> r.seq, event |-> Changed(r), prev |-> r.prev, digest |-> digest]
<1>2. IsRow(r) /\ r.digest # Unsigned
  BY DEF JournalInv, RowsTyped, Signed
<1>3. Changed(r) \in [kind : Kinds, text : Texts]
  BY <1>2, ChangedFits
<1>4. digest # Unsigned
  BY <1>2, NoDigestIsNull
<1>5. IsRow(new) /\ new.seq = r.seq /\ new.digest # Unsigned
  BY <1>2, <1>3, <1>4 DEF IsRow
<1>6. Alter({r}, {new})
  BY <1>1
<1> HIDE DEF new
<1>7. \A x \in {new} : /\ IsRow(x) /\ x.digest # Unsigned
                       /\ \E q \in {r} : x.seq >= q.seq
  BY <1>2, <1>5 DEF IsRow
<1>8. IsFiniteSet({new}) /\ {r} \in SUBSET Signed
  BY FS_Singleton
<1> QED
  BY <1>6, <1>7, <1>8, AlterKeeps

\* Numbers without a gap between two signed rows, as verify_chain counts them.
LEMMA NoGap ==
    ASSUME RowsTyped, Numbered, NEW t \in Signed, NEW s \in Signed, NEW n \in t.seq .. s.seq
    PROVE  \E q \in Signed : q.seq = n
<1> DEFINE Missing == {m \in t.seq .. s.seq : ~\E q \in Signed : q.seq = m}
<1>1. \A q \in Signed : q.seq \in Nat
  BY DEF Signed, RowsTyped, IsRow
<1>2. Missing \in SUBSET Nat
  BY <1>1
<1>3. ASSUME Missing # {} PROVE FALSE
  <2>1. PICK m \in Missing : \A k \in Missing : m <= k
    BY <1>2, <1>3, LeastElement
  <2>2. m \in Nat /\ t.seq <= m /\ m <= s.seq /\ ~\E q \in Signed : q.seq = m
    BY <1>1, <2>1
  <2>3. m # t.seq
    BY <2>2
  <2>4. m - 1 \in t.seq .. s.seq /\ m - 1 \notin Missing
    BY <1>1, <2>1, <2>2, <2>3
  <2>5. PICK q \in Signed : q.seq = m - 1
    BY <2>4
  <2>6. m \in {r.seq : r \in Signed} \/ s.seq <= m - 1
    BY <2>2, <2>5 DEF Numbered
  <2> QED
    BY <1>1, <2>2, <2>6
<1> QED
  BY <1>3

\* What the numbers after a row have recorded, if none is missing.
LEMMA LaterFits ==
    ASSUME RowsTyped, Numbered, NEW r \in Signed, NEW last \in Signed, last.seq >= r.seq
    PROVE  Later(r, last) \in [1 .. last.seq - r.seq -> [kind : Kinds, text : Texts]]
<1>1. \A q \in Signed : q.seq \in Nat /\ q.event \in [kind : Kinds, text : Texts]
  BY DEF Signed, RowsTyped, IsRow
<1>2. ASSUME NEW n \in 1 .. last.seq - r.seq
      PROVE  (CHOOSE s \in Signed : s.seq = r.seq + n).event \in [kind : Kinds, text : Texts]
  <2>1. r.seq + n \in r.seq .. last.seq
    BY <1>1
  <2>2. \E s \in Signed : s.seq = r.seq + n
    BY <2>1, NoGap
  <2> QED
    BY <1>1, <2>2
<1> QED
  BY <1>2 DEF Later

LEMMA SignAnewKeeps ==
    ASSUME JournalInv, SignAnew
    PROVE  JournalInv'
<1>1. PICK r \in Signed, last \in Signed :
        /\ \A s \in Signed : s.seq <= last.seq
        /\ \E first \in {<<>>, <<Changed(r)>>} :
            Alter({s \in Signed : s.seq >= r.seq},
                  Chained(first \o Later(r, last), [seq |-> r.seq, prev |-> r.prev]))
  BY DEF SignAnew
<1>2. PICK first \in {<<>>, <<Changed(r)>>} :
        Alter({s \in Signed : s.seq >= r.seq},
              Chained(first \o Later(r, last), [seq |-> r.seq, prev |-> r.prev]))
  BY <1>1
<1> DEFINE Ev == [kind : Kinds, text : Texts]
           gone == {s \in Signed : s.seq >= r.seq}
           later == Later(r, last)
           evts == first \o later
           t == [seq |-> r.seq, prev |-> r.prev]
           put == Chained(evts, t)
<1>3. Numbered /\ RowsTyped /\ IsRow(r) /\ IsRow(last)
  BY DEF SignAnew, JournalInv, RowsTyped, Signed
<1>4. /\ r.seq \in Nat /\ last.seq \in Nat /\ r.seq <= last.seq /\ last.seq + 1 <= MaxEvents
      /\ MaxEvents \in Nat
  BY <1>1, <1>3, JournalAssumption DEF IsRow
<1>5. later \in [1 .. last.seq - r.seq -> Ev]
  BY <1>3, <1>4, LaterFits
<1>6. Changed(r) \in Ev
  BY <1>3, ChangedFits
<1> HIDE DEF Ev, later
<1>7. later \in Seq(Ev) /\ Len(later) = last.seq - r.seq
  BY <1>4, <1>5
<1>8. first \in Seq(Ev) /\ (Len(first) = 0 \/ Len(first) = 1)
  <2> DEFINE e == Changed(r)
  <2>1. e \in Ev /\ first \in {<<>>, <<e>>}
    BY <1>6
  <2> HIDE DEF e
  <2>2. CASE first = <<>>
    BY <2>2
  <2>3. CASE first = <<e>>
    BY <2>1, <2>3
  <2> QED
    BY <2>1, <2>2, <2>3
<1>9. evts \in Seq(Ev) /\ Len(evts) = Len(first) + Len(later)
  BY <1>7, <1>8
<1> HIDE DEF evts
<1>10. /\ Len(evts) \in Nat /\ DOMAIN evts = 1 .. Len(evts)
       /\ \A n \in 1 .. Len(evts) : evts[n] \in Ev
  BY <1>9
<1>11. t.seq = r.seq /\ t.seq + Len(evts) <= MaxEvents
  <2>1. t.seq = r.seq
    OBVIOUS
  <2> HIDE DEF t
  <2>2. Len(evts) = Len(first) + (last.seq - r.seq)
    BY <1>7, <1>9
  <2>3. CASE Len(first) = 0
    BY <1>4, <2>1, <2>2, <2>3
  <2>4. CASE Len(first) = 1
    BY <1>4, <2>1, <2>2, <2>4
  <2> QED
    BY <1>8, <2>3, <2>4
<1>12. Alter(gone, put)
  BY <1>2 DEF evts, later
<1>13. /\ IsFiniteSet(put)
       /\ \A x \in put : IsRow(x) /\ x.digest # Unsigned /\ x.seq >= r.seq
  <2>1. put = Chained(evts, t)
    OBVIOUS
  <2> HIDE DEF put, t
  <2> QED
    BY <1>4, <1>10, <1>11, <2>1, BatchIsAChain DEF Ev
<1> HIDE DEF put
<1>14. r \in gone /\ gone \in SUBSET Signed
  BY <1>4
<1>15. \A x \in put : /\ IsRow(x) /\ x.digest # Unsigned
                      /\ \E q \in gone : x.seq >= q.seq
  BY <1>13, <1>14
<1> HIDE DEF gone
<1> QED
  BY <1>12, <1>13, <1>14, <1>15, AlterKeeps

LEMMA AlterationsKeep ==
    ASSUME JournalInv, CutOut \/ Rewrite \/ SignAnew
    PROVE  JournalInv'
<1>1. CASE CutOut
  <2>1. PICK r \in Signed : Alter({r}, {})
    BY <1>1 DEF CutOut
  <2> QED
    BY <2>1, AlterKeeps, FS_EmptySet
<1> QED
  BY <1>1, RewriteKeeps, SignAnewKeeps

\* What the tail of a chain says: the number after all of them, and the digest
\* of the last row that carries one.
LEMMA TailOfTheChain ==
    ASSUME RowsTyped, OneChain, Intact, LegacyFirst, NEW t \in Tails
    PROVE  /\ \A s \in rows : s.seq < t.seq
           /\ \A s \in written : s.seq = t.seq - 1 => t.prev = s.digest
           /\ written # {} => \E s \in written : s.seq = t.seq - 1
<1>1. CASE rows = {}
  BY <1>1 DEF Intact, Signed
<1>2. CASE rows # {}
  <2>1. PICK r \in LastRows :
          t = [seq |-> r.seq + 1, prev |-> IF r.digest = Unsigned THEN Genesis ELSE r.digest]
    BY <1>2 DEF Tails
  <2>2. r \in rows /\ r.seq \in Nat /\ \A s \in rows : s.seq \in Nat /\ s.seq <= r.seq
    BY <2>1 DEF LastRows, RowsTyped, IsRow
  <2>3. CASE r \in Signed
    <3>1. r \in written /\ t.prev = r.digest /\ t.seq - 1 = r.seq
      BY <2>1, <2>2, <2>3 DEF Intact, Signed
    <3> QED
      BY <2>1, <2>2, <3>1 DEF OneChain
  <2>4. CASE r \notin Signed
    <3>1. \A s \in rows : s = r
      BY <2>2, <2>4 DEF LegacyFirst
    <3>2. written = {}
      BY <2>4, <3>1 DEF Intact, Signed
    <3> QED
      BY <2>1, <2>2, <3>1, <3>2
  <2> QED
    BY <2>3, <2>4
<1> QED
  BY <1>1, <1>2

LEMMA RecordedFits ==
    ASSUME NEW kinds \in Batches
    PROVE  /\ Len(Recorded(kinds)) = Len(kinds) /\ Len(kinds) \in Nat
           /\ DOMAIN Recorded(kinds) = 1 .. Len(kinds)
           /\ \A n \in 1 .. Len(kinds) : Recorded(kinds)[n] \in [kind : Kinds, text : Texts]
<1>1. /\ Len(kinds) \in Nat /\ DOMAIN kinds = 1 .. Len(kinds)
      /\ \A n \in 1 .. Len(kinds) : kinds[n] \in Kinds
  BY BatchShape, JournalAssumption
<1>2. Recorded(kinds) = [n \in 1 .. Len(kinds) |-> Event(kinds[n])]
  BY <1>1 DEF Recorded
<1>3. \A n \in 1 .. Len(kinds) : Event(kinds[n]) \in [kind : Kinds, text : Texts]
  BY <1>1 DEF Event, Texts
<1> QED
  BY <1>1, <1>2, <1>3

LEMMA CommitKeeps ==
    ASSUME JournalInv, NEW w \in Writers, Commit(w)
    PROVE  JournalInv'
<1> DEFINE t == tail[w]
           evts == Recorded(events[w])
           new == Chained(evts, t)
<1>1. /\ writing[w] # "idle" /\ Done(w)
      /\ rows' = rows \cup new /\ written' = written \cup new
      /\ Cardinality(rows') <= MaxEvents
      /\ header' = (header \/ writing[w] = "close")
      /\ age' = age /\ altered' = altered /\ overlap' = overlap
  BY DEF Commit
<1>2. /\ events[w] \in Batches /\ t.seq \in Nat /\ t.seq + Len(events[w]) <= MaxEvents
      /\ age = 0 /\ altered = 0
  BY <1>1, JournalAssumption DEF JournalInv, JournalTypeOK, InOrder
<1> HIDE DEF t
<1>3. new = Chained(evts, t)
  OBVIOUS
<1>11. /\ Len(evts) \in Nat /\ DOMAIN evts = 1 .. Len(evts) /\ Len(evts) = Len(events[w])
       /\ \A n \in 1 .. Len(evts) : evts[n] \in [kind : Kinds, text : Texts]
  BY <1>2, RecordedFits
<1> HIDE DEF evts
<1> HIDE DEF new
<1>4. /\ IsFiniteSet(new)
      /\ \A x \in new :
           /\ IsRow(x) /\ x.digest # Unsigned /\ x.digest = Digest(x.seq, x.event, x.prev)
           /\ x.seq >= t.seq /\ (x.seq = t.seq => x.prev = t.prev)
           /\ \A m \in t.seq .. x.seq : \E q \in new : q.seq = m
      /\ \A x, y \in new :
           (x.seq = y.seq => x = y) /\ (y.seq = x.seq + 1 => y.prev = x.digest)
  BY <1>2, <1>3, <1>11, BatchIsAChain
<1>5. \A x \in rows' \cup written' : IsRow(x)
  BY <1>1, <1>4 DEF JournalInv, RowsTyped
<1>6. IsFiniteSet(rows')
  BY <1>1, <1>4, FS_Union DEF JournalInv, RowsTyped
<1>7. RowsTyped'
  BY <1>5, <1>6 DEF RowsTyped, IsRow
<1>8. JournalTypeOK'
  <2>1. \A x \in rows' \cup written' :
          /\ DOMAIN x = {"seq", "event", "prev", "digest"}
          /\ x.seq \in 0 .. MaxEvents - 1 /\ x.event \in [kind : Kinds, text : Texts]
    BY <1>5 DEF IsRow
  <2>2. header' \in BOOLEAN /\ overlap' \in BOOLEAN
    BY <1>1 DEF JournalInv, JournalTypeOK
  <2> QED
    BY <1>1, <2>1, <2>2, DoneKeeps DEF JournalInv, JournalTypeOK
<1>9. InOrder'
  BY <1>1, DoneKeeps DEF JournalInv, InOrder
<1>10. ASSUME ~overlap PROVE Chain' /\ TailIsCurrent'
  <2>1. RowsTyped /\ Chain /\ Intact /\ t \in Tails
    BY <1>1, <1>2, <1>10 DEF JournalInv, Chain, TailIsCurrent, t
  <2>2. /\ \A s \in rows : s.seq < t.seq
        /\ \A s \in written : s.seq = t.seq - 1 => t.prev = s.digest
        /\ written # {} => \E s \in written : s.seq = t.seq - 1
    BY <2>1, TailOfTheChain DEF Chain
  <2>3. written = Signed /\ (\A s \in written : s \in rows) /\ \A x \in rows' \cup written' : x.seq \in Nat
    BY <1>5, <2>1 DEF Intact, Signed, IsRow
  <2>4. \A s \in written : s.seq < t.seq
    BY <2>2, <2>3
  <2>5. ASSUME NEW r \in written', NEW s \in written'
        PROVE  (r.seq = s.seq => r = s) /\ (s.seq = r.seq + 1 => s.prev = r.digest)
    <3>1. r.seq \in Nat /\ s.seq \in Nat
      BY <2>3
    <3>2. CASE r \in written /\ s \in written
      BY <2>1, <3>2 DEF Chain, OneChain
    <3>3. CASE r \in written /\ s \in new
      <4>1. r.seq < t.seq /\ s.seq >= t.seq
        BY <1>4, <2>4, <3>3
      <4>2. s.seq = r.seq + 1 => s.seq = t.seq /\ r.seq = t.seq - 1
        BY <1>2, <3>1, <4>1
      <4>3. s.seq = r.seq + 1 => s.prev = r.digest
        BY <1>4, <2>2, <3>3, <4>2
      <4> QED
        BY <1>2, <3>1, <4>1, <4>3
    <3>4. CASE r \in new /\ s \in written
      <4>1. s.seq < t.seq /\ r.seq >= t.seq
        BY <1>4, <2>4, <3>4
      <4> QED
        BY <1>2, <3>1, <4>1
    <3>5. CASE r \in new /\ s \in new
      BY <1>4, <3>5
    <3> QED
      BY <1>1, <3>2, <3>3, <3>4, <3>5
  <2>6. OneChain'
    <3>1. \A r \in written' : r.digest = Digest(r.seq, r.event, r.prev)
      BY <1>1, <1>4, <2>1 DEF Chain, OneChain
    <3> QED
      BY <2>5, <3>1 DEF OneChain
  <2>7. Signed' = Signed \cup new
    BY <1>1, <1>4 DEF Signed
  <2>8. ASSUME NEW r \in written', NEW s \in written', NEW n \in r.seq .. s.seq
        PROVE  \E q \in written' : q.seq = n
    <3>1. r.seq \in Nat /\ s.seq \in Nat /\ n \in Nat /\ r.seq <= n /\ n <= s.seq
      BY <2>3
    <3>2. CASE n < t.seq
      <4>1. r \in written
        BY <1>1, <1>2, <1>4, <3>1, <3>2
      <4>2. PICK last \in written : last.seq = t.seq - 1
        BY <2>2, <4>1
      <4>3. n \in r.seq .. last.seq
        BY <1>2, <3>1, <3>2, <4>2
      <4> QED
        BY <1>1, <2>1, <4>1, <4>2, <4>3 DEF Intact
    <3>3. CASE n >= t.seq
      <4>1. s \in new
        BY <1>1, <1>2, <2>4, <3>1, <3>3
      <4>2. n \in t.seq .. s.seq
        BY <1>2, <3>1, <3>3
      <4> QED
        BY <1>1, <1>4, <4>1, <4>2
    <3> QED
      BY <1>2, <3>1, <3>2, <3>3
  <2>9. Intact'
    BY <1>1, <2>3, <2>7, <2>8 DEF Intact
  <2>10. Unbroken'
    BY <2>9 DEF Intact, Unbroken
  <2>11. ASSUME NEW r \in rows' \ Signed', NEW s \in rows' PROVE s = r \/ s.seq > r.seq
    <3>1. r \in rows \ Signed
      BY <1>1, <1>4, <2>7, <2>11
    <3>2. CASE s \in rows
      BY <2>1, <3>1, <3>2 DEF Chain, LegacyFirst
    <3>3. CASE s \in new
      <4>1. r.seq < t.seq /\ s.seq >= t.seq /\ r.seq \in Nat /\ s.seq \in Nat
        BY <1>4, <2>2, <2>3, <3>1, <3>3, <1>1
      <4> QED
        BY <1>2, <4>1
    <3> QED
      BY <1>1, <3>2, <3>3
  <2>12. TailIsCurrent'
    <3>1. \A v \in Writers : writing'[v] = "idle"
      BY <1>1, <1>10, DoneKeeps DEF JournalInv, TailIsCurrent
    <3> QED
      BY <3>1 DEF TailIsCurrent
  <2> QED
    BY <2>6, <2>9, <2>10, <2>11, <2>12 DEF Chain, LegacyFirst
<1> QED
  BY <1>1, <1>7, <1>8, <1>9, <1>10 DEF JournalInv

LEMMA JournalMoves == JournalInv /\ [JournalNext]_journalVars => JournalInv'
<1> SUFFICES ASSUME JournalInv, [JournalNext]_journalVars PROVE JournalInv'
  OBVIOUS
<1>1. ASSUME NEW w \in Writers, MoneyEvent(w) \/ CloseScope(w) \/ Commit(w) \/ Abort(w)
      PROVE  JournalInv'
  <2>1. CASE MoneyEvent(w)
    BY <2>1, SmallBatches, ReadTailKeeps DEF MoneyEvent
  <2>2. CASE CloseScope(w)
    BY <2>2, ReadTailKeeps DEF CloseScope
  <2>3. CASE Commit(w)
    BY <2>3, CommitKeeps
  <2>4. CASE Abort(w)
    BY <2>4, AbortKeeps
  <2> QED
    BY <1>1, <2>1, <2>2, <2>3, <2>4
<1>2. CASE Purge
  BY <1>2, PurgeKeeps
<1>3. CASE Grow
  BY <1>3, GrowKeeps
<1>4. CASE CutOut \/ Rewrite \/ SignAnew
  BY <1>4, AlterationsKeep
<1>5. CASE UNCHANGED journalVars
  <2>1. /\ rows' = rows /\ header' = header /\ writing' = writing /\ tail' = tail
        /\ events' = events /\ age' = age /\ altered' = altered /\ written' = written
        /\ overlap' = overlap
    BY <1>5 DEF journalVars
  <2>2. JournalTypeOK' /\ InOrder'
    BY <2>1 DEF JournalInv, JournalTypeOK, InOrder
  <2>3. RowsTyped' /\ Tails' = Tails /\ (Chain => Chain')
    BY <2>1, RowsStay
  <2>4. TailIsCurrent => TailIsCurrent'
    BY <2>1, <2>3 DEF TailIsCurrent
  <2> QED
    BY <2>1, <2>2, <2>3, <2>4 DEF JournalInv
<1> QED
  BY <1>1, <1>2, <1>3, <1>4, <1>5 DEF JournalNext

\* The invariant of the journal, and with it the types of its rows and writers.
THEOREM JournalInvariant == JournalSpec => []JournalInv
<1>1. JournalInit => JournalInv
  BY JournalStarts
<1>2. JournalInv /\ [JournalNext]_journalVars => JournalInv'
  BY JournalMoves
<1> QED
  BY <1>1, <1>2, PTL DEF JournalSpec

\* Rows stay within the bounds, and an open money event is one ads_mutate.
THEOREM JournalTypeCorrect == JournalSpec => []JournalTypeOK
<1>1. JournalInv => JournalTypeOK
  BY DEF JournalInv
<1> QED
  BY <1>1, JournalInvariant, PTL

\* What the code alone has written and swept verifies (observe.py,
\* record_money_event, _persist_run, verify_chain), for any number of events,
\* batches and failures, unless two transactions of the run overlapped.
THEOREM IntactJournalVerifies == JournalSpec => []IntactVerifies
<1>1. ASSUME JournalInv PROVE IntactVerifies
  <2> SUFFICES ASSUME altered = 0, ~overlap PROVE Verifies
    BY DEF IntactVerifies
  <2>1. RowsTyped /\ OneChain /\ Intact /\ LegacyFirst
    BY <1>1 DEF JournalInv, Chain
  <2>2. IsFiniteSet(Signed) /\ \A r \in Signed : r.seq \in Nat
    BY <2>1, FS_Subset DEF Signed, RowsTyped, IsRow
  <2>3. UnsignedFirst
    BY <2>1 DEF UnsignedFirst, LegacyFirst, Signed
  <2>4. Linked /\ Genuine
    BY <2>1 DEF Linked, Genuine, OneChain, Intact
  <2>5. Numbered
    <3> DEFINE seqs == {r.seq : r \in Signed}
               f == [r \in Signed |-> r.seq]
    <3>1. f \in Surjection(Signed, seqs)
      BY DEF Surjection
    <3>2. f \in Injection(Signed, seqs)
      <4>1. \A r, s \in Signed : r.seq = s.seq => r = s
        BY <2>1 DEF OneChain, Intact
      <4>2. f \in [Signed -> seqs] /\ \A r, s \in Signed : f[r] = f[s] => r = s
        BY <4>1
      <4> HIDE DEF f
      <4> QED
        BY <4>2 DEF Injection, IsInjective
    <3>3. \A n \in seqs : n + 1 \in seqs \/ \A m \in seqs : m <= n
      <4> SUFFICES ASSUME NEW r \in Signed, NEW s \in Signed, ~ (s.seq <= r.seq)
                   PROVE  \E q \in Signed : q.seq = r.seq + 1
        OBVIOUS
      <4>1. r.seq + 1 \in r.seq .. s.seq
        BY <2>2
      <4> QED
        BY <2>1, <4>1 DEF Intact
    <3> HIDE DEF f
    <3>4. Cardinality(seqs) = Cardinality(Signed)
      BY <2>2, <3>1, <3>2, FS_Surjection
    <3> QED
      BY <3>3, <3>4 DEF Numbered
  <2> QED
    BY <2>3, <2>4, <2>5 DEF Verifies
<1> QED
  BY <1>1, JournalInvariant, PTL

\* In a journal that verifies, a row that is as the code wrote it vouches for all
\* that was written before it, up to rows missing at the beginning (observe.py,
\* verify_chain), however often rows were changed, removed and signed anew.
THEOREM AlterationsAreSeen == JournalSpec => []AlterationIsSeen
<1>1. ASSUME JournalInv PROVE AlterationIsSeen
  <2> SUFFICES ASSUME Verifies, ~overlap, NEW r \in written, NEW s \in Signed \cap written,
                      s.seq > r.seq, NEW t \in Signed, ~ (t.seq > r.seq)
               PROVE  r \in rows
    BY DEF AlterationIsSeen
  <2>1. RowsTyped /\ OneChain /\ Unbroken /\ Numbered /\ Linked /\ Genuine
    BY <1>1 DEF JournalInv, Chain, Verifies
  <2>2. /\ \A x \in Signed : x \in rows /\ IsRow(x) /\ x.seq \in Nat
        /\ \A x \in written : IsRow(x) /\ x.seq \in Nat
    BY <2>1 DEF RowsTyped, Signed, IsRow
  <2> DEFINE Vouched == {n \in r.seq .. s.seq : \E q \in Signed \cap written : q.seq = n}
  <2>3. Vouched \in SUBSET Nat /\ s.seq \in Vouched
    BY <2>2
  <2>4. PICK m \in Vouched : \A k \in Vouched : m <= k
    BY <2>3, LeastElement
  <2>5. PICK w \in Signed \cap written : w.seq = m
    BY <2>4
  <2>6. m \in r.seq .. s.seq
    BY <2>4
  <2>7. CASE m = r.seq
    BY <2>1, <2>2, <2>5, <2>7 DEF OneChain
  <2>8. CASE m # r.seq
    <3>1. m - 1 \in r.seq .. s.seq /\ m - 1 \in t.seq .. s.seq /\ ~ (m <= m - 1)
      BY <2>2, <2>6, <2>8
    <3>2. m - 1 \notin Vouched
      BY <2>4, <3>1
    <3> HIDE DEF Vouched
    <3>3. PICK q \in Signed : q.seq = m - 1
      BY <2>1, <3>1, NoGap
    <3>4. PICK p \in written : p.seq = m - 1
      BY <2>1, <2>2, <3>1 DEF Unbroken
    <3>5. w.seq = q.seq + 1 /\ w.seq = p.seq + 1
      BY <2>2, <2>5, <3>3, <3>4
    <3>6. w.prev = q.digest /\ q.digest = Digest(q.seq, q.event, q.prev)
      BY <2>1, <3>5 DEF Linked, Genuine
    <3>7. w.prev = p.digest /\ p.digest = Digest(p.seq, p.event, p.prev)
      BY <2>1, <3>5 DEF OneChain
    <3>8. q.event = p.event /\ q.prev = p.prev /\ q.digest = p.digest
      BY <3>6, <3>7 DEF Digest
    <3>9. q = p
      BY <2>2, <3>3, <3>4, <3>8 DEF IsRow
    <3> QED
      BY <3>1, <3>2, <3>3, <3>4, <3>9 DEF Vouched
  <2> QED
    BY <2>7, <2>8
<1> QED
  BY <1>1, JournalInvariant, PTL
=============================================================================
