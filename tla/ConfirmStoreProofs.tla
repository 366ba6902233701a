------------------------- MODULE ConfirmStoreProofs -------------------------
(***************************************************************************)
(* Theorems about the table of proposals (ConfirmStore), for any number of  *)
(* proposals and any thresholds.                                            *)
(*                                                                         *)
(* The argument: whichever method runs, it makes one of six kinds of change *)
(* (StoreMove, lemma EveryStepIsAMove), and each invariant is shown once    *)
(* for every kind.  ExecuteConfirmedProofs uses the same lemmas: its steps  *)
(* change the table by a StoreMove or not at all.                           *)
(***************************************************************************)
EXTENDS ConfirmStore, TLAPS

\* A status change with its stamp and its audit row.
Decides(c) ==
    \/ status[c] = "pending" /\ (Decide(c, "confirmed") \/ Decide(c, "rejected"))
    \/ status[c] = "confirmed" /\ Decide(c, "failed")
    \/ /\ status[c] = "executing"
       /\ Decide(c, "applied") \/ Decide(c, "needs_review") \/ Decide(c, "failed")
    \/ status[c] = "applied" /\ Decide(c, "needs_review")

\* The reply anchor of a pending card is stamped.
Anchors(c) ==
    /\ status[c] = "pending" /\ anchor[c] = NoAnchor
    /\ \E m \in Messages \cup {NoAnchor} : Stamp(c, m)

StoreMove ==
    \/ \E c \in Proposals :
        \/ \E d \in Drafts : SaveProposal(c, d)
        \/ Anchors(c)
        \/ Decides(c)
        \/ Claim(c, draft[c].op)
        \/ Reopen(c)
    \/ Advance

-----------------------------------------------------------------------------

\* Every method of the store, and every sweep, is a move.
LEMMA EveryStepIsAMove ==
    ASSUME StoreNext
    PROVE  StoreMove
<1>1. ASSUME NEW c \in Proposals, NEW d \in Drafts, SaveProposal(c, d) PROVE StoreMove
  BY <1>1 DEF StoreMove
<1>2. ASSUME NEW c \in Proposals, NEW m \in Messages, SetCardMessageId(c, m) PROVE StoreMove
  BY <1>2 DEF StoreMove, Anchors, SetCardMessageId
<1>3. ASSUME NEW c \in Proposals, NEW a \in Actors, NEW k \in Chats, NEW m \in Messages,
             BindCard(c, a, k, m) \/ ConfirmByReply(c, a, k, m)
      PROVE  StoreMove
  BY <1>3 DEF StoreMove, Anchors, Decides, BindCard, MatchBind, ConfirmByReply,
              MatchConfirmByReply
<1>4. ASSUME NEW c \in Proposals, NEW k \in Chats, Confirm(c, k) \/ Reject(c, k)
      PROVE  StoreMove
  BY <1>4 DEF StoreMove, Decides, Confirm, MatchConfirm, Reject, MatchReject
<1>5. ASSUME NEW c \in Proposals, NEW a \in Actors, NEW k \in Chats, RejectByActor(c, k, a)
      PROVE  StoreMove
  BY <1>5 DEF StoreMove, Decides, RejectByActor, MatchReject
<1>6. ASSUME NEW c \in Proposals, NEW op \in Operations, Claim(c, op) PROVE StoreMove
  BY <1>6 DEF StoreMove, Claim, MatchClaim
<1>7. ASSUME NEW c \in Proposals, Finalize(c) \/ MarkNeedsReview(c) \/ RecordVerification(c)
      PROVE  StoreMove
  BY <1>7 DEF StoreMove, Decides, Finalize, MatchFinalize, MarkNeedsReview, MatchNeedsReview,
              RecordVerification, MatchVerification
<1>8. ASSUME NEW c \in Proposals, Reopen(c) PROVE StoreMove
  BY <1>8 DEF StoreMove
<1>9. ASSUME NEW c \in Proposals, RecordFailure(c) PROVE StoreMove
  BY <1>9 DEF StoreMove, Decides, RecordFailure, MatchRecordFailure
<1>10. ASSUME NEW c \in Proposals,
              CleanupStale(c) \/ ReconcileExecuting(c) \/ ReconcileConfirmed(c)
       PROVE  StoreMove
  BY <1>10 DEF StoreMove, Decides, CleanupStale, Reject, MatchReject, ReconcileExecuting,
               MarkNeedsReview, MatchNeedsReview, ReconcileConfirmed, MarkConfirmedFailed,
               MatchConfirmedFailed
<1>11. ASSUME Advance PROVE StoreMove
  BY <1>11 DEF StoreMove
<1> QED
  BY <1>1, <1>2, <1>3, <1>4, <1>5, <1>6, <1>7, <1>8, <1>9, <1>10, <1>11 DEF StoreNext

-----------------------------------------------------------------------------
(* Type correctness.                                                        *)

LEMMA StoreTypeInit == StoreInit => StoreTypeOK
  BY DEF StoreInit, StoreTypeOK, Statuses

LEMMA StoreTypeMove ==
    ASSUME StoreTypeOK, StoreMove
    PROVE  StoreTypeOK'
<1> USE DEF StoreTypeOK
<1>0. Age \subseteq Int /\ 0 \in Age
  BY StoreAssumption DEF Age
<1>1. ASSUME NEW c \in Proposals, NEW d \in Drafts, SaveProposal(c, d) PROVE StoreTypeOK'
  BY <1>0, <1>1 DEF SaveProposal, Statuses
<1>2. ASSUME NEW c \in Proposals, Anchors(c) PROVE StoreTypeOK'
  BY <1>2 DEF Anchors, Stamp
<1>3. ASSUME NEW c \in Proposals, Decides(c) PROVE StoreTypeOK'
  <2>1. ASSUME NEW to \in AuditStatuses \cap Statuses, Decide(c, to) PROVE StoreTypeOK'
    BY <1>0, <2>1 DEF Decide
  <2> QED
    BY <1>3, <2>1 DEF Decides, AuditStatuses, Statuses
<1>4. ASSUME NEW c \in Proposals, Claim(c, draft[c].op) PROVE StoreTypeOK'
  BY <1>0, <1>4 DEF Claim, Statuses
<1>5. ASSUME NEW c \in Proposals, Reopen(c) PROVE StoreTypeOK'
  BY <1>5 DEF Reopen, Statuses, AuditStatuses
<1>6. ASSUME Advance PROVE StoreTypeOK'
  <2>1. ASSUME NEW a \in Age \cup {Null} PROVE Older(a) \in Age \cup {Null}
    BY <2>1, StoreAssumption DEF Older, Age, Null
  <2> QED
    BY <1>6, <2>1 DEF Advance
<1> QED
  BY <1>1, <1>2, <1>3, <1>4, <1>5, <1>6 DEF StoreMove

\* The columns of the table keep their types whatever methods run.
THEOREM StoreTypeCorrect == StoreSpec => []StoreTypeOK
<1>1. StoreInit => StoreTypeOK
  BY StoreTypeInit
<1>2. StoreTypeOK /\ [StoreNext]_storeVars => StoreTypeOK'
  <2>1. CASE StoreNext
    BY <2>1, EveryStepIsAMove, StoreTypeMove
  <2>2. CASE UNCHANGED storeVars
    BY <2>2 DEF StoreTypeOK, storeVars
  <2> QED
    BY <2>1, <2>2
<1> QED
  BY <1>1, <1>2, PTL DEF StoreSpec

-----------------------------------------------------------------------------
(* The journal.                                                             *)

\* Appending a legal successor of the last entry keeps a history legal.
LEMMA HistoryGrows ==
    ASSUME NEW h \in Seq(AuditStatuses), NEW s \in AuditStatuses, LegalHistory(h),
           IF h = <<>> THEN s \in MayOpen ELSE s \in MayFollow[h[Len(h)]]
    PROVE  LegalHistory(Append(h, s))
<1> DEFINE g == Append(h, s)
<1>1. Len(g) = Len(h) + 1 /\ g[Len(h) + 1] = s /\ \A i \in 1 .. Len(h) : g[i] = h[i]
  OBVIOUS
<1>2. g # <<>> => g[1] \in MayOpen
  <2>1. CASE h = <<>>
    BY <1>1, <2>1
  <2>2. CASE h # <<>>
    <3>1. 1 \in 1 .. Len(h)
      BY <2>2
    <3> QED
      BY <1>1, <2>2, <3>1 DEF LegalHistory
  <2> QED
    BY <2>1, <2>2
<1>3. ASSUME NEW i \in 1 .. Len(g) - 1 PROVE g[i + 1] \in MayFollow[g[i]]
  <2>1. CASE i = Len(h)
    <3>1. h # <<>> /\ i \in 1 .. Len(h)
      BY <1>1, <2>1
    <3> QED
      BY <1>1, <2>1, <3>1
  <2>2. CASE i # Len(h)
    <3>1. i \in 1 .. Len(h) - 1 /\ i + 1 \in 1 .. Len(h)
      BY <1>1, <2>2
    <3> QED
      BY <1>1, <3>1 DEF LegalHistory
  <2> QED
    BY <2>1, <2>2
<1> QED
  BY <1>2, <1>3 DEF LegalHistory

\* So does the audit row of a transition, when it may follow what the journal
\* of c ends with, and the journal then ends with it.
LEMMA JournalGrows ==
    ASSUME StoreTypeOK, JournalIsHistory,
           NEW c \in Proposals, NEW s \in AuditStatuses, NEW to \in Statuses,
           journal' = [journal EXCEPT ![c] = Append(@, s)],
           status' = [status EXCEPT ![c] = to],
           IF journal[c] = <<>> THEN s \in MayOpen
                                ELSE s \in MayFollow[journal[c][Len(journal[c])]],
           s \in LastEntries[to]
    PROVE  JournalIsHistory'
<1> USE DEF StoreTypeOK
<1>1. ASSUME NEW x \in Proposals, x # c PROVE (LegalHistory(journal[x]) /\ JournalFits(x))'
  BY <1>1 DEF JournalIsHistory, LegalHistory, JournalFits
<1>2. LegalHistory(journal'[c])
  BY HistoryGrows DEF JournalIsHistory
<1>3. JournalFits(c)'
  <2>1. /\ journal'[c] # <<>>
        /\ journal'[c][Len(journal'[c])] = s
    OBVIOUS
  <2> QED
    BY <2>1 DEF JournalFits
<1> QED
  BY <1>1, <1>2, <1>3 DEF JournalIsHistory, LegalHistory

LEMMA JournalMove ==
    ASSUME StoreTypeOK, JournalIsHistory, StoreMove
    PROVE  JournalIsHistory'
<1> USE DEF StoreTypeOK
<1>1. ASSUME NEW c \in Proposals, NEW d \in Drafts, SaveProposal(c, d) PROVE JournalIsHistory'
  BY <1>1 DEF SaveProposal, MatchSave, JournalIsHistory, LegalHistory, JournalFits, LastEntries, Statuses
<1>2. ASSUME NEW c \in Proposals, Anchors(c) PROVE JournalIsHistory'
  BY <1>2 DEF Anchors, Stamp, JournalIsHistory, LegalHistory, JournalFits
<1>3. ASSUME NEW c \in Proposals, Decides(c) PROVE JournalIsHistory'
  <2>1. JournalFits(c)
    BY DEF JournalIsHistory
  <2>2. journal[c] # <<>> => journal[c][Len(journal[c])] \in AuditStatuses
    OBVIOUS
  <2>3. ASSUME NEW to \in {"confirmed", "rejected"}, status[c] = "pending", Decide(c, to)
        PROVE  JournalIsHistory'
    BY <2>1, <2>2, <2>3, JournalGrows
       DEF Decide, JournalFits, MayOpen, MayFollow, LastEntries, AuditStatuses, Statuses
  <2>4. ASSUME NEW to \in {"applied", "needs_review", "failed"},
               status[c] \in {"confirmed", "executing"}, Decide(c, to)
        PROVE  JournalIsHistory'
    BY <2>1, <2>2, <2>4, JournalGrows
       DEF Decide, JournalFits, MayOpen, MayFollow, LastEntries, AuditStatuses, Statuses
  <2>5. ASSUME status[c] = "applied", Decide(c, "needs_review")
        PROVE  JournalIsHistory'
    BY <2>1, <2>2, <2>5, JournalGrows
       DEF Decide, JournalFits, MayOpen, MayFollow, LastEntries, AuditStatuses, Statuses
  <2> QED
    BY <1>3, <2>3, <2>4, <2>5 DEF Decides
<1>4. ASSUME NEW c \in Proposals, Claim(c, draft[c].op) PROVE JournalIsHistory'
  BY <1>4 DEF Claim, MatchClaim, JournalIsHistory, LegalHistory, JournalFits, LastEntries, Statuses
<1>5. ASSUME NEW c \in Proposals, Reopen(c) PROVE JournalIsHistory'
  <2>1. JournalFits(c)
    BY DEF JournalIsHistory
  <2> QED
    BY <1>5, <2>1, JournalGrows
       DEF Reopen, MatchReopen, JournalFits, MayFollow, LastEntries, AuditStatuses, Statuses
<1>6. ASSUME Advance PROVE JournalIsHistory'
  BY <1>6 DEF Advance, JournalIsHistory, LegalHistory, JournalFits
<1> QED
  BY <1>1, <1>2, <1>3, <1>4, <1>5, <1>6 DEF StoreMove

\* The audit trail of every proposal is a history of the documented lifecycle
\* and ends where the row stands: no transition goes unrecorded or is recorded
\* without having happened.
THEOREM JournalIsTrue == StoreSpec => []JournalIsHistory
<1>1. StoreInit => JournalIsHistory
  <2>1. LegalHistory(<<>>)
    BY DEF LegalHistory
  <2> QED
    BY <2>1 DEF StoreInit, JournalIsHistory, JournalFits
<1>2. StoreTypeOK /\ JournalIsHistory /\ [StoreNext]_storeVars => JournalIsHistory'
  <2>1. ASSUME StoreTypeOK, JournalIsHistory, StoreNext PROVE JournalIsHistory'
    BY <2>1, EveryStepIsAMove, JournalMove
  <2>2. ASSUME JournalIsHistory, UNCHANGED storeVars PROVE JournalIsHistory'
    BY <2>2 DEF JournalIsHistory, LegalHistory, JournalFits, storeVars
  <2> QED
    BY <2>1, <2>2
<1> QED
  BY <1>1, <1>2, StoreTypeCorrect, PTL DEF StoreSpec

-----------------------------------------------------------------------------
(* What a step may do.                                                      *)

\* Nothing rewrites what was shown, moves an anchor or prolongs a life.
THEOREM TermsAreKept == StoreSpec => RowsKeepTheirTerms
<1>1. ASSUME StoreTypeOK, StoreMove PROVE RowKeepsItsTerms
  <2> USE DEF StoreTypeOK, RowKeepsItsTerms
  <2>0. \A x \in Proposals : created[x] \in Int
    BY <1>1, StoreAssumption DEF Age, Null
  <2>1. ASSUME NEW c \in Proposals, NEW d \in Drafts, SaveProposal(c, d)
        PROVE  RowKeepsItsTerms
    BY <1>1, <2>0, <2>1 DEF SaveProposal, MatchSave
  <2>2. ASSUME NEW c \in Proposals, Anchors(c) PROVE RowKeepsItsTerms
    BY <1>1, <2>0, <2>2 DEF Anchors, Stamp
  <2>3. ASSUME NEW c \in Proposals, Decides(c) PROVE RowKeepsItsTerms
    BY <1>1, <2>0, <2>3 DEF Decides, Decide
  <2>4. ASSUME NEW c \in Proposals, Claim(c, draft[c].op) PROVE RowKeepsItsTerms
    BY <1>1, <2>0, <2>4 DEF Claim
  <2>5. ASSUME NEW c \in Proposals, Reopen(c) PROVE RowKeepsItsTerms
    BY <1>1, <2>0, <2>5 DEF Reopen
  <2>6. ASSUME Advance PROVE RowKeepsItsTerms
    BY <1>1, <2>0, <2>6 DEF Advance, Older
  <2> QED
    BY <1>1, <2>1, <2>2, <2>3, <2>4, <2>5, <2>6 DEF StoreMove
<1>2. StoreTypeOK /\ [StoreNext]_storeVars => [RowKeepsItsTerms]_storeVars
  BY <1>1, EveryStepIsAMove
<1> QED
  BY <1>2, StoreTypeCorrect, PTL DEF StoreSpec, RowsKeepTheirTerms

\* A verdict is never revised, except that an applied one may be put in doubt.
THEOREM VerdictsHold == StoreSpec => VerdictsAreFinal
<1>1. ASSUME StoreTypeOK, StoreMove PROVE VerdictKept
  <2> USE DEF StoreTypeOK, VerdictKept
  <2>1. ASSUME NEW c \in Proposals, NEW d \in Drafts, SaveProposal(c, d) PROVE VerdictKept
    BY <1>1, <2>1 DEF SaveProposal, MatchSave
  <2>2. ASSUME NEW c \in Proposals, Anchors(c) PROVE VerdictKept
    BY <1>1, <2>2 DEF Anchors, Stamp
  <2>3. ASSUME NEW c \in Proposals, Decides(c) PROVE VerdictKept
    BY <1>1, <2>3 DEF Decides, Decide
  <2>4. ASSUME NEW c \in Proposals, Claim(c, draft[c].op) PROVE VerdictKept
    BY <1>1, <2>4 DEF Claim, MatchClaim
  <2>5. ASSUME NEW c \in Proposals, Reopen(c) PROVE VerdictKept
    BY <1>1, <2>5 DEF Reopen, MatchReopen
  <2>6. ASSUME Advance PROVE VerdictKept
    BY <1>1, <2>6 DEF Advance
  <2> QED
    BY <1>1, <2>1, <2>2, <2>3, <2>4, <2>5, <2>6 DEF StoreMove
<1>2. StoreTypeOK /\ [StoreNext]_storeVars => [VerdictKept]_storeVars
  BY <1>1, EveryStepIsAMove
<1> QED
  BY <1>2, StoreTypeCorrect, PTL DEF StoreSpec, VerdictsAreFinal

Spent(c) == status[c] \in {"executing", "applied", "failed", "needs_review"}

LEMMA SpentStays ==
    ASSUME StoreTypeOK, StoreMove, NEW c \in Proposals, Spent(c)
    PROVE  Spent(c)'
<1> USE DEF StoreTypeOK, Spent
<1>1. ASSUME NEW x \in Proposals, NEW d \in Drafts, SaveProposal(x, d) PROVE Spent(c)'
  BY <1>1 DEF SaveProposal, MatchSave
<1>2. ASSUME NEW x \in Proposals, Anchors(x) PROVE Spent(c)'
  BY <1>2 DEF Anchors, Stamp
<1>3. ASSUME NEW x \in Proposals, Decides(x) PROVE Spent(c)'
  BY <1>3 DEF Decides, Decide
<1>4. ASSUME NEW x \in Proposals, Claim(x, draft[x].op) PROVE Spent(c)'
  BY <1>4 DEF Claim, MatchClaim
<1>5. ASSUME NEW x \in Proposals, Reopen(x) PROVE Spent(c)'
  BY <1>5 DEF Reopen, MatchReopen
<1>6. ASSUME Advance PROVE Spent(c)'
  BY <1>6 DEF Advance
<1> QED
  BY <1>1, <1>2, <1>3, <1>4, <1>5, <1>6 DEF StoreMove

\* Once claimed, a proposal is never open to the humans or to a worker again:
\* reopen, which hands a consent back, and the claim exclude each other.
THEOREM ClaimsAreSpent == StoreSpec => ClaimIsSpent
<1>1. ASSUME NEW c \in Proposals
      PROVE  StoreTypeOK /\ [StoreNext]_storeVars /\ Spent(c) => Spent(c)'
  BY EveryStepIsAMove, SpentStays DEF Spent, storeVars
<1>2. ASSUME NEW c \in Proposals PROVE status[c] = "executing" => Spent(c)
  BY DEF Spent
<1>3. ASSUME NEW c \in Proposals
      PROVE  StoreSpec => [](status[c] = "executing" => []Spent(c))
  BY <1>1, <1>2, StoreTypeCorrect, PTL DEF StoreSpec
<1> QED
  BY <1>3 DEF ClaimIsSpent, Spent
=============================================================================
