---------------------------- MODULE ConfirmStore ----------------------------
(***************************************************************************)
(* confirm/store.py: the table of proposals.  Every method is one database  *)
(* transaction whose heart is a compare-and-set,                            *)
(*     UPDATE proposals SET ... WHERE confirmation_id = :id AND <condition> *)
(* and a status change writes its audit row in the same transaction (the    *)
(* claim is the exception: it writes none).  Method M has here              *)
(*     MatchM(c, ...)  the WHERE clause and the early returns before it,    *)
(*     M(c, ...)       the update and the audit row.                        *)
(* A caller that loses the compare-and-set sees ~MatchM and changes nothing.*)
(*                                                                         *)
(* Time is kept as ages: created[c] and decided[c] are how long ago         *)
(* created_at and decided_at were stamped, growing with Advance up to       *)
(* HORIZON, beyond which no comparison of the code can tell them apart.     *)
(*                                                                         *)
(* An operator named Slip... is a slip a change of the code could make, in  *)
(* place of the operator named after it.  No specification uses it: it is   *)
(* there to show that a property would notice.                              *)
(***************************************************************************)
EXTENDS Integers, Sequences

CONSTANTS
    Proposals,   \* confirmation ids
    Drafts,      \* what save_proposal may be asked to store (see Draft)
    Messages,    \* Telegram message ids
    NoAnchor,    \* tg_message_id IS NULL
    NoKey,       \* idempotency_key IS NULL
    NoRun,       \* run_id NULL or "-", both outside the partial unique index
    NoDraft,     \* the row does not exist
    TTL,         \* settings.proposal_ttl_hours
    TTL_L3,      \* settings.proposal_ttl_hours_l3
    STALE,       \* settings.executing_stale_minutes
    HORIZON,     \* ages above every threshold are not told apart
    MaxReopens   \* bound: how often one proposal is reopened

ASSUME StoreAssumption ==
    /\ {TTL, TTL_L3, STALE, HORIZON, MaxReopens} \subseteq Nat
    /\ TTL < HORIZON /\ STALE < HORIZON
    /\ NoAnchor \notin Messages
    /\ NoDraft \notin Drafts

VARIABLES
    status,    \* status[c], "absent" while there is no row
    draft,     \* draft[c]: the columns save_proposal fixes for good
    anchor,    \* anchor[c]: tg_message_id, the reply anchor
    created,   \* created[c]: age of created_at, or Null
    decided,   \* decided[c]: age of decided_at, or Null
    journal    \* journal[c]: the statuses of the audit rows of c, in order

storeVars == <<status, draft, anchor, created, decided, journal>>

Null == -1
Age == 0 .. HORIZON

Statuses == {"absent", "pending", "confirmed", "executing", "applied",
             "rejected", "failed", "needs_review"}

AuditStatuses == {"confirmed", "rejected", "applied", "needs_review",
                  "failed", "reopened"}

StoreTypeOK ==
    /\ status \in [Proposals -> Statuses]
    /\ draft \in [Proposals -> Drafts \cup {NoDraft}]
    /\ anchor \in [Proposals -> Messages \cup {NoAnchor}]
    /\ created \in [Proposals -> Age \cup {Null}]
    /\ decided \in [Proposals -> Age \cup {Null}]
    /\ journal \in [Proposals -> Seq(AuditStatuses)]

StoreInit ==
    /\ status = [c \in Proposals |-> "absent"]
    /\ draft = [c \in Proposals |-> NoDraft]
    /\ anchor = [c \in Proposals |-> NoAnchor]
    /\ created = [c \in Proposals |-> Null]
    /\ decided = [c \in Proposals |-> Null]
    /\ journal = [c \in Proposals |-> <<>>]

-----------------------------------------------------------------------------
(* The conditions shared by the WHERE clauses.                              *)

WithinTTL(c) == created[c] <= TTL

\* effective_ttl_hours: the L3 setting can only shorten the life of a consent.
L3Fresh(c) == draft[c].tier = "L3" => created[c] <= IF TTL_L3 < TTL THEN TTL_L3 ELSE TTL

Fresh(c) == WithinTTL(c) /\ L3Fresh(c)

SameRun(d, c) == d.run # NoRun /\ draft[c].run = d.run

\* The partial unique index on run_id where status = 'pending'.
RunIsFree(d, except) ==
    \A x \in Proposals \ {except} : status[x] = "pending" => ~SameRun(d, x)

\* The unique index on idempotency_key, over rows of every status.
KeyIsFree(d) ==
    d.key # NoKey => \A x \in Proposals : status[x] # "absent" => draft[x].key # d.key

-----------------------------------------------------------------------------
(* A transition of row c that stamps decided_at and writes one audit row.   *)

Decide(c, to) ==
    /\ status' = [status EXCEPT ![c] = to]
    /\ decided' = [decided EXCEPT ![c] = 0]
    /\ journal' = [journal EXCEPT ![c] = Append(@, to)]
    /\ UNCHANGED <<draft, anchor, created>>

MatchSave(c, d) == status[c] = "absent" /\ KeyIsFree(d) /\ RunIsFree(d, c)

SaveProposal(c, d) ==
    /\ MatchSave(c, d)
    /\ status' = [status EXCEPT ![c] = "pending"]
    /\ draft' = [draft EXCEPT ![c] = d]
    /\ created' = [created EXCEPT ![c] = 0]
    /\ UNCHANGED <<anchor, decided, journal>>

Stamp(c, m) ==
    /\ anchor' = [anchor EXCEPT ![c] = m]
    /\ UNCHANGED <<status, draft, created, decided, journal>>

SetCardMessageId(c, m) ==
    /\ status[c] = "pending" /\ anchor[c] = NoAnchor
    /\ Stamp(c, m)

MatchBind(c, actor, chat) ==
    /\ status[c] = "pending" /\ anchor[c] = NoAnchor
    /\ draft[c].author = actor /\ draft[c].chat = chat

BindCard(c, actor, chat, m) == MatchBind(c, actor, chat) /\ Stamp(c, m)

\* The idempotent answer to a repeated bind, read in a second transaction.
AlreadyBound(c, actor, chat, m) ==
    /\ status[c] = "pending" /\ anchor[c] = m
    /\ draft[c].author = actor /\ draft[c].chat = chat

MatchConfirm(c, chat) ==
    status[c] = "pending" /\ draft[c].chat = chat /\ Fresh(c)

Confirm(c, chat) == MatchConfirm(c, chat) /\ Decide(c, "confirmed")

MatchConfirmByReply(c, actor, chat, m) ==
    /\ status[c] = "pending"
    /\ draft[c].chat = chat
    /\ anchor[c] # NoAnchor /\ anchor[c] = m
    /\ draft[c].author = actor
    /\ Fresh(c)

ConfirmByReply(c, actor, chat, m) ==
    MatchConfirmByReply(c, actor, chat, m) /\ Decide(c, "confirmed")

\* An UPDATE without its status condition.
SlipMatchReject(c, chat) == status[c] # "absent" /\ draft[c].chat = chat

MatchReject(c, chat) == status[c] = "pending" /\ draft[c].chat = chat

Reject(c, chat) == MatchReject(c, chat) /\ Decide(c, "rejected")

RejectByActor(c, chat, actor) ==
    MatchReject(c, chat) /\ draft[c].author = actor /\ Decide(c, "rejected")

\* The claim: with FOUR_EYES_REQUIRED off its last conjunct is true.
MatchClaim(c, op) == status[c] = "confirmed" /\ draft[c].op = op /\ Fresh(c)

Claim(c, op) ==
    /\ MatchClaim(c, op)
    /\ status' = [status EXCEPT ![c] = "executing"]
    /\ decided' = [decided EXCEPT ![c] = 0]
    /\ UNCHANGED <<draft, anchor, created, journal>>

\* A late worker finalizes what reconciliation has already put in doubt.
SlipMatchFinalize(c) == status[c] \in {"executing", "needs_review"}

MatchFinalize(c) == status[c] = "executing"
Finalize(c) == MatchFinalize(c) /\ Decide(c, "applied")

MatchNeedsReview(c) == status[c] = "executing"
MarkNeedsReview(c) == MatchNeedsReview(c) /\ Decide(c, "needs_review")

MatchVerification(c) == status[c] = "applied"
RecordVerification(c) == MatchVerification(c) /\ Decide(c, "needs_review")

Reopens(c) == Len(SelectSeq(journal[c], LAMBDA s : s = "reopened"))

\* Handing back a proposal without looking whether it has been claimed.
SlipMatchReopen(c) == status[c] \in {"confirmed", "executing"} /\ RunIsFree(draft[c], c)

\* Back among the pending rows, where the index on run_id counts it again:
\* with another pending row of the run the UPDATE raises IntegrityError.
MatchReopen(c) == status[c] = "confirmed" /\ RunIsFree(draft[c], c)

Reopen(c) ==
    /\ MatchReopen(c)
    /\ status' = [status EXCEPT ![c] = "pending"]
    /\ decided' = [decided EXCEPT ![c] = Null]
    /\ journal' = [journal EXCEPT ![c] = Append(@, "reopened")]
    /\ UNCHANGED <<draft, anchor, created>>

\* The compare-and-set of mark_needs_review, copied.
SlipMatchConfirmedFailed(c) == status[c] = "executing"

MatchConfirmedFailed(c) == status[c] = "confirmed"
MarkConfirmedFailed(c) == MatchConfirmedFailed(c) /\ Decide(c, "failed")

MatchRecordFailure(c) == status[c] \in {"confirmed", "executing"}
RecordFailure(c) == MatchRecordFailure(c) /\ Decide(c, "failed")

\* get_applied_audit_result: the row is applied now and says so in the journal.
AppliedAuditResult(c) ==
    status[c] = "applied" /\ \E i \in 1 .. Len(journal[c]) : journal[c][i] = "applied"

-----------------------------------------------------------------------------
(* The clock and the jobs of scheduler/jobs.py that sweep the table.  A job *)
(* selects rows by age and then runs the store method on each.  Selecting   *)
(* and deciding are one step here: a row that keeps its status only grows   *)
(* older, and one that left it and came back, which takes a reopen between, *)
(* is failed by RecordFailure just as a late mark_confirmed_failed would.   *)

Older(a) == IF a \in 0 .. HORIZON - 1 THEN a + 1 ELSE a

Advance ==
    /\ created' = [c \in Proposals |-> Older(created[c])]
    /\ decided' = [c \in Proposals |-> Older(decided[c])]
    /\ UNCHANGED <<status, draft, anchor, journal>>

\* Comparing decided_at, which a pending row does not have.
SlipCleanupStale(c) == decided[c] > TTL /\ Reject(c, draft[c].chat)

\* cleanup_stale_proposals looks at the general TTL only.
CleanupStale(c) == created[c] > TTL /\ Reject(c, draft[c].chat)

\* decided_at, or created_at where decided_at is NULL.
DecidedOrCreated(c) == IF decided[c] = Null THEN created[c] ELSE decided[c]

\* Taking a lost executor for a mutation that did not happen.
SlipReconcileExecuting(c) == DecidedOrCreated(c) > STALE /\ RecordFailure(c)

ReconcileExecuting(c) == DecidedOrCreated(c) > STALE /\ MarkNeedsReview(c)
ReconcileConfirmed(c) == DecidedOrCreated(c) > STALE /\ MarkConfirmedFailed(c)

-----------------------------------------------------------------------------
(* The store alone, under every caller: the confirmation path, the composite*)
(* executor, the development scripts and the scheduler.                     *)

Actors == {d.author : d \in Drafts}
Chats == {d.chat : d \in Drafts}
Operations == {d.op : d \in Drafts}

StoreNext ==
    \/ \E c \in Proposals :
        \/ \E d \in Drafts : SaveProposal(c, d)
        \/ \E m \in Messages : SetCardMessageId(c, m)
        \/ \E a \in Actors, k \in Chats, m \in Messages :
            \/ BindCard(c, a, k, m)
            \/ ConfirmByReply(c, a, k, m)
        \/ \E k \in Chats : Confirm(c, k) \/ Reject(c, k)
        \/ \E a \in Actors, k \in Chats : RejectByActor(c, k, a)
        \/ \E op \in Operations : Claim(c, op)
        \/ Finalize(c) \/ MarkNeedsReview(c) \/ RecordVerification(c)
        \/ Reopens(c) < MaxReopens /\ Reopen(c)
        \/ RecordFailure(c)
        \/ CleanupStale(c) \/ ReconcileExecuting(c) \/ ReconcileConfirmed(c)
    \/ Advance

StoreSpec == StoreInit /\ [][StoreNext]_storeVars

-----------------------------------------------------------------------------
(* Correctness of the table.                                                *)

\* Which audit row may follow which: the history of a row.
MayOpen == {"confirmed", "rejected"}
MayFollow ==
    [s \in AuditStatuses |->
        CASE s = "confirmed" -> {"reopened", "applied", "needs_review", "failed"}
          [] s = "reopened" -> {"confirmed", "rejected"}
          [] s = "applied" -> {"needs_review"}
          [] OTHER -> {}]

\* What the last audit row says when the proposal is in status s.
LastEntries ==
    [s \in Statuses |->
        CASE s = "pending" -> {"reopened"}
          [] s \in {"confirmed", "executing"} -> {"confirmed"}
          [] s = "absent" -> {}
          [] OTHER -> {s}]

LegalHistory(h) ==
    /\ h # <<>> => h[1] \in MayOpen
    /\ \A i \in 1 .. Len(h) - 1 : h[i + 1] \in MayFollow[h[i]]

JournalFits(c) ==
    IF journal[c] = <<>>
    THEN status[c] \in {"absent", "pending"}
    ELSE journal[c][Len(journal[c])] \in LastEntries[status[c]]

\* The journal of every proposal is a history the lifecycle allows, without a
\* missing or a spurious row, and it ends where the proposal stands.
JournalIsHistory ==
    \A c \in Proposals : LegalHistory(journal[c]) /\ JournalFits(c)

\* A consent is spent by its claim: whatever is reopened, swept, failed or put
\* in doubt afterwards, a proposal that was executing is never again open to a
\* reply, a cancellation or a second claim.
ClaimIsSpent ==
    \A c \in Proposals : [](status[c] = "executing" =>
        [](status[c] \in {"executing", "applied", "failed", "needs_review"}))

\* What the human saw is fixed for good, the anchor is stamped once, and no
\* transition gives a proposal a longer life than its creation gave it.
RowKeepsItsTerms ==
    \A c \in Proposals : status[c] # "absent" =>
        /\ draft'[c] = draft[c]
        /\ created'[c] >= created[c]
        /\ anchor[c] # NoAnchor => anchor'[c] = anchor[c]

RowsKeepTheirTerms == [][RowKeepsItsTerms]_storeVars

\* A verdict is never revised: a rejected, failed or doubtful proposal keeps
\* its status and its journal, and an applied one can only be put in doubt.
VerdictKept ==
    \A c \in Proposals :
        /\ status[c] \in {"rejected", "failed", "needs_review"} =>
              status'[c] = status[c] /\ journal'[c] = journal[c]
        /\ status[c] = "applied" => status'[c] \in {"applied", "needs_review"}

VerdictsAreFinal == [][VerdictKept]_storeVars
=============================================================================
