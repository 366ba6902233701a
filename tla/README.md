# A TLA+ development of the HERMES confirmation path

HERMES 3.0 (the Python package *aimash*) lets an LLM agent manage Google Ads accounts for a small
team. The agent proposes, a human confirms by replying to a card in Telegram, and typed Python code
executes. What must never go wrong is the part between the card and the account: *one consent, one
change, and a true account of what happened*. Around it stand jobs and tools that share its database
and its hazards: packages of changes, creations of whole campaigns, what is remembered of a client,
couriers and checkers that report to the chat, escalations of incidents, the wizard for campaigns,
the circuit breaker in front of every remote call, the hash-chained journal behind every turn.
This directory holds specifications of these parts, the TLC configurations that check them on small
instances, and proofs, checked by TLAPS, of what matters most for instances of every size.

References of the form `store.py:780` are to the repository's sources.

## 1. Inventory

### 1.1 How the parts interact

```
 Telegram --> Hermes Gateway (LLM) --> FastMCP tools (mcp_server/) --> proposals in PostgreSQL
                                            |                           (confirm/store.py)
   trusted reply to a card ----------> execute_confirmed                      ^
                                            |                                 |
                                ads/service -> ads/mutations -> core/resilience -> Google Ads
                                                                              |
 APScheduler (scheduler/jobs.py): expiry, reconciliation, outcomes, outbox ---+
```

Three kinds of process share the database: the MCP server (one asyncio loop, many tool calls at a
time), the scheduler, and development scripts. They share no memory. Coordination is by
compare-and-set on one row (`UPDATE ... WHERE status = ...`, success iff `rowcount = 1`), by
unique indexes, here and there by a row lock or a lease, and inside the MCP process by one `asyncio.Lock` around the budget cap. The SDK is
synchronous and runs in threads that outlive the 60 seconds their caller waits.

### 1.2 Components

| component | state | operations | what is hard | what makes it correct |
|---|---|---|---|---|
| confirm store (`confirm/store.py`) | one row per proposal: status, fixed draft, reply anchor, ages; audit rows | save, bind, confirm, reject, claim, finalize, needs_review, reopen, failures | two processes on one row, late answers, expiry | status only moves along the lifecycle, one audit row per move, a claimed consent never open again, verdicts final |
| reply tool (`mcp_server/tools_write.py`) | none of its own | `execute_confirmed` | reads before it writes; errors become answers | consent only by the author's reply to the anchored card; the answer is true |
| orchestrator (`ads/service.py`) | none | freshness, resolve, dispatch, post-verify | account edited meanwhile | what executes is the diff on the card |
| mutation gates (`ads/mutations.py`) | budget lock of the process | gates, cap, money event, claim, apply, finalize | check-then-act over many rows; error behind the claim | cap kept; at most one effect, as far as one layer below allows; error never hides an effect |
| SDK layer (`core/resilience.py`, `core/breaker.py`, `core/quota.py`) | circuit rows, quota rows | call with timeout and narrow retry | lost answers, late landings | what is tried again certainly did not happen, except after ServiceUnavailable |
| kill switch (`core/killswitch.py`) | an environment variable and a file | asked at the lock and the gates | thrown at any moment | stops before the claim, and the proposal survives |
| lifecycle sweeps (`scheduler/jobs.py`) | none | expire pending, doubt executing, fail confirmed | races with slow executors | every row gets its verdict, none gets a false one |
| proposal creation (`mcp_server/propose.py`) | none | snapshot, draft, card | replays, unreadable state | one card per turn, one row per call |
| composite executor (`ads/composite.py`, `confirm/reverse.py`) | in-memory list of completed steps | ordered steps, read-back, compensation in reverse | a step that landed or not, foreign edits, reconciliation meanwhile | applied means the whole; failed means rolled back |
| creations of campaigns (`ads/mutations.py`) | none; a thread that outlives its caller | chains of SDK calls, tidying up | an error in the middle, an answer lost, a crash | applied means a campaign that can run; failed means nothing; no budget left alone |
| memory executor (`clients/execute.py`, `clients/store.py`, `clients/dossier_store.py`) | profile, its history, dossiers | claim, upsert or clear, promote, finalize | four transactions, reads written back without a lock | no profile holds what was cleared; changed only with consent; dossiers do not get older |
| attachment courier, outcome checker (`scheduler/jobs.py`) | `attachment_state`, `outcome_*` columns of the proposal | promise, claim, build, send, finish; claim, measure, send, complete, retry | overlapping schedulers, stale claims, a crash between sending and marking | a file at most once; an outcome not silently lost |
| incidents and outbox (`operations/`, `scheduler/ops_delivery.py`) | incident rows with an escalation cursor, outbox rows with leases | record, transition; enqueue, sweep, lease, look, send, mark | expired leases, late answers, incidents closed meanwhile | no escalation lost; one live lease; ends are final |
| wizard drafts (`campaigns/wizard_store.py`, `mcp_server/tools_workflow_state.py`) | one row per session, row locks | start, update, finalize; the job that warns of idle drafts and abandons them | concurrent calls, a whole JSON value written back, a job without locks | no edit lost; proposals of whole drafts only; one draft at a time; idle ones end |
| circuit breaker (`core/breaker.py`) | one row per circuit: state, count, cooling time, lease of the probe | look, lease, success, failure, first insert | answers of calls from before the opening, stores that fail, probes that die | opened by evidence only, one probe per opening, never stuck open |
| run journal (`core/observe.py`) | hash-chained events of a run | money event, end of a scope, retention, verify | concurrent appends of a run, alterations behind the code's back | what the code wrote verifies, what was altered does not |
| governance (`operations/governance.py`) | roles, votes | vote, claim condition | role revoked, rejection after approval | objection is never lost |
| decisions, experiments, rollback watch, learning | one-step rows | record, measure | | not modelled, see section 5 |
| read tools, reports, audit, keywords, copy, LLM routing, deployment | none shared with the above | I/O, statistics, text | | not modelled, see section 5 |

`PROJECT.json` lists all of them with their status, and under `hazards` the places, line by line,
where this code can go wrong in a way a test would hardly reach.

### 1.3 The lifecycle in the code

```
 pending --reply--> confirmed --claim--> executing --finalize--> applied --mismatch--> needs_review
    |  ^              |    \                 | \
    |  +---reopen-----+     \ sweep          |  \ sweep / composite --> needs_review
    v                        v               v
 rejected                  failed          failed (record_failure)
```

Two transitions stand in the store without a caller on the single-mutation path: `reopen`, called by
nothing but tests, and `record_failure`, called by the composite executor only. ConfirmStore has both;
ExecuteConfirmed, CampaignCreation and MemoryExecutor have neither, because no code of theirs takes
them.

## 2. Modules

| module | what it is |
|---|---|
| `ProposalLifecycle` | what the gate promises about one proposal, in seven stages and a counter of effects |
| `ConfirmStore` | the table of proposals: every method as `MatchM` (the WHERE clause) and `M` (the update), the sweeps, and the store alone under any caller |
| `ExecuteConfirmed` | the path from the reply to the account for one change: workers in program-counter steps, composed with the store, the account, the scheduler, crashes; safety, liveness, refinement |
| `CampaignAccount` | the account as the reversible operations see it: snapshot, target value, comparison, effect, inverse. No state |
| `CompositeExecutor` | packages of two to ten reversible changes, on the table and the account |
| `CampaignCreation` | the five creations: coroutine, SDK thread, tidying up, on the table |
| `Executors` | the two composed with the author of the cards, the sweeps and the clock |
| `MemoryExecutor` | changes of profile and dossiers, transaction by transaction, with the crawls that make dossiers |
| `AttachmentCourier`, `OutcomeChecker` | the two delivery jobs, each over its columns of the row |
| `Deliveries` | the two jobs in the same schedulers, over the rest of the life of the row, with crashes and fairness |
| `Incidents` | incident rows: events fold into them, operators move them |
| `NotificationOutbox` | escalation, leases, delivery, retries, on top of Incidents |
| `WizardDrafts` | the wizard's calls, their row locks and the job that ends idle drafts |
| `CircuitBreaker` | one circuit: its row, the calls of all processes around it, the far side |
| `RunJournal` | the journal of one run, its retention, and its verification |
| `MC...` | values of the constants, drafts, turns and symmetry sets for TLC |
| `ProposalLifecycleProofs`, `ConfirmStoreProofs`, `ExecuteConfirmedProofs`, `ExecutorsProofs`, `MemoryExecutorProofs`, `DeliveriesProofs`, `NotificationOutboxProofs`, `WizardDraftsProofs` | the theorems |

ConfirmStore is the common ground: ExecuteConfirmed, CompositeExecutor, CampaignCreation,
MemoryExecutor, AttachmentCourier and OutcomeChecker extend it, and each uses its methods as they are.

**ConfirmStore.** A row is six functions over proposal ids: `status`, `draft` (what `save_proposal`
fixes: author, chat, operation, tier, run, key, human turn), `anchor` (`tg_message_id`), `created`
and `decided` (ages of the two time stamps), `journal` (statuses of its audit rows). A method is one
transaction, hence one action. The claim writes no audit row; everything else that moves the status
does. Ages grow with `Advance` to `HORIZON` and stop there, above every threshold: all code
that looks at time compares an age with `TTL`, `TTL_L3`, `STALE` or the 24 hours of the cap, so
larger ages are alike. The sweeps select rows and then run a store method on each; the model does both in
one step, which loses nothing: between the two a row either ages, leaves the status (and the method
then misses it), or leaves and returns through `reopen`, which `RecordFailure` covers.

**ExecuteConfirmed.** A worker is one running call. `pc[w]` is the step it takes next, and steps are
cut where the code awaits: reading the card, binding the anchor, confirming, reading the confirmed
row, comparing with the live state, resolving the target, the gates, the budget lock with the cap,
the money event, the claim, the human-turn check, sending, waiting, finalizing, verifying, flagging,
answering. Every check is `Check(w, at, holds, next, answer)`: go on or end the call with an answer
and the row as it is, which is what an exception does. `call[w]` is the SDK request: in flight, landed,
refused or "unavailable"; a request its worker gave up (`CallLost`, `Crash`) moves to `adrift`, where it still lands
or vanishes. "unavailable" is ServiceUnavailable: the connection broke off before or after the server took the request, so it
may be landed, still on its way (`adrift`) or lost, and `run_ads_call` sends it again all the same unless the operation is
a creation (`RetryCall`, `Retried`). `repeated` remembers of which proposals it did. The campaign that all drafts are about is a version number; `shown[c]` is the version the card
of `c` was drawn from. Creations have no version to compare.

The operations are told apart by what the gates ask (`BudgetOp`, `Increase`, `UserCommanded`,
`Strict`, `NoDiff`, `Relative`, `ComparesBefore`, `Retried`, `Diffable`), so six kinds stand for the
ladder: `raise_budget` and `lower_budget` (update_budget, relative), `set_budget` (update_budget,
set_to), `create_campaign`, `pause_campaign` (strict, no money) and `update_campaign` (not strict, no money).

**CampaignAccount** is a function from campaigns to records (name, status, budget, networks, ad
groups with status, ad, bid and keyword bid), with the operators that take the places of
`service.read_state`, `compute_new_micros`, the comparison of `_verify_freshness`, the `apply_*`
functions, `_verify_applied` and `reverse_spec`. An operation is a record of operation, campaign *by
name*, ad group, mode and value. Names matter because a package may rename a campaign.

**CompositeExecutor.** `pc[c]` follows `execute_confirmed_composite`: forwards `gates -> call ->
verify` for each step, then `finalize`; backwards `rebuild -> undo -> check` for each completed step in
reverse, then `settle`. `at[c]` is the step, `clean[c]` is the code's `rollback_ok`, `call[c]` and
`adrift` are as in ExecuteConfirmed, `card[c]` holds the snapshots the card was drawn from. Proposing is
an action too, because `propose_composite_change` already puts renames last, turns the steps that name
a new name to the old one, and refuses chained renames or a step that cannot be reversed.
`launch_campaign` is several calls in one and may break off after its first.

**CampaignCreation.** `worker[c]` is the coroutine and `chain[c]` the entity its thread creates next
(assets, budget, campaign, group, media, ad, in the order of the kind). The coroutine gives up after
its timeout and the thread runs on. When a call raises, the thread removes the entities whose names it
holds, in the order of the kind's `except` clause; every removal is best-effort; a call whose answer
was lost has created what nobody can name.

**MemoryExecutor.** A transaction that reads, computes and writes back is two steps: `read`/`write`
of the profile, `row`/`swap` or `row`/`drop` of the dossier. `view[c]` and `rivals[c]` are what has been
read. An update of the row of a profile that has gone raises and leaves the proposal executing (`SameRow`). A patch of contacts or services
alone writes no such row (`WritesRow`): it deletes and inserts details under the id it has read, notices no clear and is applied.
So a profile is an id with the set of proposals whose notes are in its row, and `details[p]` is what is stored under the id `p`, whether or not
there is such a profile; a profile's id is its creator, as a cleared and recreated row has a new one. A DELETE of details finds those of its own
snapshot and may miss what was written since (`Left`). Saving a draft is three statements, as every statement at READ COMMITTED has a
snapshot of its own: `CrawlCounts` the next version, `CrawlDeletes` finds the older drafts, `CrawlSaves` removes what of
them is still a draft, inserts and commits. `crossed` and `raced` remember that crawls have saved, and dossiers been promoted, at the same time.

**AttachmentCourier, OutcomeChecker, Deliveries.** `courier[s]` and `checker[s]` are the loops of
scheduler `s`; their columns are functions over the same rows that ConfirmStore moves. The courier
claims by compare-and-set and finishes by a plain UPDATE; the checker claims a batch, including claims
older than an hour, completes by a compare-and-set without a token, and `retry_outcome` reads and
writes the row in two steps.

**Incidents, NotificationOutbox.** A run of the job is `enqueue -> sweep -> lease -> look -> send ->
mark`, each a transaction, send being the call of Telegram. Rows are known by their dedup key (incident,
occurrence, level, route). `wait` is the time until a row may be leased or its lease ends; a
run compares it with the point in time it took at its start, hence `lag[s]`. Marking failed is a read
and a write by id.

**WizardDrafts.** `pc[k]` follows one call of start, update or finalize; patch and set_step take the row
lock (`lock[d]`), create and the job do not. `state[d]` is `wizard_state` written as a whole: for
every stage the number of the edit that gave it. The job reads (`plan`, `seen`) and writes in a later
step. `idle` is the age of `updated_at`.

**CircuitBreaker.** `pc[c]` follows `guard`: look, take the lease, call, record. Each statement on the row is a
step, as the row changes between them; the single UPDATE of `_on_failure` is one step with its two CASEs. `opened_at`
and `probe_lease_until` are kept as the time that is left of them. `up` says whether the far side
answers; a call that spans a change of it ends either way. A store that fails lets the call pass and may or may not have
executed the statement. `evidence` and `probing` are history: what the failures and leases really were.

**RunJournal.** A row is a record of number, event, digest before it and own digest; a digest is the tuple
it is computed from. `writing[w]`, `tail[w]` and `events[w]` are where a transaction is, what it has read and what it is about to insert. `age` is
the age of the run in the three classes the sweep and the triggers tell apart. `Alter` is what the chain exists for:
somebody who changes the table without the code: cuts a row out, rewrites one with or without a digest that fits, or computes all
later rows anew (`SignAnew`), as no key keeps anybody from it. `written` is what the code wrote. `Verifies` is `verify_chain`.

**MCDeliveries** watches in each behaviour one of three parts that share no row: the delivery jobs, a circuit, a journal.
`watched` is chosen at the start and the other two stand still, so the run that checks it is three runs in one, with
the fairness of each part as it is in FairSpec and CircuitSpec.

**Slips.** An operator `SlipX` stands right before the operator `X` it resembles and is what `X`
would be after a plausible mistake: a dropped condition, a wrong column, a missing release. No
specification uses one. Putting it in place of `X` makes the run named beside it in PROJECT.json
fail, which shows that the property depends on the code it claims to be about.

## 3. What the runs check

| run | instance | distinct states | properties |
|---|---|---|---|
| `store` | 2 proposals, 3 drafts sharing a run and a key, 2 messages, 1 reopen per proposal | 853 000 | ClaimIsSpent, JournalIsHistory, VerdictsAreFinal |
| `execute_safety` | 1 proposal of 5 possible drafts, 2 workers in 2 processes, 4 reply turns (other message, changed quotation, stranger), 2 attempts, 1 foreign edit, kill switch | 3 399 000 | AtMostOnce, VoidMeansUntouched, EffectIsAuthorised, SuccessIsTrue, OnlyTheAuthorAnswers, ImplementsLifecycle |
| `execute_cap` | 2 creations, 2 workers in 1 process, cap of 1 | 1 074 000 | BudgetCapHolds |
| `execute_liveness` | 1 proposal (relative decrease or creation), 2 workers in 1 process, fairness | 162 000 | EveryCardIsDecided, EveryConsentIsSettled, EveryCallEnds, MovedBaseIsNeverExecuted |
| `executors` | 1 proposal: one of 8 packages over 2 campaigns or one of the 5 creations; 2 foreign edits of 4 kinds; refusals, lost answers, late landings, crashes, sweeps | 198 000 | AppliedIsWhole, FailedIsRestored, OwnRenameNeverHides, SentIsShown, NothingIsLeftBehind |
| `memory` | 2 proposals (save, update of the row, of details, of both, update from a crawl, clear), 3 crawls, errors and crashes | 2 009 000 | ClearedStaysCleared, ChangeIsConsented, NotesAreKept, DossierNeverGoesBack |
| `deliveries` | one of: 1 proposal that promises a file or has its outcome measured, 2 schedulers, 2 crashes, 3 attempts; 3 calls of a circuit with threshold 2, cooldown 1, lease 2, 1 fault, a far side that turns twice; 2 writers of a journal of 4 rows, up to 3 at once, 2 alterations; fairness | 409 000 | FilesArriveOnce, OutcomeIsHonest, OutcomeSettles; OneProbePerOpening, OpenIsEarned, Recovers, Protects; JournalTypeOK, IntactVerifies, AlterationIsSeen |
| `operations` | 1 incident of 2 events, 1 level, 1 route, 2 attempts, 2 schedulers, crashes | 3 903 000 | NothingIsLost, LeaseIsExclusive, EndsAreFinal |
| `wizard` | 2 drafts, 2 calls at a time, 2 stages, 3 edits, the job, both kinds of database clock | 5 430 000 | PatchesSurvive, MintIsWhole, OneDraftAtATime, AbandonedIsFinal |
| `lost_step` | as `executors`, no foreign edits | violated | FailedMeansRestored |
| `idle_drafts` | 2 drafts, 1 call at a time, fairness, PostgreSQL's clock | violated | IdleDraftEnds |
| `journal_fork` | 2 writers, 4 rows, nothing altered | violated | UntouchedVerifies |

Types are theorems (section 4), so no run repeats them but JournalTypeOK, which also keeps the bounds of the journal. Deadlock is checked in every run but those of the wizard and `journal_fork`: when all the
session ids of the instance have been used and every draft is abandoned, nothing is left to do, and a run that is over is over. In
`deliveries` the step `Over` says the same of a journal past every retention, and of nothing else.

**What the properties say.**

* *The table.* The journal is a history of the lifecycle and a verdict is final (JournalIsHistory, VerdictsAreFinal). A consent that was claimed is
  spent: although `reopen` hands consents back, a proposal that was executing is never open to a reply or a claim again (ClaimIsSpent). That a
  run has one pending row and a key one row are unique indexes of the database, guards in the model, and no property.
* *The money path.* However often the reply is delivered and whatever crashes or lands late, a
  change reaches the account at most once (AtMostOnce). What `run_ads_call` sends again after ServiceUnavailable is excepted
  (`SentAgain`); a creation is not, since creations are never retried. A change never happens behind a row that says it did not
  (VoidMeansUntouched), never without consent, journaled request and human turn (EffectIsAuthorised); only the
  author's reply to the anchored card is consent (OnlyTheAuthorAnswers); "executed" and "applied" are
  said only of what is in the account (SuccessIsTrue); the cap holds in one process (BudgetCapHolds); a relative change whose base had
  moved before the consent never executes (MovedBaseIsNeverExecuted).
* *Packages and creations.* Applied means every step once and none undone, or every part of the
  campaign (AppliedIsWhole). A failed package has left the account as it was, if every call had a certain
  outcome, nothing was launched, nobody else edited, and what the gates do not compare was still so at the claim
  (FailedIsRestored, BasesHeld). A package that is alone never hides a campaign from a step of its own, unless it renames it twice
  (OwnRenameNeverHides, RenamedAgain). Every request sends the value of the
  card, every undo the value before (SentIsShown), whatever others edit. A creation that is void has left
  nothing and no thread still at work; an error that could be tidied up was, and no budget stays
  behind without its campaign (NothingIsLeftBehind).
* *Memory.* What a clear deleted is in no profile afterwards; what is stored under the id of a profile that is gone was left by a change
  that overlapped the clear (ClearedStaysCleared). What an applied update told, note or detail, is lost only if it was written while
  another was about to write or for a profile that had gone (NotesAreKept). Nothing changes without consent or behind a failed row (ChangeIsConsented). One
  dossier is current, and never replaced by an older one, unless crawls saved at the same time *and* dossiers were promoted at the same
  time; either alone does no harm (DossierNeverGoesBack).
* *Deliveries.* A file reaches the chat at most once. An outcome is delivered only when told, given up
  only after its attempts, told twice only where a claim was taken over, a call raised or a
  completion failed. Every due outcome is settled in the end, unless the change is put in doubt.
* *Operations.* Every escalation an incident counts has its rows; delivered means sent; dead means all
  attempts used; two schedulers do not send one row under live leases; an end is undone only by a retry that had
  read the row before. The exceptions are written into the properties because the code has them (`robbed`,
  `release`), and are the narrowest for which TLC and TLAPS agree.
* *Wizard.* See the comments in `WizardDrafts`; the exception `raced` is explained below.
* *Breaker.* It opens only on as many failures that speak of the far side as the threshold, none older than the last
  success it has recorded (OpenIsEarned); of the calls one opening admits, no two probe under live leases
  (OneProbePerOpening); it closes for good when the far side is up for good (Recovers) and opens when it is down (Protects).
* *Journal.* What the code has written and swept verifies if transactions do not overlap (IntactVerifies). In a journal that verifies, a row that
  is as the code wrote it vouches for everything written before it, up to rows missing at the beginning (AlterationIsSeen). From a row that is
  not, everything up to the end may have been signed anew: an unkeyed chain shows an alteration only against a row, or a digest, kept elsewhere.

**Bounds and why they are enough.** `MaxReopens`, `MaxEdits`, `MaxCrashes`, `MaxOccurrences`, `MaxLevel`,
`SwitchStates`, `HORIZON`, `MaxFaults`, `MaxTurns`, `MaxEvents`, `MaxBatch`, `MaxAlterations` and the sets of the constants are the only bounds. One proposal is enough for
the safety of a proposal, because proposals meet only in the indexes (`store`, two proposals), the cap
(`execute_cap`, two) and the profile (`memory`, two, with three crawls for a draft, a rival and a later one, and with patches of the row, of details and of both). Two
workers, schedulers or calls are the smallest number that race; with two attempts a retry happens and runs out; one
foreign edit separates card, consent and execution, and a second comes between the steps of a package. The packages of
`MCExecutors` contain each of the ten kinds of change that differ in the model, a rename whose
later step names the new name, two renames of one campaign, a budget that is set, a launch in front of a budget, and one that is refused when proposed. The
thresholds keep the order of the settings: L3 lifetime < general lifetime < horizon, warning < lifetime of
a draft, claim recovery < day < week. Ages stop above the greatest threshold, where they are alike. Each worker
in a process of its own makes crashes independent and the lock harmless; both in one process makes the lock
matter. `operations` has one level and one route; instances with two levels or two routes and one
event are as large and hold as well, and the proofs need no bound on either. The breaker needs three calls (a probe, a second
one, a straggler), a lease longer than the cooldown as in the code (180 and 60 seconds), a threshold above one, and two turns of the
far side: down and up again. With threshold 3, lease 3 and two faults the safety of the breaker holds as well (203 000 states), and so does
that of the journal with five rows. Four rows of a journal have two ends and a middle, with room for an unsigned first row and a batch. `FALSE` for the human turn
of a draft is a row the store accepts and `_require_user_command` exists for; the MCP tools refuse to make one
earlier (`tools_write.py:137`). Symmetry exchanges workers (with their processes), proposals, dossiers,
schedulers, sessions and calls where no definition names one of them, and is not used in runs with liveness.

**Fairness and why the code justifies it.** `Tick`: the clock runs. `Sweep(c)`: the scheduler
registers its jobs at fixed intervals and is restarted by the compose stack. `Work(w)`: an
asyncio task that can go on is scheduled, and every wait inside has a timeout. `TakeBudgetGate(w)`
strongly: `asyncio.Lock` queues its waiters. In Deliveries the steps of both jobs are weakly fair in every scheduler,
for the same reasons; crashes are bounded there, since a scheduler that always dies settles nothing. In
WizardDrafts calls that have begun end, the job begins whenever there is something to do, and it writes again and
again if it is again and again about to. In CircuitBreaker calls are made again and again and end, as both far sides are asked for every
turn and have timeouts, and the clock runs. Nothing is assumed of humans, of the
account, of requests adrift, or of processes staying alive: EveryCardIsDecided holds because cards
expire, EveryConsentIsSettled because the sweeps run.

**The three disagreements.**

1. `lost_step`: `core/ads_errors.py:68-77` says of errors with an unknown outcome that the proposal becomes
   `needs_review`, because `failed` would claim that nothing was applied. The composite executor treats such
   an error of a step as any other, undoes the completed steps and records a failure; then the step lands.
2. `idle_drafts`: the job promises to abandon idle drafts (`jobs.py:2257`) and to warn once per idle period
   (2264-2266). Recording the warning sets `updated_at` (`db/models.py:348-350`), by which idleness is
   measured, so the draft is young again and, as the recorded time is the earlier one, is warned again and never abandoned.
3. `journal_fork`: `observe.py:326-328` wants the numbers of a run to go on, or the chain would fork. Two tool calls of one turn that write at the
   same time read the same tail, nothing orders them, the index is not unique; `verify_chain` reports a break where nobody has touched anything.

**Observations without a run of their own.** Where the models led to something a maintainer should know:

* `core/killswitch.py:43-47` asks the confirmation handler to return a proposal to pending after a `GateRefusal`, so that the
  same card can be confirmed again; the only confirmation path left, `tools_write.execute_confirmed`, just reports the error. The row
  stays confirmed, a second reply is refused, the sweep fails it. EveryConsentIsSettled accepts that end, so no property denies it.
* `core/breaker.py:12-14` and `db/models.py:953-954` promise exactly one prober. Whoever fails clears the lease (`breaker.py:242`),
  also a call from before the opening; after the cooldown a second probe runs beside the first. OneProbePerOpening says what is left of the promise.
* The circuit is said to open after N failures in a row (`breaker.py:11`, 51). A success whose call had seen an empty count before it began
  writes nothing (199), so failures before and after it add up.
* `db/models.py:846` wants a link that was cut out of the journal to be visible. `verify_chain` does not compare the first signed row
  with the genesis digest (`observe.py:450`), nor its number with the unsigned rows before it, so the first row can be missing unseen.
* `observe.py:419-421` says that a rewritten row is found even if its writer had rights to the table. The digests are not keyed: whoever has them can
  change or remove a row and sign all rows after it anew, and `verify_chain` passes what is left (`SignAnew`). AlterationIsSeen says what remains true.
* `resilience.py:91-94` and 127-130 want mutations retried only where the request was certainly not executed, because repeating a batch that is not
  idempotent doubles it. `_is_retryable_ads` also accepts the transport's ServiceUnavailable (121), after which nothing is known. TLC finds
  the second effect, after 18 states, when AtMostOnce is stated without `SentAgain`. A budget or a status set twice is what it was; keywords, say,
  could be added twice. Creations are not retried.
* `clients/store.py:624-655` deletes the profile with all its details. An update of contacts or services that has read the profile before commits
  afterwards without an error: contacts, those the client asked to forget among them, are stored under the id that is gone, read by nobody, and the proposal
  says applied. ClearedStaysCleared says that they are in no profile; that they are nowhere is not true.
* `clients/dossier_store.py:3-4` and 10-12 want exactly one current dossier and no way back. Two crawls that save in between one another leave two
  drafts, and two promotions at once that both find nothing current make both of them current, the older one last. It takes both overlaps.
* The retention leaves alone every run with a money event (`jobs.py:2669`), and a trigger would refuse to remove one anyway.
* `docs/MCP_TOOLS.md:138` promises `needs_review` when the audit result cannot be had; an exception of
  `finalize` or of the reading itself is answered with `failed` although the change is in the account
  (`tools_write.py:1325`). The row is right, the answer is not.
* `docs/ARCHITECTURE.md:109` draws `executing --> failed: typed execution failure`; on the path of a single change an
  error behind the claim leaves the row executing, and reconciliation puts it in doubt, which is the stronger
  promise. `clients/execute.py:28`, `mutations.py:3202-3206` and the docstring of the display creation
  mention `record_failure` on error, too; nothing there calls it.
* `clients/store.py:11` and 485 say that merging loses nothing. It reads and writes without a
  lock, so a note committed in between is lost; NotesAreKept says exactly this much. Nor does an index keep two dossiers from being current.
* `mark_delivery_failed` and `retry_outcome` read a row and write it by its id: a row that ended in between can
  be revived. `deliver_outbox` may cancel a row whose incident has just been reopened.
* An outcome whose proposal is put in review while it is checked stays `checking`; one due at the run time plus a day may miss the next daily run by milliseconds.
* Attachments are sent for any card within its lifetime, also one already decided.
* A launch in a package can be undone only by pausing the campaign, so groups and ads stay enabled.
* A step that sets a value is sent whatever the base is by then (`freshness.py:301-305`), but its undoing sets the base of the card
  (`composite.py:70-80`). If somebody has changed the value between the card and the claim and a later step fails, the row says "completed
  steps rolled back" and the account has neither his value nor the new one. The same holds for a keyword
  whose own bid was removed, as `own_bid` is no compared key (`freshness.py:160`). TLC found both (package `SpendAndPause`); BasesHeld is the condition.
* `tools_write.py:1092-1103` refuses "chained or duplicate campaign renames" but compares the name a rename starts from with new names
  only, so a package may rename one campaign twice. The second rename never finds it, and the package is rolled back whenever
  it is confirmed (package `TwoNames`, RenamedAgain).
* The wizard's warning writes the whole state it had read, so an edit committed in between is lost while the step stays (`raced`); the sweep
  abandons a draft touched since it was read; two concurrent starts leave two active drafts; finalize may mint
  again in a later turn, or for a draft abandoned meanwhile, though its docstring says "exactly one".
* `PROBE_LEASE_S` is meant to cover a probe with its retries (`breaker.py:58`), but `guard` also surrounds backoff and the wait for the
  semaphore; in the model a call has no limit, and two probes whose leases do not overlap may run at once.
* A run without a header (its last transaction failed) is never looked at by the retention, so its rows stay for good.

## 4. What is proved

For every value of the constants, under the named assumptions of the modules (types of the
constants, thresholds below the horizon, sentinels that are no members): any number of proposals, drafts,
workers, processes, turns, crawls, schedulers, incidents, routes, sessions, calls (of the wizard and of a circuit), writers and events of a journal, and stages, and any thresholds. Every
safety property of every passing run is a theorem of its specification; only liveness is left to TLC.

* `ConfirmStoreProofs`: StoreTypeCorrect; JournalIsTrue
  (JournalIsHistory is inductive: a lemma says what appending to a legal history keeps); TermsAreKept,
  VerdictsHold and ClaimsAreSpent, step by step from the type (no step leaves the set of statuses behind the claim).
* `ProposalLifecycleProofs`: LifecycleKeepsPromise.
* `ExecuteConfirmedProofs`: PathTypeCorrect, PathInvariant, PathAtMostOnce, PathVoidMeansUntouched,
  PathImplementsLifecycle.
  Then AuthorAlone, SuccessIsHonest, EffectsAreAuthorised, MovedBaseStaysOut, CapHolds.
* `ExecutorsProofs`: InvHolds, ExecutorsTypeCorrect, AppliedHolds, NothingStays, SentAsShown; then RestoreInvariant,
  FailedPackagesAreRestored, OwnRenamesDoNotHide; and of the operators alone OrderIsStable and UndoIsInverse.
* `MemoryExecutorProofs`: MemoryInvariant, MemoryTypeCorrect, ClearsHold, NotesHold, ConsentHolds, DossiersGoOn.
* `DeliveriesProofs`: DeliveriesInvariant, DeliveriesTypeCorrect, FilesDoArriveOnce, OutcomesAreHonest; of the
  circuit CircuitInvariant, CircuitTypeCorrect, ProbesAreSingle, OpeningsAreEarned; of the journal JournalInvariant,
  JournalTypeCorrect, IntactJournalVerifies, AlterationsAreSeen.
* `NotificationOutboxProofs`: OutboxInvariant, OutboxTypeCorrect, NoneIsLost, LeasesExclude, EndsStay.
* `WizardDraftsProofs`: WizardInvariant, WizardTypeCorrect, EditsSurvive, ProposalsAreWhole, DraftsReplace, AbandonedStays.

**The inductive invariant of the path.** AtMostOnce is not inductive: nothing in it keeps a second
worker from sending. `PathInv` adds why not:

* `OneExecutor`: at most one worker at a time is at work on a proposal, that is, between its claim and
  the end of its report;
* `WaitingIsClean`: as long as a worker has its change still to come, the proposal is executing (or in review, if reconciliation was quicker), and,
  unless its request was sent again after "unavailable", the change has not happened and no request for it is adrift;
* `LandedIsDone`: a worker past the landing of its request finds the effect there, and its proposal executing,
  in review or applied;
* `AdriftIsSingle`: the proposal of a request adrift is past its claim and, if it was not sent again, the request is its only one and has had no effect yet;
* `EffectsFit`: a proposal has no effect in the states before the claim, at least one when it is applied, and never two if it was not sent again.

What was sent again is of a kind that is retried (`RepeatsAreRetried`, an invariant of its own), which gives AtMostOnce its exception and no more.

The proof divides the steps. Quiet steps (most of them) touch neither requests, effects nor the
statuses the invariant looks at, and keep it wholesale. Six kinds of step need an argument of their
own: the claim, a request landing, a request adrift landing, giving a request up (timeout or crash),
finalizing, and the sweeps. The refinement follows from the invariant: finalize maps to Acknowledge because
the effect is there, landing maps to TakeEffect because the status is committed or in doubt and
no effect came before, and everything else moves a stage or stutters. The mapping takes `effects` as they are, except that of a proposal that was sent again it
tells only whether the change happened (`Happened`): its second landing is a stutter.

**What the second half of ExecuteConfirmedProofs adds.** A lemma says along which edges a worker moves and what each requires
(WorkerSteps); others say what no step takes back: drafts, journaled requests, effects, consents. From these,
`AuthInv` (a worker behind the claim has its request journaled, behind the gate its human turn checked; consent is in
the journal of every row beyond pending; requests adrift and effects are as authorised as the workers they come from)
gives EffectIsAuthorised. `CapInv` gives the cap:

* `ClaimsStand`: a row with a claim is executing, in review or applied, and `decided_at` is no older than
  the claim, because whatever stamps it again makes it younger; so the history the gate reads counts
  every claim of the window (lemma HistoryIsComplete);
* `GateHeld`: whoever is between the cap and its claim with a budget operation holds the lock of its process;
* `RoomLeft`: as long as it is there, there is room for one more.

CapHolds assumes finitely many proposals and one process (`OneProcess`), as `mutations.py:541-547` does; with two it fails.

MovedBaseIsNeverExecuted says of every moment that, if the base has moved under an undecided card, there is no effect from then on. Its proof
finds a state predicate, `Doomed(c)`, that holds at such a moment, that no step ends and that excludes an effect: the version of the account
only grows and nothing draws the card again, so the two never agree any more; no worker was past the comparison yet, since an undecided row has none
behind it (`CardsArePast`), and none can pass it now. PTL then puts the two boxes together.

**The invariant of the executors.** `IInv` of ExecutorsProofs has four parts. `Shape`: types without the conditions
between variables. `AccountOK`: campaigns and groups have their fields, statuses are enabled or paused, and requests adrift
are of operations the account understands; then what `reverse_spec` builds from a card asks for the value that was there before
(lemma UndoAsksForBefore). `PackageOK(c)`: before step i of a package the steps 1 to i - 1 have landed once each in that order,
after it i have, no step was undone and no call of the package is adrift; this is kept only as long as the executor goes forwards, and
finalize is reached only forwards. `CreationOK(c)`: before call e the chain has made what precedes e and holds its names;
after an error, what was made less what the removals still to come take away is what that kind of campaign promises to leave.
`PackageAssumption` says that packages have two to ten steps, that the account is well formed at first and that others ask only
for what it understands, and that campaigns have names of their own; that the plan is as long as the package follows from the definition of its order as a permutation.

**What a failed package leaves behind.** Here the invariant has to say what the account *is* after n steps, whichever they were, and after undoing
some of them. An account is seen as names, and *slots* for everything else: a slot is a field of a campaign or of one of its groups. Lemmas
about CampaignAccount carry the weight: an operation writes one slot of one campaign (OneSlotChanges); a well-formed campaign is what
stands in its slots (SlotsDetermine); an undoing aims at the slot its step wrote and asks for what was there before (UndoIsAimed,
UndoAsksForBefore). `RInv` then says, of a package that is alone, has lost no call and has launched nothing, that with n steps done and not
undone every campaign has its name of the claim unless one of the first n steps renamed it, and every slot its
value of the claim unless one of them wrote it (`NamesAfter`, `ValuesAfter`), and that the bases of the card are those of the claim as far as the
executor has compared them or BasesHeld grants them (`BasesTrue`). Forwards n is the number of steps that have landed, backwards it counts down; with
n = 0 the account is the one of the claim. Two steps may write one slot; their bases were read at the same moment, so undoing the later one already
brings back the value of the claim, which is why ValuesAfter speaks of slots and not of a sequence of accounts. A step finds its campaign by name all the while since renames come last
and are not chained (`PlanOK`, kept from the card by NewPlanOK; OrderIsStable says what the order is for packages of any length, by
counting: the place of a step is a cardinality, and an injection of a finite set into itself is onto). UndoIsInverse states the heart of it without
any state: apply a step, apply what `reverse_spec` makes of its snapshot, and the account is the same to the last field, for every
reversible operation but launch_campaign.

The attempt to prove this corrected the project in three places. BasesHeld and RenamedAgain are conditions TLC had not asked for because no package of
the run set a value or renamed a campaign twice; the run now has such packages and the two observations of section 3 say what the code does
there. And a launch that broke off did not mark the account as changed for other proposals.

**The memory.** `MemoryInv` has three arguments. A proposal is claimed once, so the step of its executor tells how often it has changed the profile
(`ChangesFit`). A profile is named after its creator, who creates it once: whoever writes to the row it has read writes to what has not been cleared
since, and whoever writes details under the id of another row has been overtaken (`ProfileFits`: the profile is `Whole`, that is, it holds only what
was told since the last clear, and all of it but what was overtaken). While crawls save one after the other there is one draft at a time (`OneDraft`); while dossiers are promoted
one after the other nobody else replaces the rivals of a draft (`OnePromotion`). Either is enough for the rivals that were read to be all there are
when the draft becomes current (`OneCurrent`), which is why DossierNeverGoesBack needs only one of them.

**The journal.** `JournalInv`: while no two transactions of the run overlap, the open one has read the tail that is still there
(`TailIsCurrent`), and what the code has written is one chain, each row genuine and linked to its predecessor, one row for each number (`OneChain`),
without a gap until the run is swept (`Unbroken`); as long as nobody altered the table it is what is there (`Intact`). IntactVerifies follows. Alterations
touch what is there and not what was written, and leave rows of a proper shape and the unsigned ones in front (AlterKeeps, RewriteKeeps, SignAnewKeeps). For
AlterationIsSeen, take a row as the code wrote it, and go down from it as far as rows are as the code wrote them. If that ends above a row that is
there: verification leaves no gap (lemma NoGap, by the least missing number: LeastElement, from the well-founded order of the naturals), so a row of the next lower number is there, and one
was written; the link of the row above is the digest of both, and digests determine what they digest, so the two are one and it did not end there.

**Only model-checked.** Liveness: EveryCardIsDecided, EveryConsentIsSettled, EveryCallEnds, OutcomeSettles, Recovers and Protects rest on
fairness and ENABLED, which the provers do not treat. The violated properties have counterexamples and no proofs. Induction with an
operator as its parameter is out of reach, too, so what is inductive over data is proved by a least counterexample or by counting where it is
proved at all.

## 5. What is not modelled, and what is assumed

* One campaign in ExecuteConfirmed, two in the packages, one account; account choice and access lists are outside.
* Four eyes off, as by default; the cap counts increases (`daily_budget_increase_max_ops` above 0), the cap on
  their sum is left out. A draft whose increase cannot be computed is refused by the cap; here such a draft is
  one without a snapshot and is refused by the gate before it. `set_budget` always counts as an increase. For
  packages the cap is off: with it on every budget step is refused, which is one of the refusals of StepRefused.
* Range checks between the gates and the claim end the call like any other check and are part of
  `ResolveTarget`. In ExecuteConfirmed a creation is one request; its calls are in CampaignCreation.
  `_watch_after_apply` writes an unrelated row, best-effort.
* The codes of the API a mutation retries mean "not executed", as `resilience.py:93` says (`ServerRefuses`). The transport's
  ServiceUnavailable does not and is retried too: that is modelled (`ServerUnavailable`). Steps of a package and calls of a creation are single
  requests in the executors: a step sets a value, so sending it again sets it again, and creations are not retried.
* Before a step of a package the code reads the account twice, for the gates and for the base; `SendStep` reads once, as the second comparison
  decides whether the step is sent.
* Replacing a contact or a service by another one: details are only added, or cleared with their profile.
* Between the last comparison with the account and the landing of a request somebody may edit the
  account. The API has no conditional update and the code accepts the window; no property denies it.
* Development scripts confirm by chat, in dev only. `StartDirect` models what they add to the
  path: executing a confirmed row without a reply, at the same time as a reply does.
* Removed entities, shared budgets and automatic bidding strategies of the account; keywords, targeting and extensions
  as operations; what profiles, dossiers, reports and stages of a wizard contain.
* In the executors the circuit breaker and the daily quotas appear as a call that is refused before it is sent; the breaker itself is in
  CircuitBreaker, with any of its processes as calls. The quotas are an early guard that promises no exact number.
* Governance is off by default, and nothing but tests records a vote (`governance.py`, `record_approval_vote`), so the conjunct of the
  claim could only refuse. Of decisions, what expires them, wakes them, and marks them applied from the audit has no caller outside
  tests either; what is left is one compare-and-set. Experiments, crawl job rows, rollback watch and learning write one row
  in one step. They are separate from the rows modelled here.
* The digests of the journal are collision-free; which fields they cover, and the text of canonical JSON, are left out.
* Most of the repository has no state that outlives a call: audit rules, reports, GAQL queries, texts and translations,
  LLM schemas and routing, keyword and copy generation, resolvers, configuration. There is no interleaving
  or failure in them for a model to find, and what they compute is text and statistics. This is why the map
  covers a small part of all lines although it covers most of the code that moves shared state.

## 6. What could follow

Done: all of sections 2 to 4. Next: four eyes and votes as a conjunct of the claim, decisions, rollback watch
and crawl job rows, once the code calls them. Proofs to come: that MemoryExecutor implements ProposalLifecycle as ExecuteConfirmed does; and what FailedIsRestored is for a package with a launch, namely everything but the groups and ads it enabled.
