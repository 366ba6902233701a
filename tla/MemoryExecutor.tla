--------------------------- MODULE MemoryExecutor ---------------------------
(***************************************************************************)
(* clients/execute.py: confirmed changes of what is remembered about a      *)
(* client, the profile (clients/store.py) and the dossier made by crawling  *)
(* the client's site (clients/dossier_store.py), of one account.  A change  *)
(* takes up to four transactions,                                          *)
(*     claim, upsert or clear, promote, finalize,                          *)
(* and the two in the middle read rows, compute and write them back at READ *)
(* COMMITTED: two steps each, between which others commit.  An UPDATE of a  *)
(* row that is gone, or a second profile of the account, raises; the row of *)
(* the proposal then stays executing.                                       *)
(*                                                                         *)
(* A profile is one row, whose columns are its notes here, and its details, *)
(* the rows of contacts, services and pages that carry its id and nothing   *)
(* that would hold them to it (db/models.py has no foreign key).  Both are  *)
(* the sets of the proposals whose patches they hold.  Patches that ask for *)
(* a replacement of the details are left out, and so are the access checks  *)
(* before the claim, which change nothing.                                  *)
(***************************************************************************)
EXTENDS ConfirmStore

CONSTANTS
    Dossiers,   \* ids of client_dossiers, one for each crawl
    NoDossier,  \* dossier_id is not among the params
    NoProfile,  \* there is no row for the account
    Elder       \* made the profile that may be there in the beginning

MemoryOps == {"profile_save", "profile_update", "profile_clear"}

ASSUME MemoryAssumption ==
    /\ \A d \in Drafts :
        /\ d.op \in MemoryOps /\ d.dossier \in Dossiers \cup {NoDossier}
        /\ d.parts \subseteq {"row", "details"}   \* what its patch touches
    /\ NoDossier \notin Dossiers
    /\ Elder \notin Proposals
    /\ NoProfile \notin [id : Proposals \cup {Elder}, notes : SUBSET (Proposals \cup {Elder})]
    /\ NoProfile \notin [id : Proposals \cup {Elder}, notes : SUBSET (Proposals \cup {Elder}),
                          details : SUBSET (Proposals \cup {Elder})]

VARIABLES
    pc,       \* pc[c]: the executor of c
    view,     \* view[c]: the profile it has read, with its details
    rivals,   \* rivals[c]: the current dossiers it has read
    profile,  \* the profile: [id, notes], the id being its creator's
    details,  \* details[p]: the rows whose profile_id is p
    history,  \* history[c]: rows of client_profile_history written for c
    dossier,  \* dossier[d]: the row of d, its status and version
    crawl,    \* crawl[d]: the transaction that saves the dossier of d
    told,     \* upserts written since the profile was last cleared (history)
    overtaken, \* upserts written while another executor was about to write, or
              \* to a profile that was gone (history)
    crossed,  \* two crawls have saved at the same time (history)
    raced     \* two dossiers have been promoted at the same time (history)

executorVars == <<pc, view, rivals>>
profileVars == <<profile, details, history>>
dossierVars == <<dossier, crawl>>
memoryVars == <<executorVars, profileVars, dossierVars, told, overtaken, crossed, raced>>
vars == <<storeVars, memoryVars>>

Sources == Proposals \cup {Elder}

Profiles == [id : Sources, notes : SUBSET Sources] \cup {NoProfile}

Views == [id : Sources, notes : SUBSET Sources, details : SUBSET Sources] \cup {NoProfile}

TypeOK ==
    /\ StoreTypeOK
    /\ pc \in [Proposals -> {"idle", "read", "write", "row", "drop", "swap", "finalize"}]
    /\ view \in [Proposals -> Views]
    /\ rivals \in [Proposals -> SUBSET Dossiers]
    /\ profile \in Profiles
    /\ details \in [Sources -> SUBSET Sources]
    /\ history \in [Proposals -> Nat]
    /\ dossier \in [Dossiers -> [status : {"none", "draft", "current"}, version : Nat]]
    /\ crawl \in [Dossiers -> [step : {"before", "count", "delete", "over"}, version : Nat,
                               found : SUBSET Dossiers]]
    /\ told \subseteq Sources /\ overtaken \subseteq Proposals
    /\ crossed \in BOOLEAN /\ raced \in BOOLEAN
    /\ \A c \in Proposals : pc[c] # "idle" => draft[c] \in Drafts
    /\ \A c \in Proposals : pc[c] \in {"row", "drop", "swap"} => draft[c].dossier \in Dossiers

NoRow == [status |-> "none", version |-> 0]

\* No statement of the transaction has been run, or it has ended.
Outside(step) == [step |-> step, version |-> 0, found |-> {}]

Init ==
    /\ StoreInit
    /\ pc = [c \in Proposals |-> "idle"]
    /\ view = [c \in Proposals |-> NoProfile]
    /\ rivals = [c \in Proposals |-> {}]
    /\ \/ profile = NoProfile /\ told = {}
       \/ profile = [id |-> Elder, notes |-> {Elder}] /\ told = {Elder}
    /\ details = [p \in Sources |-> IF p = Elder THEN told ELSE {}]
    /\ history = [c \in Proposals |-> 0]
    /\ dossier = [d \in Dossiers |-> NoRow]
    /\ crawl = [d \in Dossiers |-> Outside("before")]
    /\ overtaken = {}
    /\ crossed = FALSE /\ raced = FALSE

-----------------------------------------------------------------------------
(* crawl_service.prepare_profile_crawl: ClientDossierStore.save_draft, one  *)
(* transaction of three statements, each with a snapshot of its own.        *)

Versions == {dossier[d].version : d \in Dossiers}

Saving(d) == crawl[d].step \in {"count", "delete"}

\* SELECT max(version).  The site is the one named in the profile.
CrawlCounts(d) ==
    /\ crawl[d].step = "before"
    /\ profile # NoProfile
    /\ \E v \in Versions :
        /\ \A x \in Versions : x <= v
        /\ crawl' = [crawl EXCEPT ![d] = [step |-> "count", version |-> v + 1, found |-> {}]]
    /\ crossed' = (crossed \/ \E x \in Dossiers : Saving(x))
    /\ UNCHANGED <<storeVars, executorVars, profileVars, dossier, told, overtaken, raced>>

\* The DELETE of the drafts finds those of its snapshot.
CrawlDeletes(d) ==
    /\ crawl[d].step = "count"
    /\ LET drafts == {x \in Dossiers : dossier[x].status = "draft"}
       IN  crawl' = [crawl EXCEPT ![d] = [step |-> "delete", version |-> @.version, found |-> drafts]]
    /\ UNCHANGED <<storeVars, executorVars, profileVars, dossier, told, overtaken, crossed, raced>>

\* It locks and deletes what is still a draft, whoever is about to confirm it;
\* the INSERT and the commit follow, and nobody can see what lies between.
CrawlSaves(d) ==
    /\ crawl[d].step = "delete"
    /\ crawl' = [crawl EXCEPT ![d] = Outside("over")]
    /\ dossier' = [x \in Dossiers |->
                      IF x = d THEN [status |-> "draft", version |-> crawl[d].version]
                      ELSE IF x \in crawl[d].found /\ dossier[x].status = "draft" THEN NoRow
                      ELSE dossier[x]]
    /\ UNCHANGED <<storeVars, executorVars, profileVars, told, overtaken, crossed, raced>>

\* The transaction raises or its process dies.
CrawlFails(d) ==
    /\ Saving(d)
    /\ crawl' = [crawl EXCEPT ![d] = Outside("over")]
    /\ UNCHANGED <<storeVars, executorVars, profileVars, dossier, told, overtaken, crossed, raced>>

\* Two tools propose a change of what is there, or a clear of it; a crawl draws
\* a card for the dossier it has saved.
ProposeMemory(c, d) ==
    /\ IF d.dossier = NoDossier
       THEN d.op = "profile_save" <=> profile = NoProfile
       ELSE /\ dossier[d.dossier] # NoRow
            /\ \A x \in Proposals : status[x] # "absent" => draft[x].dossier # d.dossier
    /\ SaveProposal(c, d)
    /\ UNCHANGED memoryVars

-----------------------------------------------------------------------------
(* execute_confirmed_memory.                                                *)

Goto(c, step) == pc' = [pc EXCEPT ![c] = step]

\* A transaction ends, and with it what it has read.
Ends(c) ==
    /\ view' = [view EXCEPT ![c] = NoProfile]
    /\ rivals' = [rivals EXCEPT ![c] = {}]

ClaimMemory(c) ==
    /\ pc[c] = "idle"
    /\ \E op \in MemoryOps : Claim(c, op)
    /\ Goto(c, "read")
    /\ UNCHANGED <<view, rivals, profileVars, dossierVars, told, overtaken, crossed, raced>>

ReadProfile(c) ==
    /\ pc[c] = "read"
    /\ view' = [view EXCEPT ![c] =
           IF profile = NoProfile THEN NoProfile
           ELSE [id |-> profile.id, notes |-> profile.notes, details |-> details[profile.id]]]
    /\ Goto(c, "write")
    /\ UNCHANGED <<storeVars, rivals, profileVars, dossierVars, told, overtaken, crossed, raced>>

\* The row that was read is still the row of the account.
SlipSameRow(c) == TRUE

SameRow(c) ==
    IF view[c] = NoProfile THEN profile = NoProfile
    ELSE profile # NoProfile /\ profile.id = view[c].id

Recorded(c) == history' = [history EXCEPT ![c] = @ + 1]

PatchOf(c, part) == IF part \in draft[c].parts THEN {c} ELSE {}

\* An INSERT, or an UPDATE of the columns that change: none changes when the
\* patch is about details only.
WritesRow(c) == view[c] = NoProfile \/ "row" \in draft[c].parts

\* The notes of the patch alone.
SlipMerged(c) ==
    IF view[c] = NoProfile THEN [id |-> c, notes |-> PatchOf(c, "row")]
    ELSE [id |-> view[c].id, notes |-> {c}]

\* apply_upsert: the notes are those that were read, and the new ones.
Merged(c) ==
    IF view[c] = NoProfile THEN [id |-> c, notes |-> PatchOf(c, "row")]
    ELSE [id |-> view[c].id, notes |-> view[c].notes \cup {c}]

\* What a DELETE by profile_id may leave of the details it does not know: it
\* does not find what others have written since its snapshot.
Left(c) ==
    {{}} \cup {details[p] : p \in {x \in {view[c].id} : details[x] # view[c].details}}

\* Details are deleted and written again with those that were read, under the
\* id that was read, whether or not there is such a profile any more.
WriteDetails(c) ==
    IF "details" \notin draft[c].parts THEN UNCHANGED details
    ELSE IF view[c] = NoProfile THEN details' = [details EXCEPT ![c] = {c}]
    ELSE \E left \in Left(c) :
            details' = [details EXCEPT ![view[c].id] = view[c].details \cup {c} \cup left]

Overtakes(c) == ~SameRow(c) \/ \E y \in Proposals \ {c} : pc[y] = "write"

AfterUpsert(c) == IF draft[c].dossier = NoDossier THEN "finalize" ELSE "row"

Upsert(c) ==
    /\ pc[c] = "write" /\ draft[c].op # "profile_clear"
    /\ \/ WritesRow(c) /\ SameRow(c) /\ profile' = Merged(c)
       \/ ~WritesRow(c) /\ UNCHANGED profile
    /\ WriteDetails(c)
    /\ told' = told \cup {c}
    /\ overtaken' = IF Overtakes(c) THEN overtaken \cup {c} ELSE overtaken
    /\ Recorded(c)
    /\ Goto(c, AfterUpsert(c))
    /\ Ends(c)
    /\ UNCHANGED <<storeVars, dossierVars, crossed, raced>>

\* apply_clear: all dossiers of the account, and the profile that was read with
\* its details.
Clear(c) ==
    /\ pc[c] = "write" /\ draft[c].op = "profile_clear"
    /\ IF view[c] # NoProfile /\ SameRow(c)
       THEN profile' = NoProfile /\ told' = {}
       ELSE UNCHANGED <<profile, told>>
    /\ IF view[c] = NoProfile THEN UNCHANGED details
       ELSE \E left \in Left(c) : details' = [details EXCEPT ![view[c].id] = left]
    /\ dossier' = [d \in Dossiers |-> NoRow]
    /\ Recorded(c)
    /\ Goto(c, "finalize")
    /\ Ends(c)
    /\ UNCHANGED <<storeVars, crawl, overtaken, crossed, raced>>

Current == {d \in Dossiers : dossier[d].status = "current"}

\* Promoting whatever was confirmed last.
SlipOutdated(c) == FALSE

Outdated(c) == \E d \in Current : dossier[d].version > dossier[draft[c].dossier].version

\* promote: a draft that is gone is passed over, one older than what is current
\* is to be deleted.
ReadDossier(c) ==
    /\ pc[c] = "row"
    /\ CASE dossier[draft[c].dossier] = NoRow -> Goto(c, "finalize") /\ UNCHANGED rivals
         [] dossier[draft[c].dossier] # NoRow /\ Outdated(c) -> Goto(c, "drop") /\ UNCHANGED rivals
         [] OTHER -> Goto(c, "swap") /\ rivals' = [rivals EXCEPT ![c] = Current]
    /\ raced' = (raced \/ (pc'[c] = "swap" /\ \E x \in Proposals \ {c} : pc[x] = "swap"))
    /\ UNCHANGED <<storeVars, view, profileVars, dossierVars, told, overtaken, crossed>>

DropDossier(c) ==
    /\ pc[c] = "drop"
    /\ dossier' = [dossier EXCEPT ![draft[c].dossier] = NoRow]
    /\ Goto(c, "finalize")
    /\ UNCHANGED <<storeVars, view, rivals, profileVars, crawl, told, overtaken, crossed, raced>>

SwapDossier(c) ==
    /\ pc[c] = "swap"
    /\ dossier[draft[c].dossier] # NoRow
    /\ dossier' = [d \in Dossiers |->
                      IF d = draft[c].dossier THEN [dossier[d] EXCEPT !.status = "current"]
                      ELSE IF d \in rivals[c] THEN NoRow ELSE dossier[d]]
    /\ Goto(c, "finalize")
    /\ Ends(c)
    /\ UNCHANGED <<storeVars, profileVars, crawl, told, overtaken, crossed, raced>>

FinalizeMemory(c) ==
    /\ pc[c] = "finalize"
    /\ Finalize(c) \/ UNCHANGED storeVars
    /\ Goto(c, "idle")
    /\ UNCHANGED <<view, rivals, profileVars, dossierVars, told, overtaken, crossed, raced>>

\* An executor that puts its errors on record as failures.
SlipMemoryFails(c) ==
    /\ pc[c] # "idle"
    /\ Goto(c, "idle")
    /\ RecordFailure(c) \/ (~MatchRecordFailure(c) /\ UNCHANGED storeVars)
    /\ Ends(c)
    /\ UNCHANGED <<profileVars, dossierVars, told, overtaken, crossed, raced>>

\* A transaction raises and is rolled back, or the process dies.
MemoryFails(c) ==
    /\ pc[c] # "idle"
    /\ Goto(c, "idle")
    /\ Ends(c)
    /\ UNCHANGED <<storeVars, profileVars, dossierVars, told, overtaken, crossed, raced>>

MemoryStep(c) ==
    \/ ClaimMemory(c) \/ ReadProfile(c) \/ Upsert(c) \/ Clear(c)
    \/ ReadDossier(c) \/ DropDossier(c) \/ SwapDossier(c)
    \/ FinalizeMemory(c) \/ MemoryFails(c)

-----------------------------------------------------------------------------
(* The author of the cards, the scheduler and its clock.                    *)

Reply(c, m) ==
    \/ BindCard(c, draft[c].author, draft[c].chat, m)
    \/ ConfirmByReply(c, draft[c].author, draft[c].chat, m)

Table(c) ==
    /\ \/ status[c] = "pending" /\ \E m \in Messages : Reply(c, m)
       \/ CleanupStale(c) \/ ReconcileExecuting(c) \/ ReconcileConfirmed(c)
    /\ UNCHANGED memoryVars

Next ==
    \/ \E c \in Proposals : (\E d \in Drafts : ProposeMemory(c, d)) \/ MemoryStep(c) \/ Table(c)
    \/ \E d \in Dossiers : CrawlCounts(d) \/ CrawlDeletes(d) \/ CrawlSaves(d) \/ CrawlFails(d)
    \/ Advance /\ UNCHANGED memoryVars

Spec == Init /\ [][Next]_vars

-----------------------------------------------------------------------------
(* Correctness of the memory.                                               *)

\* What a clear has deleted does not come back with a change that read the
\* profile before it: all that is in the profile was written since.  Details
\* stored under a profile that is gone, which nobody reads any more, are the
\* work of a change that a clear was about to overtake, or had overtaken.
Exists(p) == profile # NoProfile /\ profile.id = p

ClearedStaysCleared ==
    /\ profile # NoProfile => profile.notes \cup details[profile.id] \subseteq told
    /\ \A p \in Sources : Exists(p) \/ details[p] = {} \/ details[p] \cap overtaken # {}

\* A profile is changed at most once by a proposal, never by one that is
\* undecided, rejected or failed, always by one that is applied; and a dossier
\* is current only by such a change.
ChangeIsConsented ==
    \A c \in Proposals :
        /\ history[c] <= 1
        /\ status[c] \in {"absent", "pending", "confirmed", "rejected", "failed"} =>
              history[c] = 0
        /\ status[c] = "applied" => history[c] = 1
        /\ status[c] # "absent" /\ draft[c].dossier \in Current => history[c] = 1

\* There is one current dossier, the one the copy is generated from, and it is
\* never replaced by an older one, unless crawls have saved at the same time
\* and dossiers been promoted at the same time: either alone does no harm.
DossierOnward ==
    \A e \in Current' :
        /\ Current' = {e}
        /\ \A d \in Current : dossier'[e].version >= dossier[d].version

DossierNeverGoesBack == [][~(crossed /\ raced) => DossierOnward]_vars

\* Merging loses nothing (clients/store.py:11) but, having no lock, what was
\* written in the middle of another change or for a profile just cleared.
Patched(c, part) == c = Elder \/ part \in draft[c].parts

NotesAreKept ==
    profile # NoProfile => \A c \in told \ overtaken :
        /\ Patched(c, "row") => c \in profile.notes
        /\ Patched(c, "details") => c \in details[profile.id]
=============================================================================
