------------------------ MODULE MemoryExecutorProofs ------------------------
(***************************************************************************)
(* Theorems about the executors of memory changes, for any number of        *)
(* proposals and crawls of the account.                                     *)
(*                                                                         *)
(* Three arguments.  A proposal is claimed once, so that what its executor  *)
(* does next tells how often it has changed the profile (ChangesFit).  A    *)
(* profile is named after its creator, who creates it once: whoever writes  *)
(* to the row it has read writes to what has not been cleared since, and    *)
(* whoever writes details under the id of another row has been overtaken    *)
(* (ProfileFits).  And while crawls save one after the other there is one   *)
(* draft of the dossier at a time, while dossiers are promoted one after    *)
(* the other nobody else replaces the rivals of a draft: either is enough   *)
(* for the rivals that were read to be all there are (DossiersFit).         *)
(***************************************************************************)
EXTENDS MemoryExecutor, ConfirmStoreProofs

Unexecuted == {"absent", "pending", "confirmed", "rejected", "failed"}

Present(c) == status[c] # "absent"

ChangesFit ==
    \A c \in Proposals :
        /\ Present(c) => draft[c] \in Drafts
        /\ pc[c] # "idle" => status[c] \in {"executing", "needs_review"}
        /\ pc[c] \in {"read", "write"} => history[c] = 0
        /\ pc[c] \in {"row", "drop", "swap", "finalize"} => history[c] = 1
        /\ history[c] <= 1
        /\ status[c] \in Unexecuted => history[c] = 0
        /\ status[c] = "applied" => history[c] = 1

Creator(z) == z = Elder \/ (z \in Proposals /\ history[z] = 1)

\* A profile with these notes and details holds what was told since the last
\* clear, and nothing else.
Whole(notes, rows) ==
    /\ notes \cup rows \subseteq told
    /\ \A c \in told \ overtaken :
        /\ Patched(c, "row") => c \in notes
        /\ Patched(c, "details") => c \in rows

ToldFits ==
    /\ \A z \in told : Creator(z)
    /\ profile = NoProfile => told \subseteq overtaken

RowFits ==
    profile # NoProfile => Creator(profile.id) /\ Whole(profile.notes, details[profile.id])

DetailsFit ==
    \A p \in Sources : details[p] # {} =>
        Creator(p) /\ (Exists(p) \/ details[p] \cap overtaken # {})

\* Details that differ from those that were read are gone or overtaken.
ViewFits(c) ==
    view[c] # NoProfile =>
        /\ pc[c] = "write"
        /\ Creator(view[c].id)
        /\ Exists(view[c].id) => Whole(view[c].notes, view[c].details)
        /\ \/ details[view[c].id] \in {view[c].details, {}}
           \/ details[view[c].id] \cap overtaken # {}

ViewsFit == \A c \in Proposals : ViewFits(c)

ProfileFits == ToldFits /\ RowFits /\ DetailsFit /\ ViewsFit

RowsFit ==
    /\ \A d \in Dossiers :
        /\ dossier[d] # NoRow => crawl[d].step = "over"
        /\ dossier[d].status = "none" => dossier[d] = NoRow
    /\ \A c \in Proposals : Present(c) /\ draft[c].dossier \in Dossiers =>
        /\ crawl[draft[c].dossier].step = "over"
        /\ \A x \in Proposals : Present(x) /\ draft[x].dossier = draft[c].dossier => x = c
        /\ draft[c].dossier \in Current => history[c] = 1
    /\ \A d \in Current : \E c \in Proposals : Present(c) /\ draft[c].dossier = d

IsDraft(d) == dossier[d].status = "draft"

\* Crawls that save one after the other leave one draft.
OneDraft ==
    ~crossed =>
        /\ \A d, e \in Dossiers : Saving(d) /\ Saving(e) => d = e
        /\ \A d, e \in Dossiers : IsDraft(d) /\ IsDraft(e) => d = e
        /\ \A d, e \in Dossiers : crawl[d].step = "delete" /\ IsDraft(e) => e \in crawl[d].found

OnePromotion ==
    ~raced => \A c, x \in Proposals : pc[c] = "swap" /\ pc[x] = "swap" => c = x

OneCurrent ==
    ~(crossed /\ raced) =>
        /\ \A d, e \in Current : d = e
        /\ \A c \in Proposals : pc[c] = "swap" /\ IsDraft(draft[c].dossier) =>
              \A e \in Current :
                  /\ e \in rivals[c]
                  /\ dossier[e].version <= dossier[draft[c].dossier].version

DossiersFit == RowsFit /\ OneDraft /\ OnePromotion /\ OneCurrent

MemoryInv == TypeOK /\ ChangesFit /\ ProfileFits /\ DossiersFit

-----------------------------------------------------------------------------
\* What the confirmation, the sweeps and the clock do to the table.
OnlyDecides ==
    /\ UNCHANGED <<memoryVars, draft>>
    /\ \A c \in Proposals :
        \/ status'[c] = status[c]
        \/ status[c] = "pending" /\ status'[c] \in {"confirmed", "rejected"}
        \/ status[c] = "executing" /\ status'[c] = "needs_review"
        \/ status[c] = "confirmed" /\ status'[c] = "failed"

LEMMA TableDecides ==
    ASSUME StoreTypeOK, \/ \E c \in Proposals : Table(c)
                        \/ Advance /\ UNCHANGED memoryVars
    PROVE  OnlyDecides /\ StoreTypeOK'
<1>1. ASSUME NEW c \in Proposals, Table(c) PROVE OnlyDecides /\ StoreMove
  <2> USE DEF Table, OnlyDecides, StoreMove, Decides, StoreTypeOK
  <2>1. ASSUME NEW m \in Messages, BindCard(c, draft[c].author, draft[c].chat, m)
        PROVE  OnlyDecides /\ StoreMove
    BY <1>1, <2>1 DEF BindCard, MatchBind, Stamp, Anchors
  <2>2. ASSUME NEW m \in Messages, ConfirmByReply(c, draft[c].author, draft[c].chat, m)
        PROVE  OnlyDecides /\ StoreMove
    BY <1>1, <2>2 DEF ConfirmByReply, MatchConfirmByReply, Decide
  <2>3. CASE CleanupStale(c)
    BY <1>1, <2>3 DEF CleanupStale, Reject, MatchReject, Decide
  <2>4. CASE ReconcileExecuting(c)
    BY <1>1, <2>4 DEF ReconcileExecuting, MarkNeedsReview, MatchNeedsReview, Decide
  <2>5. CASE ReconcileConfirmed(c)
    BY <1>1, <2>5 DEF ReconcileConfirmed, MarkConfirmedFailed, MatchConfirmedFailed, Decide
  <2> QED
    BY <1>1, <2>1, <2>2, <2>3, <2>4, <2>5 DEF Reply
<1>2. ASSUME Advance, UNCHANGED memoryVars PROVE OnlyDecides /\ StoreMove
  BY <1>2 DEF Advance, OnlyDecides, StoreMove
<1> QED
  BY <1>1, <1>2, StoreTypeMove

\* What others decide about an executor, and what it decides about itself,
\* leaves the profile alone when it only forgets what it has read.
LEMMA ProfileStays ==
    ASSUME ProfileFits, UNCHANGED <<profile, details, told, overtaken>>,
           \A x \in Proposals : history[x] = 1 => history'[x] = 1 /\ draft'[x] = draft[x],
           \A x \in Proposals : \/ view'[x] = NoProfile
                                \/ view'[x] = view[x] /\ pc'[x] = pc[x]
    PROVE  ProfileFits'
<1>1. \A z : Creator(z) => Creator(z)'
  BY DEF Creator
<1>2. \A z \in told, part \in {"row", "details"} : Patched(z, part)' = Patched(z, part)
  <2>1. \A z \in told : z = Elder \/ (z \in Proposals /\ draft'[z] = draft[z])
    BY DEF ProfileFits, ToldFits, Creator
  <2> QED
    BY <2>1 DEF Patched
<1>3. \A notes, rows : Whole(notes, rows) => Whole(notes, rows)'
  BY <1>2 DEF Whole
<1>4. ToldFits'
  BY <1>1 DEF ProfileFits, ToldFits
<1>5. RowFits'
  BY <1>1, <1>3 DEF ProfileFits, RowFits
<1>6. DetailsFit'
  BY <1>1 DEF ProfileFits, DetailsFit, Exists
<1>7. ViewsFit'
  <2> SUFFICES ASSUME NEW x \in Proposals, view'[x] # NoProfile PROVE ViewFits(x)'
    BY DEF ViewsFit, ViewFits
  <2>1. view'[x] = view[x] /\ pc'[x] = pc[x]
    OBVIOUS
  <2>2. ViewFits(x)
    BY DEF ProfileFits, ViewsFit
  <2>3. Exists(view[x].id)' <=> Exists(view[x].id)
    BY <2>1 DEF Exists
  <2>4. Whole(view[x].notes, view[x].details) => Whole(view[x].notes, view[x].details)'
    BY <1>3, <2>1
  <2>5. Creator(view[x].id) => Creator(view[x].id)'
    BY <1>1, <2>1
  <2> QED
    BY <2>1, <2>2, <2>3, <2>4, <2>5 DEF ViewFits
<1> QED
  BY <1>4, <1>5, <1>6, <1>7 DEF ProfileFits

\* Nor does it disturb the dossiers when no promotion comes about by it.
LEMMA DossiersStay ==
    ASSUME DossiersFit, UNCHANGED <<dossier, crawl, crossed, raced>>,
           \A x \in Proposals : /\ Present(x)' <=> Present(x)
                                /\ Present(x) => draft'[x] = draft[x]
                                /\ history[x] = 1 => history'[x] = 1
                                /\ pc'[x] = "swap" => pc[x] = "swap" /\ rivals'[x] = rivals[x]
                                /\ pc[x] = "swap" => Present(x)
    PROVE  DossiersFit'
<1>1. Current' = Current /\ \A d : IsDraft(d)' <=> IsDraft(d)
  BY DEF Current, IsDraft
<1>2. RowsFit'
  <2>1. \A x \in Proposals : Present(x)' =>
            /\ Present(x) /\ draft'[x] = draft[x]
            /\ history[x] = 1 => history'[x] = 1
    OBVIOUS
  <2>2. \A d \in Current : \E c \in Proposals : Present(c)' /\ draft'[c].dossier = d
    BY DEF DossiersFit, RowsFit
  <2> HIDE DEF Present
  <2> QED
    BY <1>1, <2>1, <2>2 DEF DossiersFit, RowsFit
<1>3. OneDraft'
  BY <1>1 DEF DossiersFit, OneDraft, Saving, IsDraft
<1>4. OnePromotion'
  BY DEF DossiersFit, OnePromotion
<1>5. OneCurrent'
  <2>1. \A x \in Proposals : pc'[x] = "swap" =>
            pc[x] = "swap" /\ rivals'[x] = rivals[x] /\ draft'[x] = draft[x]
    OBVIOUS
  <2> QED
    BY <1>1, <2>1 DEF DossiersFit, OneCurrent, IsDraft
<1> QED
  BY <1>2, <1>3, <1>4, <1>5 DEF DossiersFit

LEMMA DecidesKeeps ==
    ASSUME MemoryInv, OnlyDecides, StoreTypeOK'
    PROVE  MemoryInv'
<1> USE DEF OnlyDecides, memoryVars, executorVars, profileVars, dossierVars, MemoryInv
<1>1. TypeOK'
  BY DEF TypeOK
<1>2. ChangesFit'
  BY DEF ChangesFit, Unexecuted, Present
<1>3. ProfileFits'
  BY ProfileStays
<1>4. DossiersFit'
  <2>1. \A x \in Proposals : Present(x)' <=> Present(x)
    BY DEF Present
  <2>2. \A x \in Proposals : pc[x] = "swap" => Present(x)
    BY DEF ChangesFit, Present
  <2> QED
    BY <2>1, <2>2, DossiersStay
<1> QED
  BY <1>1, <1>2, <1>3, <1>4

-----------------------------------------------------------------------------
(* The steps of an executor.                                                *)

LEMMA ReadProfileKeeps ==
    ASSUME MemoryInv, NEW c \in Proposals, ReadProfile(c)
    PROVE  MemoryInv'
<1> USE MemoryAssumption
    DEF ReadProfile, storeVars, profileVars, dossierVars, MemoryInv, Goto
<1> DEFINE read == IF profile = NoProfile THEN NoProfile
                   ELSE [id |-> profile.id, notes |-> profile.notes, details |-> details[profile.id]]
<1>0. /\ pc' = [pc EXCEPT ![c] = "write"] /\ pc[c] = "read"
      /\ view' = [view EXCEPT ![c] = read]
      /\ read \in Views
  <2>1. CASE profile = NoProfile
    BY <2>1 DEF Views
  <2>2. CASE profile # NoProfile
    <3>1. profile.id \in Sources /\ profile.notes \subseteq Sources
      BY <2>2 DEF TypeOK, Profiles
    <3>2. details[profile.id] \subseteq Sources
      BY <3>1 DEF TypeOK
    <3> QED
      BY <2>2, <3>1, <3>2 DEF Views
  <2> QED
    BY <2>1, <2>2
<1>1. TypeOK'
  <2> HIDE DEF read
  <2> QED
    BY <1>0 DEF TypeOK, StoreTypeOK
<1>2. ChangesFit'
  BY DEF TypeOK, ChangesFit, Unexecuted, Present
<1>3. ProfileFits'
  <2>1. /\ \A z : Creator(z)' <=> Creator(z)
        /\ \A notes, rows : Whole(notes, rows)' <=> Whole(notes, rows)
        /\ \A p : Exists(p)' <=> Exists(p)
    BY DEF Creator, Whole, Patched, Exists
  <2>2. ToldFits' /\ RowFits' /\ DetailsFit'
    BY <2>1 DEF ProfileFits, ToldFits, RowFits, DetailsFit
  <2>3. ViewsFit'
    <3> SUFFICES ASSUME NEW x \in Proposals, view'[x] # NoProfile PROVE ViewFits(x)'
      BY DEF ViewsFit, ViewFits
    <3>1. CASE x = c
      <4>1. profile # NoProfile /\ view'[x] = read /\ pc'[x] = "write"
        BY <1>0, <3>1 DEF TypeOK
      <4>2. /\ view'[x].id = profile.id
            /\ view'[x].notes = profile.notes
            /\ view'[x].details = details[profile.id]
        BY <4>1
      <4> HIDE DEF read
      <4> QED
        BY <2>1, <4>1, <4>2 DEF ProfileFits, RowFits, ViewFits, Creator, Whole, Patched, Exists
    <3>2. CASE x # c
      <4>1. view'[x] = view[x] /\ pc'[x] = pc[x] /\ ViewFits(x)
        BY <1>0, <3>2 DEF TypeOK, ProfileFits, ViewsFit
      <4> QED
        BY <4>1 DEF ViewFits, Creator, Whole, Patched, Exists
    <3> QED
      BY <3>1, <3>2
  <2> QED
    BY <2>2, <2>3 DEF ProfileFits
<1>4. DossiersFit'
  <2>1. \A x \in Proposals : /\ Present(x)' <=> Present(x)
                             /\ pc'[x] = "swap" => pc[x] = "swap" /\ rivals'[x] = rivals[x]
                             /\ pc[x] = "swap" => Present(x)
    BY DEF TypeOK, ChangesFit, Present
  <2> QED
    BY <2>1, DossiersStay
<1> QED
  BY <1>1, <1>2, <1>3, <1>4

LEMMA ClaimMemoryKeeps ==
    ASSUME MemoryInv, NEW c \in Proposals, ClaimMemory(c)
    PROVE  MemoryInv'
<1> USE MemoryAssumption DEF ClaimMemory, Claim, MatchClaim, profileVars, dossierVars, MemoryInv, Goto
<1>0. StoreTypeOK'
  <2>1. StoreMove
    BY DEF StoreMove
  <2> QED
    BY <2>1, StoreTypeMove DEF TypeOK
<1>1. TypeOK'
  BY <1>0 DEF TypeOK, ChangesFit, Present
<1>2. ChangesFit'
  BY DEF TypeOK, StoreTypeOK, ChangesFit, Unexecuted, Present
<1>3. ProfileFits'
  <2>1. \A x \in Proposals : view'[x] = NoProfile \/ (view'[x] = view[x] /\ pc'[x] = pc[x])
    BY DEF TypeOK, ProfileFits, ViewsFit, ViewFits
  <2> QED
    BY <2>1, ProfileStays
<1>4. DossiersFit'
  <2>1. \A x \in Proposals : /\ Present(x)' <=> Present(x)
                             /\ pc'[x] = "swap" => pc[x] = "swap" /\ rivals'[x] = rivals[x]
                             /\ pc[x] = "swap" => Present(x)
    BY DEF TypeOK, StoreTypeOK, ChangesFit, Present
  <2> QED
    BY <2>1, DossiersStay
<1> QED
  BY <1>1, <1>2, <1>3, <1>4

LEMMA FinalizeMemoryKeeps ==
    ASSUME MemoryInv, NEW c \in Proposals, FinalizeMemory(c)
    PROVE  MemoryInv'
<1> USE MemoryAssumption DEF FinalizeMemory, Finalize, MatchFinalize, Decide, storeVars,
                             profileVars, dossierVars, MemoryInv, Goto
<1>0. StoreTypeOK'
  <2>1. StoreMove \/ UNCHANGED storeVars
    BY DEF StoreMove, Decides
  <2> QED
    BY <2>1, StoreTypeMove DEF TypeOK, StoreTypeOK
<1>1. TypeOK'
  BY <1>0 DEF TypeOK
<1>2. ChangesFit'
  BY DEF TypeOK, StoreTypeOK, ChangesFit, Unexecuted, Present
<1>3. ProfileFits'
  <2>1. \A x \in Proposals : view'[x] = NoProfile \/ (view'[x] = view[x] /\ pc'[x] = pc[x])
    BY DEF TypeOK, ProfileFits, ViewsFit, ViewFits
  <2>2. UNCHANGED draft
    OBVIOUS
  <2> QED
    BY <2>1, <2>2, ProfileStays
<1>4. DossiersFit'
  <2>1. UNCHANGED <<draft, dossier, crawl, history, crossed, raced>>
    OBVIOUS
  <2>2. \A x \in Proposals : /\ Present(x)' <=> Present(x)
                             /\ pc'[x] = "swap" => pc[x] = "swap" /\ rivals'[x] = rivals[x]
                             /\ pc[x] = "swap" => Present(x)
    BY DEF TypeOK, StoreTypeOK, ChangesFit, Present
  <2> QED
    BY <2>1, <2>2, DossiersStay
<1> QED
  BY <1>1, <1>2, <1>3, <1>4

LEMMA MemoryFailsKeeps ==
    ASSUME MemoryInv, NEW c \in Proposals, MemoryFails(c)
    PROVE  MemoryInv'
<1> USE MemoryAssumption DEF MemoryFails, storeVars, profileVars, dossierVars, MemoryInv, Goto, Ends
<1>1. TypeOK'
  <2>1. NoProfile \in Views
    BY DEF Views
  <2> QED
    BY <2>1 DEF TypeOK, StoreTypeOK
<1>2. ChangesFit'
  BY DEF TypeOK, ChangesFit, Unexecuted, Present
<1>3. ProfileFits'
  <2>1. \A x \in Proposals : view'[x] = NoProfile \/ (view'[x] = view[x] /\ pc'[x] = pc[x])
    BY DEF TypeOK
  <2> QED
    BY <2>1, ProfileStays
<1>4. DossiersFit'
  <2>1. \A x \in Proposals : /\ Present(x)' <=> Present(x)
                             /\ pc'[x] = "swap" => pc[x] = "swap" /\ rivals'[x] = rivals[x]
                             /\ pc[x] = "swap" => Present(x)
    BY DEF TypeOK, ChangesFit, Present
  <2> QED
    BY <2>1, DossiersStay
<1> QED
  BY <1>1, <1>2, <1>3, <1>4

\* An upsert tells of c; what others have read, they write after it.
LEMMA UpsertKeeps ==
    ASSUME MemoryInv, NEW c \in Proposals, Upsert(c)
    PROVE  MemoryInv'
<1> USE MemoryAssumption DEF MemoryInv
<1>p. PICK p \in Sources : p = IF view[c] = NoProfile THEN c ELSE view[c].id
  BY DEF TypeOK, Views, Sources
<1>0. /\ pc[c] = "write" /\ history[c] = 0 /\ history' = [history EXCEPT ![c] = 1]
      /\ pc' = [pc EXCEPT ![c] = AfterUpsert(c)]
      /\ view' = [view EXCEPT ![c] = NoProfile] /\ rivals' = [rivals EXCEPT ![c] = {}]
      /\ told' = told \cup {c}
      /\ overtaken' = IF Overtakes(c) THEN overtaken \cup {c} ELSE overtaken
      /\ c \in Sources
      /\ UNCHANGED <<storeVars, dossier, crawl, crossed, raced>>
  <2>1. pc[c] = "write" /\ history[c] = 0
    BY DEF Upsert, ChangesFit
  <2>2. c \in Sources
    BY DEF Sources
  <2>3. history' = [history EXCEPT ![c] = 1]
    BY <2>1 DEF Upsert, Recorded
  <2> QED
    BY <2>1, <2>2, <2>3 DEF Upsert, Goto, Ends, dossierVars
<1>1. \/ /\ WritesRow(c) /\ SameRow(c)
         /\ profile' # NoProfile /\ profile'.id = p
         /\ profile'.notes = (IF view[c] = NoProfile THEN PatchOf(c, "row") ELSE view[c].notes \cup {c})
         /\ profile' \in Profiles
      \/ ~WritesRow(c) /\ profile' = profile
  <2>1. CASE WritesRow(c) /\ SameRow(c) /\ profile' = Merged(c)
    <3> DEFINE n == IF view[c] = NoProfile THEN PatchOf(c, "row") ELSE view[c].notes \cup {c}
    <3>1. profile' = [id |-> p, notes |-> n]
      BY <1>p, <2>1 DEF Merged
    <3>2. n \subseteq Sources
      BY <1>0 DEF PatchOf, TypeOK, Views
    <3>3. profile' \in [id : Sources, notes : SUBSET Sources]
      <4> HIDE DEF n
      <4> QED
        BY <1>0, <3>1, <3>2
    <3>4. profile'.id = p /\ profile'.notes = n
      BY <3>1
    <3>5. profile' \in Profiles /\ profile' # NoProfile
      BY <3>3 DEF Profiles, Sources
    <3> QED
      BY <2>1, <3>4, <3>5
  <2>2. CASE ~WritesRow(c) /\ UNCHANGED profile
    BY <2>2
  <2> QED
    BY <2>1, <2>2 DEF Upsert
<1>2. \/ "details" \notin draft[c].parts /\ details' = details
      \/ /\ "details" \in draft[c].parts
         /\ \E rows \in SUBSET Sources, left \in {{}, details[p]} :
                /\ details' = [details EXCEPT ![p] = rows]
                /\ rows = (IF view[c] = NoProfile THEN {} ELSE view[c].details) \cup {c} \cup left
                /\ view[c] = NoProfile => left = {}
  <2>1. CASE "details" \notin draft[c].parts
    BY <2>1 DEF Upsert, WriteDetails
  <2>2. CASE "details" \in draft[c].parts /\ view[c] = NoProfile
    <3>1. details' = [details EXCEPT ![p] = {c}] /\ {c} \in SUBSET Sources
      BY <1>0, <1>p, <2>2 DEF Upsert, WriteDetails
    <3> QED
      BY <2>2, <3>1
  <2>3. CASE "details" \in draft[c].parts /\ view[c] # NoProfile
    <3>1. PICK left \in Left(c) :
              details' = [details EXCEPT ![p] = view[c].details \cup {c} \cup left]
      BY <1>p, <2>3 DEF Upsert, WriteDetails
    <3>2. left \in {{}, details[p]}
      BY <1>p, <2>3 DEF Left
    <3>3. details[p] \subseteq Sources /\ view[c].details \subseteq Sources
      BY <1>0, <2>3 DEF TypeOK, Views
    <3>4. (view[c].details \cup {c} \cup left) \in SUBSET Sources
      BY <1>0, <3>2, <3>3
    <3> QED
      BY <2>3, <3>1, <3>2, <3>4
  <2> QED
    BY <2>1, <2>2, <2>3
<1>3. /\ \A x \in Proposals : x # c => view'[x] = view[x] /\ pc'[x] = pc[x]
      /\ view'[c] = NoProfile /\ overtaken \subseteq overtaken'
      /\ \A x \in Proposals : x # c /\ pc[x] = "write" => c \in overtaken'
      /\ ~SameRow(c) => c \in overtaken'
      /\ \A z : Creator(z) => Creator(z)'
      /\ Creator(c)' /\ ~Creator(c)
      /\ \A z, part : Patched(z, part)' <=> Patched(z, part)
  <2>1. /\ \A x \in Proposals : x # c => view'[x] = view[x] /\ pc'[x] = pc[x]
        /\ view'[c] = NoProfile
    BY <1>0 DEF TypeOK
  <2>2. /\ overtaken \subseteq overtaken'
        /\ \A x \in Proposals : x # c /\ pc[x] = "write" => c \in overtaken'
        /\ ~SameRow(c) => c \in overtaken'
    BY <1>0 DEF Overtakes
  <2>3. /\ \A z : Creator(z) => Creator(z)'
        /\ Creator(c)' /\ ~Creator(c)
    BY <1>0 DEF TypeOK, Creator
  <2>4. \A z, part : Patched(z, part)' <=> Patched(z, part)
    BY <1>0 DEF Patched, storeVars
  <2> QED
    BY <2>1, <2>2, <2>3, <2>4
<1>4. details' \in [Sources -> SUBSET Sources] /\ \A q \in Sources : q # p => details'[q] = details[q]
  <2>1. details \in [Sources -> SUBSET Sources]
    BY DEF TypeOK
  <2>2. ASSUME NEW rows \in SUBSET Sources, details' = [details EXCEPT ![p] = rows]
        PROVE  details' \in [Sources -> SUBSET Sources] /\ \A q \in Sources : q # p => details'[q] = details[q]
    BY <2>1, <2>2
  <2> QED
    BY <1>2, <2>1, <2>2
<1>5. TypeOK'
  <2>1. /\ view' \in [Proposals -> Views] /\ rivals' \in [Proposals -> SUBSET Dossiers]
        /\ history' \in [Proposals -> Nat] /\ StoreTypeOK'
        /\ told' \subseteq Sources /\ overtaken' \subseteq Proposals
    BY <1>0 DEF TypeOK, StoreTypeOK, Views, storeVars
  <2>2. profile' \in Profiles
    BY <1>1 DEF TypeOK
  <2>3. /\ pc' \in [Proposals -> {"idle", "read", "write", "row", "drop", "swap", "finalize"}]
        /\ \A x \in Proposals : pc'[x] # "idle" => draft'[x] \in Drafts
        /\ \A x \in Proposals : pc'[x] \in {"row", "drop", "swap"} => draft'[x].dossier \in Dossiers
    BY <1>0 DEF TypeOK, AfterUpsert, storeVars
  <2>4. /\ dossier' \in [Dossiers -> [status : {"none", "draft", "current"}, version : Nat]]
        /\ crawl' \in [Dossiers -> [step : {"before", "count", "delete", "over"}, version : Nat,
                                    found : SUBSET Dossiers]]
        /\ crossed' \in BOOLEAN /\ raced' \in BOOLEAN
    BY <1>0 DEF TypeOK
  <2> QED
    BY <1>4, <2>1, <2>2, <2>3, <2>4 DEF TypeOK
<1>6. ChangesFit'
  BY <1>0 DEF TypeOK, ChangesFit, Unexecuted, Present, AfterUpsert, storeVars
<1>7. ProfileFits'
  <2>1. CASE view[c] = NoProfile
    <3>1. /\ profile = NoProfile /\ profile' # NoProfile /\ profile'.id = c /\ p = c
          /\ profile'.notes = PatchOf(c, "row")
      BY <1>p, <1>1, <2>1 DEF WritesRow, SameRow
    <3>2. told \subseteq overtaken
      BY <3>1 DEF ProfileFits, ToldFits
    <3>3. details[c] = {}
      BY <1>0, <1>3 DEF ProfileFits, DetailsFit
    <3>4. details'[c] = PatchOf(c, "details")
      <4>1. \A rows : details' = [details EXCEPT ![p] = rows] => details'[c] = rows
        BY <1>0, <3>1 DEF TypeOK
      <4> QED
        BY <1>2, <2>1, <3>3, <4>1 DEF PatchOf
    <3>5. ToldFits'
      BY <1>0, <1>3, <3>1 DEF ProfileFits, ToldFits
    <3>6. RowFits'
      <4>1. (PatchOf(c, "row") \cup PatchOf(c, "details")) \subseteq told'
        BY <1>0 DEF PatchOf
      <4>2. \A z \in told' \ overtaken' : z = c
        BY <1>0, <1>3, <3>2
      <4>3. /\ Patched(c, "row")' => c \in PatchOf(c, "row")
            /\ Patched(c, "details")' => c \in PatchOf(c, "details")
        BY <1>3 DEF Patched, PatchOf
      <4>4. Whole(profile.notes, details[profile.id])'
        BY <3>1, <3>4, <4>1, <4>2, <4>3 DEF Whole
      <4> QED
        BY <1>3, <3>1, <4>4 DEF RowFits
    <3>7. DetailsFit'
      BY <1>3, <1>4, <3>1 DEF ProfileFits, DetailsFit, Exists
    <3>8. ViewsFit'
      <4> SUFFICES ASSUME NEW x \in Proposals, view'[x] # NoProfile PROVE ViewFits(x)'
        BY DEF ViewsFit, ViewFits
      <4>1. x # c /\ view'[x] = view[x] /\ pc'[x] = pc[x] /\ ViewFits(x)
        BY <1>3 DEF ProfileFits, ViewsFit
      <4>2. view[x].id # c /\ view[x].id \in Sources
        BY <1>3, <4>1 DEF ViewFits, TypeOK, Views
      <4>3. ~Exists(view[x].id)'
        BY <3>1, <4>1, <4>2 DEF Exists
      <4>4. details'[view[x].id] = details[view[x].id]
        BY <1>4, <3>1, <4>2
      <4> QED
        BY <1>3, <4>1, <4>3, <4>4 DEF ViewFits, Exists
    <3> QED
      BY <3>5, <3>6, <3>7, <3>8 DEF ProfileFits
  <2>2. CASE view[c] # NoProfile
    <3>0. p = view[c].id /\ Creator(p) /\ p # c
      BY <1>p, <1>3, <2>2 DEF ProfileFits, ViewsFit, ViewFits
    <3>1. /\ (profile' # NoProfile) <=> (profile # NoProfile)
          /\ profile' # NoProfile => profile'.id = profile.id
          /\ SameRow(c) <=> Exists(p)
          /\ \A q : Exists(q)' <=> Exists(q)
      BY <1>1, <2>2, <3>0 DEF SameRow, Exists
    <3>2. ToldFits'
      <4>1. profile' = NoProfile => told' \subseteq overtaken'
        BY <1>0, <1>3, <2>2, <3>1 DEF ProfileFits, ToldFits, SameRow
      <4> QED
        BY <1>0, <1>3, <4>1 DEF ProfileFits, ToldFits
    <3>3. RowFits'
      <4> SUFFICES ASSUME profile' # NoProfile PROVE RowFits'
        BY DEF RowFits
      <4>1. Creator(profile.id) /\ Whole(profile.notes, details[profile.id])
        BY <3>1 DEF ProfileFits, RowFits
      <4>2. CASE ~SameRow(c)
        <5>1. profile' = profile /\ profile.id # p /\ c \in overtaken' /\ profile.id \in Sources
          BY <1>1, <1>3, <3>1, <4>2 DEF Exists, TypeOK, Profiles
        <5>2. details'[profile.id] = details[profile.id]
          BY <1>4, <5>1
        <5>3. Whole(profile.notes, details[profile.id])'
          BY <1>0, <1>3, <4>1, <5>1, <5>2 DEF Whole
        <5> QED
          BY <1>3, <4>1, <5>1, <5>3 DEF RowFits
      <4>3. CASE SameRow(c)
        <5>1. /\ profile.id = p /\ profile'.id = p
              /\ Whole(view[c].notes, view[c].details)
          BY <2>2, <3>0, <3>1, <4>3 DEF Exists, ProfileFits, ViewsFit, ViewFits
        <5>2. \/ "row" \in draft[c].parts /\ profile'.notes = view[c].notes \cup {c}
              \/ "row" \notin draft[c].parts /\ profile'.notes = profile.notes
          BY <1>1, <2>2 DEF WritesRow
        <5>3. \/ "details" \notin draft[c].parts /\ details'[p] = details[p]
              \/ /\ "details" \in draft[c].parts
                 /\ \E left \in {{}, details[p]} : details'[p] = view[c].details \cup {c} \cup left
          BY <1>0, <1>2, <2>2 DEF TypeOK
        <5>4. Whole(profile.notes, details[p])
          BY <4>1, <5>1
        <5>5. (profile'.notes \cup details'[p]) \subseteq told'
          BY <1>0, <5>1, <5>2, <5>3, <5>4 DEF Whole
        <5>6. ASSUME NEW z \in told' \ overtaken'
              PROVE  /\ Patched(z, "row") => z \in profile'.notes
                     /\ Patched(z, "details") => z \in details'[p]
          <6>1. CASE z = c
            <7>1. c # Elder
              BY DEF Sources
            <7> QED
              BY <5>2, <5>3, <6>1, <7>1 DEF Patched
          <6>2. CASE z # c
            <7>1. z \in told \ overtaken
              BY <1>0, <1>3, <5>6, <6>2
            <7> QED
              BY <5>1, <5>2, <5>3, <5>4, <7>1 DEF Whole
          <6> QED
            BY <6>1, <6>2
        <5>7. Whole(profile.notes, details[p])' <=>
                 /\ (profile'.notes \cup details'[p]) \subseteq told'
                 /\ \A z \in told' \ overtaken' : /\ Patched(z, "row") => z \in profile'.notes
                                                  /\ Patched(z, "details") => z \in details'[p]
          BY <1>3 DEF Whole
        <5> QED
          BY <1>3, <4>1, <5>1, <5>5, <5>6, <5>7 DEF RowFits
      <4> QED
        BY <4>2, <4>3
    <3>4. DetailsFit'
      <4> SUFFICES ASSUME NEW q \in Sources, details'[q] # {}
                   PROVE  Creator(q)' /\ (Exists(q)' \/ details'[q] \cap overtaken' # {})
        BY DEF DetailsFit
      <4>1. CASE details'[q] = details[q]
        BY <1>3, <3>1, <4>1 DEF ProfileFits, DetailsFit
      <4>2. CASE details'[q] # details[q]
        <5>1. q = p /\ c \in details'[q]
          BY <1>0, <1>2, <1>4, <4>2 DEF TypeOK
        <5> QED
          BY <1>3, <3>0, <3>1, <5>1
      <4> QED
        BY <4>1, <4>2
    <3>5. ViewsFit'
      <4> SUFFICES ASSUME NEW x \in Proposals, view'[x] # NoProfile PROVE ViewFits(x)'
        BY DEF ViewsFit, ViewFits
      <4>1. x # c /\ view'[x] = view[x] /\ pc'[x] = pc[x] /\ ViewFits(x)
        BY <1>3 DEF ProfileFits, ViewsFit
      <4>2. c \in overtaken' /\ view[x].id \in Sources
        BY <1>3, <4>1 DEF ViewFits, TypeOK, Views
      <4>3. Whole(view[x].notes, view[x].details) => Whole(view[x].notes, view[x].details)'
        BY <1>0, <1>3, <4>1, <4>2 DEF Whole
      <4>4. \/ details'[view[x].id] = details[view[x].id]
            \/ c \in details'[view[x].id]
        BY <1>0, <1>2, <4>2 DEF TypeOK
      <4> QED
        BY <1>3, <3>1, <4>1, <4>2, <4>3, <4>4 DEF ViewFits
    <3> QED
      BY <3>2, <3>3, <3>4, <3>5 DEF ProfileFits
  <2> QED
    BY <2>1, <2>2
<1>8. DossiersFit'
  <2>1. \A x \in Proposals : /\ Present(x)' <=> Present(x)
                             /\ pc'[x] = "swap" => pc[x] = "swap" /\ rivals'[x] = rivals[x]
                             /\ pc[x] = "swap" => Present(x)
                             /\ history[x] = 1 => history'[x] = 1
    BY <1>0 DEF TypeOK, ChangesFit, Present, AfterUpsert, storeVars
  <2> QED
    BY <1>0, <2>1, DossiersStay DEF storeVars
<1> QED
  BY <1>5, <1>6, <1>7, <1>8

\* A clear leaves no profile, or one that it has not read.
LEMMA ClearKeeps ==
    ASSUME MemoryInv, NEW c \in Proposals, Clear(c)
    PROVE  MemoryInv'
<1> USE MemoryAssumption DEF MemoryInv
<1>0. /\ pc[c] = "write" /\ history[c] = 0 /\ history' = [history EXCEPT ![c] = 1]
      /\ pc' = [pc EXCEPT ![c] = "finalize"]
      /\ view' = [view EXCEPT ![c] = NoProfile] /\ rivals' = [rivals EXCEPT ![c] = {}]
      /\ dossier' = [d \in Dossiers |-> NoRow]
      /\ UNCHANGED <<storeVars, crawl, overtaken, crossed, raced>>
  <2>1. pc[c] = "write" /\ history[c] = 0
    BY DEF Clear, ChangesFit
  <2>2. history' = [history EXCEPT ![c] = 1]
    BY <2>1 DEF Clear, Recorded
  <2> QED
    BY <2>1, <2>2 DEF Clear, Goto, Ends
<1>1. /\ \A x \in Proposals : \/ view'[x] = NoProfile
                              \/ view'[x] = view[x] /\ pc'[x] = pc[x]
      /\ \A z : Creator(z) => Creator(z)'
      /\ \A z, part : Patched(z, part)' <=> Patched(z, part)
  BY <1>0 DEF TypeOK, Creator, Patched, storeVars
<1>2. \/ profile' = profile /\ told' = told /\ (profile # NoProfile => ~SameRow(c) \/ view[c] = NoProfile)
      \/ profile' = NoProfile /\ told' = {} /\ view[c] # NoProfile /\ SameRow(c)
  BY DEF Clear
<1>3. \/ details' = details /\ view[c] = NoProfile
      \/ /\ view[c] # NoProfile /\ view[c].id \in Sources
         /\ \E left \in SUBSET Sources :
                /\ details' = [details EXCEPT ![view[c].id] = left]
                /\ left = {} \/ (left = details[view[c].id] /\ left # view[c].details)
  <2>1. CASE view[c] = NoProfile
    BY <2>1 DEF Clear
  <2>2. CASE view[c] # NoProfile
    <3>1. view[c].id \in Sources
      BY <2>2 DEF TypeOK, Views
    <3>2. PICK left \in Left(c) : details' = [details EXCEPT ![view[c].id] = left]
      BY <2>2 DEF Clear
    <3>3. left = {} \/ (left = details[view[c].id] /\ left # view[c].details)
      BY <3>2 DEF Left
    <3>4. left \in SUBSET Sources
      BY <3>1, <3>3 DEF TypeOK
    <3> QED
      BY <2>2, <3>1, <3>2, <3>3, <3>4
  <2> QED
    BY <2>1, <2>2
<1>4. /\ details' \in [Sources -> SUBSET Sources]
      /\ \A q \in Sources : details'[q] = details[q] \/ details'[q] = {}
      /\ \A q \in Sources : view[c] = NoProfile \/ q # view[c].id => details'[q] = details[q]
      /\ view[c] # NoProfile => details'[view[c].id] = {} \/ details'[view[c].id] # view[c].details
  <2>1. details \in [Sources -> SUBSET Sources]
    BY DEF TypeOK
  <2>2. CASE details' = details /\ view[c] = NoProfile
    BY <2>1, <2>2
  <2>3. CASE view[c] # NoProfile
    <3>1. PICK left \in SUBSET Sources :
              /\ details' = [details EXCEPT ![view[c].id] = left]
              /\ left = {} \/ (left = details[view[c].id] /\ left # view[c].details)
      BY <1>3, <2>3
    <3>2. view[c].id \in Sources
      BY <1>3, <2>3
    <3> QED
      BY <2>1, <2>3, <3>1, <3>2
  <2> QED
    BY <1>3, <2>2, <2>3
<1>5. TypeOK'
  <2>1. told' \subseteq Sources /\ profile' \in Profiles
    BY <1>2 DEF TypeOK, Profiles
  <2>2. /\ view' \in [Proposals -> Views] /\ rivals' \in [Proposals -> SUBSET Dossiers]
        /\ dossier' \in [Dossiers -> [status : {"none", "draft", "current"}, version : Nat]]
    BY <1>0 DEF TypeOK, Views, NoRow
  <2> QED
    BY <1>0, <1>4, <2>1, <2>2 DEF TypeOK, StoreTypeOK, storeVars
<1>6. ChangesFit'
  BY <1>0 DEF TypeOK, ChangesFit, Unexecuted, Present, storeVars
<1>7. ProfileFits'
  <2>1. CASE profile' = profile /\ told' = told /\ (profile # NoProfile => ~SameRow(c) \/ view[c] = NoProfile)
    <3>1. /\ \A q : Exists(q)' <=> Exists(q)
          /\ \A notes, rows : Whole(notes, rows)' <=> Whole(notes, rows)
      BY <1>0, <1>1, <2>1 DEF Exists, Whole
    <3>2. profile # NoProfile => profile.id \in Sources /\ details'[profile.id] = details[profile.id]
      BY <1>4, <2>1 DEF TypeOK, Profiles, SameRow
    <3>3. ToldFits'
      BY <1>0, <1>1, <2>1 DEF ProfileFits, ToldFits
    <3>4. RowFits'
      BY <1>0, <1>1, <2>1, <3>2 DEF ProfileFits, RowFits, Whole
    <3>5. DetailsFit'
      BY <1>0, <1>1, <1>4, <3>1 DEF ProfileFits, DetailsFit
    <3>6. ViewsFit'
      <4> SUFFICES ASSUME NEW x \in Proposals, view'[x] # NoProfile PROVE ViewFits(x)'
        BY DEF ViewsFit, ViewFits
      <4>1. view'[x] = view[x] /\ pc'[x] = pc[x] /\ ViewFits(x) /\ view[x].id \in Sources
        BY <1>1 DEF ProfileFits, ViewsFit, TypeOK, Views
      <4>2. Whole(view[x].notes, view[x].details) => Whole(view[x].notes, view[x].details)'
        BY <1>0, <1>1, <2>1, <4>1 DEF Whole
      <4>3. details'[view[x].id] = details[view[x].id] \/ details'[view[x].id] = {}
        BY <1>4, <4>1
      <4> QED
        BY <1>0, <1>1, <3>1, <4>1, <4>2, <4>3 DEF ViewFits
    <3> QED
      BY <3>3, <3>4, <3>5, <3>6 DEF ProfileFits
  <2>2. CASE profile' = NoProfile /\ told' = {} /\ view[c] # NoProfile /\ SameRow(c)
    <3>1. \A q : ~Exists(q)'
      BY <2>2 DEF Exists
    <3>2. ToldFits' /\ RowFits'
      BY <2>2 DEF ToldFits, RowFits
    <3>3. ViewFits(c) /\ \A q : Exists(q) => q = view[c].id
      BY <2>2 DEF ProfileFits, ViewsFit, SameRow, Exists
    <3>4. DetailsFit'
      <4> SUFFICES ASSUME NEW q \in Sources, details'[q] # {}
                   PROVE  Creator(q)' /\ details'[q] \cap overtaken' # {}
        BY DEF DetailsFit
      <4>1. /\ details'[q] = details[q] /\ Creator(q)'
            /\ Exists(q) \/ details[q] \cap overtaken # {}
        BY <1>1, <1>4 DEF ProfileFits, DetailsFit
      <4>2. CASE q = view[c].id
        BY <1>0, <1>4, <2>2, <3>3, <4>1, <4>2 DEF ViewFits
      <4>3. CASE q # view[c].id
        BY <1>0, <3>3, <4>1, <4>3
      <4> QED
        BY <4>2, <4>3
    <3>5. ViewsFit'
      <4> SUFFICES ASSUME NEW x \in Proposals, view'[x] # NoProfile PROVE ViewFits(x)'
        BY DEF ViewsFit, ViewFits
      <4>1. view'[x] = view[x] /\ pc'[x] = pc[x] /\ ViewFits(x) /\ view[x].id \in Sources
        BY <1>1 DEF ProfileFits, ViewsFit, TypeOK, Views
      <4>2. details'[view[x].id] = details[view[x].id] \/ details'[view[x].id] = {}
        BY <1>4, <4>1
      <4> QED
        BY <1>0, <1>1, <3>1, <4>1, <4>2 DEF ViewFits
    <3> QED
      BY <3>2, <3>4, <3>5 DEF ProfileFits
  <2> QED
    BY <1>2, <2>1, <2>2
<1>8. DossiersFit'
  <2>1. /\ \A d \in Dossiers : dossier'[d] = NoRow /\ ~IsDraft(d)'
        /\ Current' = {}
    BY <1>0 DEF NoRow, IsDraft, Current
  <2>2. RowsFit'
    BY <1>0, <2>1 DEF DossiersFit, RowsFit, Present, storeVars, NoRow
  <2>3. OneDraft'
    BY <1>0, <2>1 DEF DossiersFit, OneDraft, Saving
  <2>4. OnePromotion'
    BY <1>0 DEF DossiersFit, OnePromotion, TypeOK
  <2>5. OneCurrent'
    BY <2>1 DEF OneCurrent
  <2> QED
    BY <2>2, <2>3, <2>4, <2>5 DEF DossiersFit
<1> QED
  BY <1>5, <1>6, <1>7, <1>8

LEMMA ReadDossierKeeps ==
    ASSUME MemoryInv, NEW c \in Proposals, ReadDossier(c)
    PROVE  MemoryInv'
<1> USE MemoryAssumption DEF MemoryInv
<1>0. /\ pc[c] = "row"
      /\ \/ pc' = [pc EXCEPT ![c] = "finalize"] /\ UNCHANGED rivals
         \/ pc' = [pc EXCEPT ![c] = "drop"] /\ UNCHANGED rivals
         \/ pc' = [pc EXCEPT ![c] = "swap"] /\ rivals' = [rivals EXCEPT ![c] = Current] /\ ~Outdated(c)
      /\ raced' = (raced \/ (pc'[c] = "swap" /\ \E x \in Proposals \ {c} : pc[x] = "swap"))
      /\ Current \subseteq Dossiers
      /\ UNCHANGED <<storeVars, view, profileVars, dossierVars, told, overtaken, crossed>>
  BY DEF ReadDossier, Goto, Current
<1>1. TypeOK'
  <2>1. rivals' \in [Proposals -> SUBSET Dossiers] /\ raced' \in BOOLEAN
    BY <1>0 DEF TypeOK
  <2> QED
    BY <1>0, <2>1 DEF TypeOK, StoreTypeOK, storeVars, profileVars, dossierVars
<1>2. ChangesFit'
  BY <1>0 DEF TypeOK, ChangesFit, Unexecuted, Present, storeVars, profileVars
<1>3. ProfileFits'
  <2>1. \A x \in Proposals : view'[x] = NoProfile \/ (view'[x] = view[x] /\ pc'[x] = pc[x])
    BY <1>0 DEF TypeOK, ProfileFits, ViewsFit, ViewFits
  <2> QED
    BY <1>0, <2>1, ProfileStays DEF storeVars, profileVars
<1>4. DossiersFit'
  <2>1. /\ UNCHANGED <<status, draft, dossier, crawl, history, crossed>>
        /\ Current' = Current /\ \A d : IsDraft(d)' <=> IsDraft(d)
        /\ raced => raced'
    BY <1>0 DEF storeVars, profileVars, dossierVars, Current, IsDraft
  <2>2. RowsFit' /\ OneDraft'
    BY <2>1 DEF DossiersFit, RowsFit, OneDraft, Present, Saving
  <2>3. OnePromotion'
    BY <1>0 DEF DossiersFit, OnePromotion, TypeOK
  <2>4. OneCurrent'
    <3> SUFFICES ASSUME ~(crossed /\ raced), NEW x \in Proposals, pc'[x] = "swap", IsDraft(draft[x].dossier),
                        NEW e \in Current
                 PROVE  /\ e \in rivals'[x]
                        /\ dossier[e].version <= dossier[draft[x].dossier].version
      BY <2>1 DEF DossiersFit, OneCurrent
    <3>1. CASE x # c
      BY <1>0, <3>1 DEF DossiersFit, OneCurrent, TypeOK
    <3>2. CASE x = c
      <4>1. rivals'[x] = Current /\ ~Outdated(c)
        BY <1>0, <3>2 DEF TypeOK
      <4>2. draft[c].dossier \in Dossiers /\ e \in Dossiers
        BY <1>0 DEF TypeOK
      <4>3. dossier[e].version \in Nat /\ dossier[draft[c].dossier].version \in Nat
        BY <4>2 DEF TypeOK
      <4> QED
        BY <3>2, <4>1, <4>3 DEF Outdated
    <3> QED
      BY <3>1, <3>2
  <2> QED
    BY <2>2, <2>3, <2>4 DEF DossiersFit
<1> QED
  BY <1>1, <1>2, <1>3, <1>4

LEMMA DropDossierKeeps ==
    ASSUME MemoryInv, NEW c \in Proposals, DropDossier(c)
    PROVE  MemoryInv'
<1> USE MemoryAssumption DEF MemoryInv, DropDossier, Goto, storeVars, profileVars
<1>0. /\ pc[c] = "drop" /\ pc' = [pc EXCEPT ![c] = "finalize"]
      /\ \A d \in Dossiers : dossier'[d] = dossier[d] \/ dossier'[d] = NoRow
  BY DEF TypeOK
<1>1. TypeOK'
  BY DEF TypeOK, StoreTypeOK, NoRow
<1>2. ChangesFit'
  BY DEF TypeOK, ChangesFit, Unexecuted, Present
<1>3. ProfileFits'
  <2>1. \A x \in Proposals : view'[x] = NoProfile \/ (view'[x] = view[x] /\ pc'[x] = pc[x])
    BY DEF TypeOK, ProfileFits, ViewsFit, ViewFits
  <2> QED
    BY <2>1, ProfileStays
<1>4. DossiersFit'
  <2>1. /\ Current' \subseteq Current
        /\ \A d \in Dossiers : IsDraft(d)' => IsDraft(d)
        /\ \A d \in Dossiers : dossier'[d].status # "none" => dossier'[d] = dossier[d]
        /\ NoRow.status = "none"
    BY <1>0 DEF Current, IsDraft, NoRow
  <2>2. UNCHANGED <<status, draft, crawl, history, crossed, raced, rivals>>
    OBVIOUS
  <2>3. \A x \in Proposals : pc'[x] = "swap" => pc[x] = "swap" /\ draft[x].dossier \in Dossiers
    BY DEF TypeOK
  <2> HIDE DEF DropDossier
  <2>4. RowsFit'
    BY <1>0, <2>1, <2>2 DEF DossiersFit, RowsFit, Present
  <2>5. OneDraft'
    BY <2>1, <2>2 DEF DossiersFit, OneDraft, Saving
  <2>6. OnePromotion'
    BY <2>2, <2>3 DEF DossiersFit, OnePromotion
  <2>7. OneCurrent'
    <3>1. \A d \in Current' : dossier'[d] = dossier[d]
      BY <2>1 DEF Current
    <3>2. \A d \in Dossiers : IsDraft(d)' => dossier'[d] = dossier[d]
      BY <2>1 DEF IsDraft
    <3> QED
      BY <2>1, <2>2, <2>3, <3>1, <3>2 DEF DossiersFit, OneCurrent
  <2> QED
    BY <2>4, <2>5, <2>6, <2>7 DEF DossiersFit
<1> QED
  BY <1>1, <1>2, <1>3, <1>4

\* Its rivals are all that is current, and nobody else can still replace them.
LEMMA SwapDossierKeeps ==
    ASSUME MemoryInv, NEW c \in Proposals, SwapDossier(c)
    PROVE  MemoryInv' /\ \A e \in Current' :
                            /\ e = draft[c].dossier \/ e \in Current
                            /\ dossier'[e].version = dossier[e].version
<1> USE MemoryAssumption DEF MemoryInv
<1>o. PICK own \in Dossiers : own = draft[c].dossier
  BY DEF SwapDossier, TypeOK
<1>0. /\ pc[c] = "swap" /\ pc' = [pc EXCEPT ![c] = "finalize"]
      /\ view' = [view EXCEPT ![c] = NoProfile] /\ rivals' = [rivals EXCEPT ![c] = {}]
      /\ \A d \in Dossiers : dossier'[d] =
            IF d = own THEN [dossier[d] EXCEPT !.status = "current"]
            ELSE IF d \in rivals[c] THEN NoRow ELSE dossier[d]
      /\ dossier'[own] = [status |-> "current", version |-> dossier[own].version]
      /\ UNCHANGED <<storeVars, profileVars, crawl, told, overtaken, crossed, raced>>
      /\ Present(c) /\ history[c] = 1
      /\ dossier[own].status \in {"draft", "current"}
  <2>1. pc[c] = "swap" /\ Present(c) /\ history[c] = 1
    BY DEF SwapDossier, ChangesFit, Present
  <2>2. dossier[own] # NoRow /\ dossier[own] \in [status : {"none", "draft", "current"}, version : Nat]
    BY <1>o DEF SwapDossier, TypeOK
  <2>3. dossier[own].status \in {"draft", "current"}
    BY <2>2 DEF DossiersFit, RowsFit
  <2>4. [dossier[own] EXCEPT !.status = "current"] = [status |-> "current", version |-> dossier[own].version]
    BY <2>2
  <2> QED
    BY <1>o, <2>1, <2>3, <2>4 DEF SwapDossier, Goto, Ends
<1>1. /\ dossier' \in [Dossiers -> [status : {"none", "draft", "current"}, version : Nat]]
      /\ \A d \in Dossiers : d # own => dossier'[d] = dossier[d] \/ dossier'[d] = NoRow
      /\ \A d \in rivals[c] : d \in Dossiers /\ d # own => dossier'[d] = NoRow
      /\ dossier'[own].status = "current" /\ dossier'[own].version = dossier[own].version
  <2>1. dossier' = [d \in Dossiers |-> dossier'[d]]
    BY DEF SwapDossier
  <2>2. NoRow \in [status : {"none", "draft", "current"}, version : Nat]
    BY DEF NoRow
  <2>3. /\ \A d \in Dossiers : d # own => dossier'[d] = dossier[d] \/ dossier'[d] = NoRow
        /\ \A d \in rivals[c] : d \in Dossiers /\ d # own => dossier'[d] = NoRow
        /\ dossier'[own].status = "current" /\ dossier'[own].version = dossier[own].version
    BY <1>0
  <2>4. dossier[own].version \in Nat
    BY DEF TypeOK
  <2>5. \A d \in Dossiers : dossier'[d] \in [status : {"none", "draft", "current"}, version : Nat]
    <3> TAKE d \in Dossiers
    <3>1. CASE d = own
      BY <1>0, <2>4, <3>1
    <3>2. CASE d # own
      BY <2>2, <2>3, <3>2 DEF TypeOK
    <3> QED
      BY <3>1, <3>2
  <2> QED
    BY <2>1, <2>3, <2>5
<1>2. NoRow.status = "none"
  BY DEF NoRow
<1>3. \A e \in Current' : /\ e = own \/ (e \in Current /\ e \notin rivals[c] /\ dossier'[e] = dossier[e])
                          /\ dossier'[e].version = dossier[e].version
  BY <1>1, <1>2 DEF Current
<1>4. TypeOK'
  <2>1. view' \in [Proposals -> Views] /\ rivals' \in [Proposals -> SUBSET Dossiers]
    BY <1>0 DEF TypeOK, Views
  <2> QED
    BY <1>0, <1>1, <2>1 DEF TypeOK, StoreTypeOK, storeVars, profileVars
<1>5. ChangesFit'
  BY <1>0 DEF TypeOK, ChangesFit, Unexecuted, Present, storeVars, profileVars
<1>6. ProfileFits'
  <2>1. \A x \in Proposals : view'[x] = NoProfile \/ (view'[x] = view[x] /\ pc'[x] = pc[x])
    BY <1>0 DEF TypeOK, ProfileFits, ViewsFit, ViewFits
  <2> QED
    BY <1>0, <2>1, ProfileStays DEF storeVars, profileVars
<1>7. DossiersFit'
  <2>1. /\ UNCHANGED <<status, draft, crawl, history, crossed, raced>>
        /\ \A x \in Proposals : pc'[x] = "swap" =>
              /\ x # c /\ pc[x] = "swap" /\ rivals'[x] = rivals[x]
              /\ Present(x) /\ draft[x].dossier \in Dossiers /\ draft[x].dossier # own
        /\ \A d \in Dossiers : IsDraft(d)' => d # own /\ IsDraft(d) /\ dossier'[d] = dossier[d]
    <3>1. UNCHANGED <<status, draft, crawl, history, crossed, raced>>
      BY <1>0 DEF storeVars, profileVars
    <3>2. \A x \in Proposals : pc'[x] = "swap" =>
              /\ x # c /\ pc[x] = "swap" /\ rivals'[x] = rivals[x]
              /\ Present(x) /\ draft[x].dossier \in Dossiers
      BY <1>0 DEF TypeOK, ChangesFit, Present
    <3>3. \A x \in Proposals : Present(x) /\ x # c => draft[x].dossier # own
      BY <1>o, <1>0 DEF DossiersFit, RowsFit
    <3>4. \A d \in Dossiers : IsDraft(d)' => d # own /\ IsDraft(d) /\ dossier'[d] = dossier[d]
      BY <1>1, <1>2 DEF IsDraft
    <3> QED
      BY <3>1, <3>2, <3>3, <3>4
  <2>2. RowsFit'
    <3>1. \A d \in Dossiers : /\ dossier'[d] # NoRow => crawl[d].step = "over"
                              /\ dossier'[d].status = "none" => dossier'[d] = NoRow
      BY <1>0, <1>1, <1>2 DEF DossiersFit, RowsFit
    <3>2. \A x \in Proposals :
              Present(x) /\ draft[x].dossier \in Dossiers /\ draft[x].dossier \in Current' =>
                  history[x] = 1
      <4> SUFFICES ASSUME NEW x \in Proposals, Present(x), draft[x].dossier \in Current' PROVE history[x] = 1
        OBVIOUS
      <4>1. CASE draft[x].dossier = own
        BY <1>o, <1>0, <4>1 DEF DossiersFit, RowsFit
      <4>2. CASE draft[x].dossier # own
        BY <1>3, <4>2 DEF DossiersFit, RowsFit, Current
      <4> QED
        BY <4>1, <4>2
    <3>3. \A d \in Current' : \E x \in Proposals : Present(x) /\ draft[x].dossier = d
      BY <1>o, <1>0, <1>3 DEF DossiersFit, RowsFit
    <3> QED
      BY <2>1, <3>1, <3>2, <3>3 DEF DossiersFit, RowsFit, Present
  <2>3. OneDraft'
    BY <2>1 DEF DossiersFit, OneDraft, Saving
  <2>4. OnePromotion'
    BY <2>1 DEF DossiersFit, OnePromotion
  <2>5. OneCurrent'
    <3> SUFFICES ASSUME ~(crossed /\ raced) PROVE OneCurrent'
      BY <2>1 DEF OneCurrent
    <3>1. \A e \in Current' : e = own
      <4>1. CASE dossier[own].status = "draft"
        BY <1>o, <1>0, <1>3, <4>1 DEF DossiersFit, OneCurrent, IsDraft
      <4>2. CASE dossier[own].status = "current"
        BY <1>3, <4>2 DEF DossiersFit, OneCurrent, Current
      <4> QED
        BY <1>0, <4>1, <4>2
    <3>2. ASSUME NEW x \in Proposals, pc'[x] = "swap", IsDraft(draft[x].dossier)'
          PROVE  own \in rivals'[x] /\ dossier'[own].version <= dossier'[draft[x].dossier].version
      <4>1. /\ x # c /\ pc[x] = "swap" /\ rivals'[x] = rivals[x] /\ draft[x].dossier \in Dossiers
            /\ draft[x].dossier # own
            /\ IsDraft(draft[x].dossier) /\ dossier'[draft[x].dossier] = dossier[draft[x].dossier]
        <5>1. UNCHANGED draft
          BY <2>1
        <5>2. IsDraft(draft[x].dossier)' <=> dossier'[draft[x].dossier].status = "draft"
          BY <5>1 DEF IsDraft
        <5>3. \A d \in Dossiers : dossier'[d].status = "draft" => IsDraft(d) /\ dossier'[d] = dossier[d]
          BY <2>1 DEF IsDraft
        <5> QED
          BY <2>1, <3>2, <5>2, <5>3
      <4>2. raced
        BY <1>0, <4>1 DEF DossiersFit, OnePromotion
      <4>3. ~crossed
        BY <4>2
      <4>4. ~IsDraft(own)
        BY <4>1, <4>3 DEF DossiersFit, OneDraft
      <4>5. own \in Current
        BY <1>0, <4>4 DEF IsDraft, Current
      <4>6. own \in rivals[x] /\ dossier[own].version <= dossier[draft[x].dossier].version
        BY <4>1, <4>5 DEF DossiersFit, OneCurrent
      <4> QED
        BY <1>1, <4>1, <4>6
    <3>3. \A x \in Proposals : pc'[x] = "swap" /\ IsDraft(draft[x].dossier)' =>
              \A e \in Current' : e \in rivals'[x] /\ dossier'[e].version <= dossier'[draft[x].dossier].version
      BY <3>1, <3>2
    <3> QED
      BY <2>1, <3>1, <3>3 DEF OneCurrent
  <2> QED
    BY <2>2, <2>3, <2>4, <2>5 DEF DossiersFit
<1> QED
  BY <1>o, <1>3, <1>4, <1>5, <1>6, <1>7

-----------------------------------------------------------------------------
(* The transaction that saves a dossier.                                    *)

LEMMA CrawlLeaves ==
    ASSUME MemoryInv, UNCHANGED <<storeVars, executorVars, profileVars, told, overtaken>>
    PROVE  ChangesFit' /\ ProfileFits'
<1> USE DEF MemoryInv, storeVars, executorVars, profileVars
<1>1. ChangesFit'
  BY DEF ChangesFit, Present
<1>2. ProfileFits'
  BY ProfileStays
<1> QED
  BY <1>1, <1>2

LEMMA CrawlCountsKeeps ==
    ASSUME MemoryInv, NEW d \in Dossiers, CrawlCounts(d)
    PROVE  MemoryInv'
<1> USE DEF MemoryInv
<1>0. /\ UNCHANGED <<storeVars, executorVars, profileVars, dossier, told, overtaken, raced>>
      /\ crawl[d].step = "before"
      /\ crossed' = (crossed \/ \E x \in Dossiers : Saving(x))
      /\ \E v \in Versions : crawl' = [crawl EXCEPT ![d] = [step |-> "count", version |-> v + 1, found |-> {}]]
  BY DEF CrawlCounts
<1>1. PICK v \in Nat : crawl' = [crawl EXCEPT ![d] = [step |-> "count", version |-> v + 1, found |-> {}]]
  <2>1. Versions \subseteq Nat
    BY DEF Versions, TypeOK
  <2> QED
    BY <1>0, <2>1
<1>2. /\ \A x \in Dossiers : x # d => crawl'[x] = crawl[x]
      /\ crawl'[d].step = "count"
  BY <1>1 DEF TypeOK
<1>3. TypeOK'
  <2>1. /\ crawl' \in [Dossiers -> [step : {"before", "count", "delete", "over"}, version : Nat,
                                    found : SUBSET Dossiers]]
        /\ crossed' \in BOOLEAN
    BY <1>0, <1>1 DEF TypeOK
  <2> QED
    BY <1>0, <2>1 DEF TypeOK, StoreTypeOK, storeVars, executorVars, profileVars
<1>4. ChangesFit' /\ ProfileFits'
  BY <1>0, CrawlLeaves
<1>5. DossiersFit'
  <2>1. UNCHANGED <<status, draft, pc, rivals, dossier, history, raced>> /\ (crossed => crossed')
    BY <1>0 DEF storeVars, executorVars, profileVars
  <2>2. dossier[d] = NoRow /\ \A x \in Proposals : Present(x) => draft[x].dossier # d
    BY <1>0 DEF DossiersFit, RowsFit
  <2>3. RowsFit'
    BY <1>2, <2>1, <2>2 DEF DossiersFit, RowsFit, Present, Current
  <2>4. OneDraft'
    BY <1>0, <1>2, <2>1 DEF DossiersFit, OneDraft, Saving, IsDraft
  <2>5. OnePromotion' /\ OneCurrent'
    BY <2>1 DEF DossiersFit, OnePromotion, OneCurrent, Current, IsDraft
  <2> QED
    BY <2>3, <2>4, <2>5 DEF DossiersFit
<1> QED
  BY <1>3, <1>4, <1>5

LEMMA CrawlDeletesKeeps ==
    ASSUME MemoryInv, NEW d \in Dossiers, CrawlDeletes(d)
    PROVE  MemoryInv'
<1> USE DEF MemoryInv
<1> DEFINE drafts == {x \in Dossiers : dossier[x].status = "draft"}
<1>0. /\ UNCHANGED <<storeVars, executorVars, profileVars, dossier, told, overtaken, crossed, raced>>
      /\ crawl[d].step = "count"
      /\ crawl' = [crawl EXCEPT ![d] = [step |-> "delete", version |-> crawl[d].version, found |-> drafts]]
  BY DEF CrawlDeletes
<1>2. /\ \A x \in Dossiers : x # d => crawl'[x] = crawl[x]
      /\ crawl'[d].step = "delete" /\ crawl'[d].found = drafts
  BY <1>0 DEF TypeOK
<1>3. TypeOK'
  <2>1. crawl[d].version \in Nat /\ drafts \in SUBSET Dossiers
    BY DEF TypeOK
  <2>2. crawl' \in [Dossiers -> [step : {"before", "count", "delete", "over"}, version : Nat,
                                 found : SUBSET Dossiers]]
    <3> HIDE DEF drafts
    <3> QED
      BY <1>0, <2>1 DEF TypeOK
  <2> QED
    BY <1>0, <2>2 DEF TypeOK, StoreTypeOK, storeVars, executorVars, profileVars
<1>4. ChangesFit' /\ ProfileFits'
  BY <1>0, CrawlLeaves
<1>5. DossiersFit'
  <2>1. UNCHANGED <<status, draft, pc, rivals, dossier, history, crossed, raced>>
    BY <1>0 DEF storeVars, executorVars, profileVars
  <2>2. dossier[d] = NoRow /\ \A x \in Proposals : Present(x) => draft[x].dossier # d
    BY <1>0 DEF DossiersFit, RowsFit
  <2>3. RowsFit'
    BY <1>2, <2>1, <2>2 DEF DossiersFit, RowsFit, Present, Current
  <2>4. OneDraft'
    <3>1. \A x \in Dossiers : Saving(x)' <=> Saving(x)
      BY <1>0, <1>2 DEF Saving
    <3>2. \A x \in Dossiers : IsDraft(x)' <=> x \in drafts
      BY <2>1 DEF IsDraft
    <3>3. ~crossed => \A x, e \in Dossiers : IsDraft(x)' /\ IsDraft(e)' => x = e
      BY <2>1 DEF DossiersFit, OneDraft, IsDraft
    <3>4. ~crossed => \A x \in Dossiers : crawl[x].step = "delete" => x = d
      BY <1>0 DEF DossiersFit, OneDraft, Saving
    <3> HIDE DEF drafts
    <3>5. ~crossed => \A x, e \in Dossiers : crawl'[x].step = "delete" /\ IsDraft(e)' => e \in crawl'[x].found
      BY <1>2, <3>2, <3>4
    <3>6. ~crossed => \A x, e \in Dossiers : Saving(x)' /\ Saving(e)' => x = e
      BY <3>1 DEF DossiersFit, OneDraft
    <3> QED
      BY <2>1, <3>3, <3>5, <3>6 DEF OneDraft
  <2>5. OnePromotion' /\ OneCurrent'
    BY <2>1 DEF DossiersFit, OnePromotion, OneCurrent, Current, IsDraft
  <2> QED
    BY <2>3, <2>4, <2>5 DEF DossiersFit
<1> QED
  BY <1>3, <1>4, <1>5

\* Only a draft that is saved at the same time is left beside the new one.
LEMMA CrawlSavesKeeps ==
    ASSUME MemoryInv, NEW d \in Dossiers, CrawlSaves(d)
    PROVE  MemoryInv' /\ Current' = Current /\ \A e \in Current : dossier'[e] = dossier[e]
<1> USE DEF MemoryInv
<1> DEFINE saved == [status |-> "draft", version |-> crawl[d].version]
<1>0. /\ UNCHANGED <<storeVars, executorVars, profileVars, told, overtaken, crossed, raced>>
      /\ crawl[d].step = "delete"
      /\ crawl' = [crawl EXCEPT ![d] = Outside("over")]
      /\ dossier' = [x \in Dossiers |->
                        IF x = d THEN saved
                        ELSE IF x \in crawl[d].found /\ dossier[x].status = "draft" THEN NoRow
                        ELSE dossier[x]]
  BY DEF CrawlSaves
<1>1. /\ \A x \in Dossiers : x # d => crawl'[x] = crawl[x]
      /\ crawl'[d].step = "over"
      /\ crawl' \in [Dossiers -> [step : {"before", "count", "delete", "over"}, version : Nat,
                                  found : SUBSET Dossiers]]
  <2>1. /\ Outside("over") \in [step : {"before", "count", "delete", "over"}, version : Nat,
                                found : SUBSET Dossiers]
        /\ Outside("over").step = "over"
    BY DEF Outside
  <2> HIDE DEF Outside
  <2> QED
    BY <1>0, <2>1 DEF TypeOK
<1>2. /\ saved \in [status : {"none", "draft", "current"}, version : Nat]
      /\ saved.status = "draft" /\ NoRow.status = "none"
      /\ NoRow \in [status : {"none", "draft", "current"}, version : Nat]
  BY DEF TypeOK, NoRow
<1>3. /\ dossier' \in [Dossiers -> [status : {"none", "draft", "current"}, version : Nat]]
      /\ dossier'[d] = saved
      /\ \A x \in Dossiers : x # d =>
            \/ dossier'[x] = dossier[x] /\ ~(x \in crawl[d].found /\ IsDraft(x))
            \/ dossier'[x] = NoRow /\ IsDraft(x)
  <2> HIDE DEF saved, NoRow
  <2> QED
    BY <1>0, <1>2 DEF TypeOK, IsDraft
<1>4. dossier[d] = NoRow /\ \A x \in Proposals : Present(x) => draft[x].dossier # d
  BY <1>0 DEF DossiersFit, RowsFit
<1> HIDE DEF saved
<1>5. Current' = Current /\ \A e \in Current : dossier'[e] = dossier[e] /\ e # d
  BY <1>2, <1>3, <1>4 DEF Current, IsDraft
<1>6. TypeOK'
  BY <1>0, <1>1, <1>3 DEF TypeOK, StoreTypeOK, storeVars, executorVars, profileVars
<1>7. ChangesFit' /\ ProfileFits'
  BY <1>0, CrawlLeaves
<1>8. DossiersFit'
  <2>1. UNCHANGED <<status, draft, pc, rivals, history, crossed, raced>>
    BY <1>0 DEF storeVars, executorVars, profileVars
  <2>2. RowsFit'
    <3>1. \A x \in Dossiers : /\ dossier'[x] # NoRow => crawl'[x].step = "over"
                              /\ dossier'[x].status = "none" => dossier'[x] = NoRow
      BY <1>1, <1>2, <1>3 DEF DossiersFit, RowsFit
    <3> QED
      BY <1>1, <1>4, <1>5, <2>1, <3>1 DEF DossiersFit, RowsFit, Present
  <2>3. OneDraft'
    <3> SUFFICES ASSUME ~crossed PROVE OneDraft'
      BY <2>1 DEF OneDraft
    <3>1. \A x \in Dossiers : Saving(x) => x = d
      BY <1>0 DEF DossiersFit, OneDraft, Saving
    <3>2. \A x \in Dossiers : ~Saving(x)'
      BY <1>1, <3>1 DEF Saving
    <3>3. \A x \in Dossiers : IsDraft(x)' => x = d
      BY <1>0, <1>2, <1>3 DEF DossiersFit, OneDraft, IsDraft
    <3> QED
      BY <3>2, <3>3 DEF OneDraft, Saving
  <2>4. OnePromotion'
    BY <2>1 DEF DossiersFit, OnePromotion
  <2>5. OneCurrent'
    <3>1. \A x \in Proposals : pc[x] = "swap" => draft[x].dossier \in Dossiers /\ draft[x].dossier # d
      BY <1>4 DEF TypeOK, ChangesFit, Present
    <3>2. \A x \in Dossiers : x # d /\ IsDraft(x)' => IsDraft(x) /\ dossier'[x] = dossier[x]
      BY <1>2, <1>3 DEF IsDraft
    <3> QED
      BY <1>5, <2>1, <3>1, <3>2 DEF DossiersFit, OneCurrent, IsDraft
  <2> QED
    BY <2>2, <2>3, <2>4, <2>5 DEF DossiersFit
<1> QED
  BY <1>5, <1>6, <1>7, <1>8

LEMMA CrawlFailsKeeps ==
    ASSUME MemoryInv, NEW d \in Dossiers, CrawlFails(d)
    PROVE  MemoryInv'
<1> USE DEF MemoryInv
<1>0. /\ UNCHANGED <<storeVars, executorVars, profileVars, dossier, told, overtaken, crossed, raced>>
      /\ crawl' = [crawl EXCEPT ![d] = Outside("over")] /\ Saving(d)
  BY DEF CrawlFails
<1>1. /\ \A x \in Dossiers : x # d => crawl'[x] = crawl[x]
      /\ crawl'[d].step = "over"
      /\ crawl' \in [Dossiers -> [step : {"before", "count", "delete", "over"}, version : Nat,
                                  found : SUBSET Dossiers]]
  <2>1. /\ Outside("over") \in [step : {"before", "count", "delete", "over"}, version : Nat,
                                found : SUBSET Dossiers]
        /\ Outside("over").step = "over"
    BY DEF Outside
  <2> HIDE DEF Outside
  <2> QED
    BY <1>0, <2>1 DEF TypeOK
<1>2. TypeOK'
  BY <1>0, <1>1 DEF TypeOK, StoreTypeOK, storeVars, executorVars, profileVars
<1>3. ChangesFit' /\ ProfileFits'
  BY <1>0, CrawlLeaves
<1>4. DossiersFit'
  <2>1. UNCHANGED <<status, draft, pc, rivals, dossier, history, crossed, raced>>
    BY <1>0 DEF storeVars, executorVars, profileVars
  <2>2. RowsFit'
    BY <1>1, <2>1 DEF DossiersFit, RowsFit, Present, Current
  <2>3. OneDraft'
    BY <1>1, <2>1 DEF DossiersFit, OneDraft, Saving, IsDraft
  <2>4. OnePromotion' /\ OneCurrent'
    BY <2>1 DEF DossiersFit, OnePromotion, OneCurrent, Current, IsDraft
  <2> QED
    BY <2>2, <2>3, <2>4 DEF DossiersFit
<1> QED
  BY <1>2, <1>3, <1>4

LEMMA ProposeMemoryKeeps ==
    ASSUME MemoryInv, NEW c \in Proposals, NEW d \in Drafts, ProposeMemory(c, d)
    PROVE  MemoryInv'
<1> USE MemoryAssumption DEF ProposeMemory, SaveProposal, MatchSave, memoryVars, executorVars,
                             profileVars, dossierVars, MemoryInv
<1>0. StoreTypeOK'
  <2>1. StoreMove
    BY DEF StoreMove
  <2> QED
    BY <2>1, StoreTypeMove DEF TypeOK
<1>1. TypeOK'
  BY <1>0 DEF TypeOK, StoreTypeOK, ChangesFit
<1>2. ChangesFit'
  BY DEF TypeOK, StoreTypeOK, ChangesFit, Unexecuted, Present
<1>3. ProfileFits'
  <2>1. \A x \in Proposals : history[x] = 1 => draft'[x] = draft[x]
    BY DEF TypeOK, StoreTypeOK, ChangesFit, Unexecuted
  <2> QED
    BY <2>1, ProfileStays
<1>4. DossiersFit'
  <2>1. /\ \A x \in Proposals : Present(x)' <=> Present(x) \/ x = c
        /\ \A x \in Proposals : draft'[x] = IF x = c THEN d ELSE draft[x]
        /\ ~Present(c) /\ pc[c] # "swap"
        /\ UNCHANGED <<pc, rivals, dossier, crawl, history, crossed, raced>>
    BY DEF TypeOK, StoreTypeOK, ChangesFit, Present
  <2>2. d.dossier \in Dossiers =>
            /\ dossier[d.dossier] # NoRow
            /\ \A x \in Proposals : Present(x) => draft[x].dossier # d.dossier
    BY DEF Present
  <2> HIDE DEF ProposeMemory
  <2>3. Current' = Current /\ \A e : IsDraft(e)' <=> IsDraft(e)
    BY <2>1 DEF Current, IsDraft
  <2>4. d.dossier \in Dossiers => d.dossier \notin Current /\ crawl[d.dossier].step = "over"
    BY <2>2 DEF DossiersFit, RowsFit
  <2>5. RowsFit'
    <3>1. \A x \in Proposals : Present(x)' /\ draft'[x].dossier \in Dossiers =>
              /\ crawl[draft'[x].dossier].step = "over"
              /\ \A y \in Proposals : Present(y)' /\ draft'[y].dossier = draft'[x].dossier => y = x
              /\ draft'[x].dossier \in Current => history[x] = 1
      BY <2>1, <2>2, <2>4 DEF DossiersFit, RowsFit
    <3>2. \A e \in Current : \E x \in Proposals : Present(x)' /\ draft'[x].dossier = e
      BY <2>1 DEF DossiersFit, RowsFit
    <3>3. \A e \in Dossiers : /\ dossier[e] # NoRow => crawl[e].step = "over"
                              /\ dossier[e].status = "none" => dossier[e] = NoRow
      BY DEF DossiersFit, RowsFit
    <3> HIDE DEF MemoryInv
    <3> QED
      BY <2>1, <2>3, <3>1, <3>2, <3>3 DEF RowsFit
  <2>6. OneDraft' /\ OnePromotion'
    BY <2>1, <2>3 DEF DossiersFit, OneDraft, OnePromotion, Saving
  <2>7. OneCurrent'
    <3>1. \A x \in Proposals : pc[x] = "swap" => draft'[x] = draft[x]
      BY <2>1
    <3> QED
      BY <2>1, <2>3, <3>1 DEF DossiersFit, OneCurrent, IsDraft
  <2> QED
    BY <2>5, <2>6, <2>7 DEF DossiersFit
<1> QED
  BY <1>1, <1>2, <1>3, <1>4

-----------------------------------------------------------------------------

LEMMA MemoryStarts == Init => MemoryInv
<1> SUFFICES ASSUME Init PROVE MemoryInv
  OBVIOUS
<1>0. StoreTypeOK /\ \A d \in Dossiers : crawl[d].step = "before"
  BY StoreTypeInit DEF Init, Outside
<1>1. TypeOK
  <2>1. told \subseteq Sources /\ Elder \in Sources /\ NoProfile \in Views
    BY DEF Init, Sources, Views
  <2>2. profile \in Profiles
    BY <2>1 DEF Init, Profiles, Sources
  <2>3. Outside("before") \in [step : {"before", "count", "delete", "over"}, version : Nat,
                               found : SUBSET Dossiers]
    BY DEF Outside
  <2>4. NoRow \in [status : {"none", "draft", "current"}, version : Nat]
    BY DEF NoRow
  <2>5. /\ details \in [Sources -> SUBSET Sources] /\ view \in [Proposals -> Views]
        /\ rivals \in [Proposals -> SUBSET Dossiers] /\ history \in [Proposals -> Nat]
    BY <2>1 DEF Init
  <2>6. /\ crawl \in [Dossiers -> [step : {"before", "count", "delete", "over"}, version : Nat,
                                   found : SUBSET Dossiers]]
        /\ dossier \in [Dossiers -> [status : {"none", "draft", "current"}, version : Nat]]
    BY <2>3, <2>4 DEF Init
  <2>7. /\ pc \in [Proposals -> {"idle", "read", "write", "row", "drop", "swap", "finalize"}]
        /\ \A c \in Proposals : pc[c] = "idle"
        /\ overtaken \subseteq Proposals /\ crossed \in BOOLEAN /\ raced \in BOOLEAN
    BY DEF Init
  <2> QED
    BY <1>0, <2>1, <2>2, <2>5, <2>6, <2>7 DEF TypeOK
<1>2. ChangesFit
  <2>1. \A c \in Proposals : status[c] = "absent" /\ pc[c] = "idle" /\ history[c] = 0
    BY DEF Init, StoreInit
  <2>2. \A c \in Proposals : history[c] <= 1
    <3> TAKE c \in Proposals
    <3>1. history[c] = 0 /\ history[c] \in Nat
      BY <1>1, <2>1 DEF TypeOK
    <3> QED
      BY <3>1
  <2>3. \A c \in Proposals : ~Present(c)
    BY <2>1 DEF Present
  <2> HIDE DEF Present
  <2> QED
    BY <2>1, <2>2, <2>3 DEF ChangesFit
<1>3. ProfileFits
  <2>0. /\ \/ profile = NoProfile /\ told = {}
           \/ profile = [id |-> Elder, notes |-> {Elder}] /\ told = {Elder}
        /\ details = [p \in Sources |-> IF p = Elder THEN told ELSE {}]
        /\ Elder \in Sources
    BY DEF Init, Sources
  <2>1. profile # NoProfile =>
            profile.id = Elder /\ profile.notes = {Elder} /\ told = {Elder} /\ details[Elder] = {Elder}
    BY <2>0
  <2>2. Creator(Elder)
    BY DEF Creator
  <2>3. ToldFits
    <3>1. [id |-> Elder, notes |-> {Elder}] # NoProfile
      BY MemoryAssumption
    <3> QED
      BY <2>0, <2>2, <3>1 DEF ToldFits
  <2>4. RowFits
    <3> SUFFICES ASSUME profile # NoProfile PROVE RowFits
      BY DEF RowFits
    <3>1. Whole({Elder}, {Elder})
      BY <2>1 DEF Whole
    <3> QED
      BY <2>1, <2>2, <3>1 DEF RowFits
  <2>5. DetailsFit
    <3>1. \A p \in Sources : details[p] # {} => p = Elder /\ told = {Elder}
      BY <2>0
    <3>2. told = {Elder} => Exists(Elder)
      <4>1. told = {Elder} => profile = [id |-> Elder, notes |-> {Elder}]
        BY <2>0
      <4>2. [id |-> Elder, notes |-> {Elder}] # NoProfile
        BY MemoryAssumption
      <4> QED
        BY <4>1, <4>2 DEF Exists
    <3> QED
      BY <2>2, <3>1, <3>2 DEF DetailsFit
  <2>6. ViewsFit
    BY DEF Init, ViewsFit, ViewFits
  <2> QED
    BY <2>3, <2>4, <2>5, <2>6 DEF ProfileFits
<1>4. DossiersFit
  <2>1. \A d \in Dossiers : dossier[d] = NoRow /\ NoRow.status = "none"
    BY DEF Init, NoRow
  <2> QED
    BY <1>0, <2>1 DEF Init, StoreInit, DossiersFit, RowsFit, OneDraft, OnePromotion, OneCurrent,
       Present, Current, IsDraft, Saving
<1> QED
  BY <1>1, <1>2, <1>3, <1>4 DEF MemoryInv

LEMMA MemoryMoves ==
    ASSUME MemoryInv, Next
    PROVE  MemoryInv'
<1>1. StoreTypeOK
  BY DEF MemoryInv, TypeOK
<1> QED
  BY <1>1, TableDecides, DecidesKeeps, ProposeMemoryKeeps, ClaimMemoryKeeps, ReadProfileKeeps,
     UpsertKeeps, ClearKeeps, ReadDossierKeeps, DropDossierKeeps, SwapDossierKeeps,
     FinalizeMemoryKeeps, MemoryFailsKeeps, CrawlCountsKeeps, CrawlDeletesKeeps,
     CrawlSavesKeeps, CrawlFailsKeeps
  DEF Next, MemoryStep

\* The variables of the memory keep their types, and what the executors have
\* read and written fits the rows they are about.
THEOREM MemoryInvariant == Spec => []MemoryInv
<1>1. ASSUME MemoryInv, UNCHANGED vars PROVE MemoryInv'
  <2>1. OnlyDecides /\ StoreTypeOK'
    BY <1>1 DEF vars, storeVars, OnlyDecides, MemoryInv, TypeOK, StoreTypeOK
  <2> QED
    BY <1>1, <2>1, DecidesKeeps
<1> QED
  BY <1>1, MemoryStarts, MemoryMoves, PTL DEF Spec

\* The variables of the memory keep their types.
THEOREM MemoryTypeCorrect == Spec => []TypeOK
<1>1. MemoryInv => TypeOK
  BY DEF MemoryInv
<1> QED
  BY <1>1, MemoryInvariant, PTL

\* However many changes are confirmed and executed at once: what a clear has
\* deleted is in no profile that is made or changed later, and whatever stays
\* behind under the profile that is gone is the work of an overtaken change.
THEOREM ClearsHold == Spec => []ClearedStaysCleared
<1>1. ASSUME MemoryInv PROVE ClearedStaysCleared
  <2>1. profile # NoProfile => profile.notes \cup details[profile.id] \subseteq told
    BY <1>1 DEF MemoryInv, ProfileFits, RowFits, Whole
  <2>2. \A p \in Sources : Exists(p) \/ details[p] = {} \/ details[p] \cap overtaken # {}
    BY <1>1 DEF MemoryInv, ProfileFits, DetailsFit
  <2> QED
    BY <2>1, <2>2 DEF ClearedStaysCleared
<1> QED
  BY <1>1, MemoryInvariant, PTL

\* However many changes are executed at once, merging loses neither notes nor
\* details but those written while another was about to write, or to a profile
\* that was gone.
THEOREM NotesHold == Spec => []NotesAreKept
<1>1. MemoryInv => NotesAreKept
  BY DEF MemoryInv, ProfileFits, RowFits, Whole, NotesAreKept
<1> QED
  BY <1>1, MemoryInvariant, PTL

\* A proposal changes the memory at most once, and only by the consent of its
\* author: neither while it is undecided nor after it was rejected or failed.
THEOREM ConsentHolds == Spec => []ChangeIsConsented
<1>1. MemoryInv => ChangeIsConsented
  BY DEF MemoryInv, ChangesFit, Unexecuted, DossiersFit, RowsFit, Current, Present, ChangeIsConsented
<1> QED
  BY <1>1, MemoryInvariant, PTL

\* A dossier is never replaced by an older one, however many crawls save at the
\* same time or dossiers are promoted at the same time, unless both happen.
THEOREM DossiersGoOn == Spec => DossierNeverGoesBack
<1>1. ASSUME MemoryInv, Next, ~(crossed /\ raced) PROVE DossierOnward
  <2>0. MemoryInv'
    BY <1>1, MemoryMoves
  <2>1. ASSUME UNCHANGED <<crossed, raced>>,
               \A e \in Current' : dossier'[e].version = dossier[e].version /\ e \in Current
        PROVE  DossierOnward
    <3>1. \A e, d \in Current : e = d /\ dossier[e].version \in Nat
      BY <1>1 DEF MemoryInv, DossiersFit, OneCurrent, TypeOK, Current
    <3> QED
      BY <2>1, <3>1 DEF DossierOnward
  <2>2. ASSUME UNCHANGED dossier PROVE DossierOnward
    <3>1. \A e, d \in Current : e = d /\ dossier[e].version \in Nat
      BY <1>1 DEF MemoryInv, DossiersFit, OneCurrent, TypeOK, Current
    <3>2. Current' = Current
      BY <2>2 DEF Current
    <3> QED
      BY <2>2, <3>1, <3>2 DEF DossierOnward
  <2>3. ASSUME NEW c \in Proposals, SwapDossier(c) PROVE DossierOnward
    <3> DEFINE own == draft[c].dossier
    <3>1. /\ pc[c] = "swap" /\ own \in Dossiers /\ UNCHANGED <<crossed, raced>>
          /\ dossier[own] # NoRow
      BY <1>1, <2>3 DEF SwapDossier, MemoryInv, TypeOK
    <3>2. \A e \in Current' : /\ e = own \/ e \in Current
                              /\ dossier'[e].version = dossier[e].version
      BY <1>1, <2>3, SwapDossierKeeps
    <3>3. \A e, d \in Current' : e = d
      BY <1>1, <2>0, <3>1 DEF MemoryInv, DossiersFit, OneCurrent
    <3>4. \A e \in Current : e \in Dossiers /\ dossier[e].version \in Nat
      BY <1>1 DEF MemoryInv, TypeOK, Current
    <3>5. CASE own \in Current
      BY <2>1, <3>1, <3>2, <3>5
    <3>6. CASE own \notin Current
      <4>1. IsDraft(own)
        BY <1>1, <3>1, <3>6 DEF MemoryInv, DossiersFit, RowsFit, TypeOK, IsDraft, Current
      <4>2. \A d, e \in Current : d = e /\ d \in rivals[c] /\ dossier[d].version <= dossier[own].version
        BY <1>1, <3>1, <4>1 DEF MemoryInv, DossiersFit, OneCurrent
      <4>3. \A e \in Current' : e = own
        <5>1. \A e \in Dossiers : e # own /\ e \in rivals[c] => dossier'[e] = NoRow
          BY <2>3 DEF SwapDossier
        <5>2. \A e \in Current' : e \in Dossiers /\ dossier'[e] # NoRow
          BY DEF Current, NoRow
        <5> QED
          BY <3>2, <4>2, <5>1, <5>2
      <4>4. \A e \in Current' : \A d \in Current : dossier'[e].version >= dossier[d].version
        BY <1>1, <3>1, <3>2, <3>4, <4>2, <4>3 DEF MemoryInv, TypeOK
      <4> QED
        BY <3>3, <4>4 DEF DossierOnward
    <3> QED
      BY <3>5, <3>6
  <2>4. ASSUME NEW d \in Dossiers, CrawlSaves(d) PROVE DossierOnward
    BY <1>1, <2>1, <2>4, CrawlSavesKeeps DEF CrawlSaves
  <2>5. ASSUME NEW c \in Proposals, Clear(c) \/ DropDossier(c) PROVE DossierOnward
    <3>1. \A e \in Current' : e \in Current /\ dossier'[e] = dossier[e]
      BY <1>1, <2>5 DEF Clear, DropDossier, NoRow, Current, MemoryInv, TypeOK
    <3> QED
      BY <2>1, <2>5, <3>1 DEF Clear, DropDossier
  <2> QED
    BY <1>1, <2>2, <2>3, <2>4, <2>5
    DEF Next, MemoryStep, ProposeMemory, Table, memoryVars, dossierVars, ClaimMemory, ReadProfile,
        Upsert, ReadDossier, FinalizeMemory, MemoryFails, CrawlCounts, CrawlDeletes, CrawlFails
<1> QED
  BY <1>1, MemoryInvariant, PTL DEF Spec, DossierNeverGoesBack
=============================================================================
