-------------------------- MODULE CampaignCreation --------------------------
(***************************************************************************)
(* The five apply_create_*_campaign functions of ads/mutations.py.  Each is *)
(* one proposal whose change is a chain of SDK calls,                       *)
(*     assets, budget, campaign, group, [media,] ad                         *)
(* run in a thread by run_ads_create_call: never repeated, and running on   *)
(* when its coroutine stops waiting after 60 s.  worker[c] is the coroutine *)
(* of proposal c, chain[c] the call its thread makes next.  When a call     *)
(* raises, the thread removes what it holds, as far as its kind of campaign *)
(* does that, each removal best-effort, and raises again.                   *)
(*                                                                         *)
(* Calls whose errors are swallowed and that add to an existing campaign    *)
(* (keywords, geography, languages, schedule, the assets attached after a   *)
(* search campaign) change nothing of what is kept here.  Every entity is   *)
(* created PAUSED.                                                          *)
(***************************************************************************)
EXTENDS ConfirmStore

CreateOps == {"create_search_campaign", "create_gdn_campaign",
              "create_demand_gen_campaign", "create_app_campaign",
              "create_video_campaign"}

Entities == {"assets", "budget", "campaign", "group", "media", "ad"}

VARIABLES
    worker,  \* worker[c]: the coroutine: idle, gates, waiting or finalize
    chain,   \* chain[c]: what its SDK thread creates next, or how it ended
    made,    \* made[c]: entities of c that exist in the account
    held,    \* held[c]: entities of c whose resource name the thread holds
    todo,    \* todo[c]: entities the thread is to remove, in order
    tidy     \* tidy[c]: every answer came and every removal worked (history)

creationVars == <<worker, chain, made, held, todo, tidy>>

Running == Entities \cup {"cleanup"}

CreationTypeOK ==
    /\ StoreTypeOK
    /\ worker \in [Proposals -> {"idle", "gates", "waiting", "finalize"}]
    /\ chain \in [Proposals -> {"none", "finished", "failed", "dead"} \cup Running]
    /\ made \in [Proposals -> SUBSET Entities]
    /\ held \in [Proposals -> SUBSET Entities]
    /\ todo \in [Proposals -> Seq(Entities)]
    /\ tidy \in [Proposals -> BOOLEAN]
    /\ \A c \in Proposals :
        /\ todo[c] # <<>> => chain[c] = "cleanup"
        /\ chain[c] # "none" => draft[c].op \in CreateOps
        /\ chain[c] = "finished" => held[c] \subseteq made[c]

CreationInit ==
    /\ worker = [c \in Proposals |-> "idle"]
    /\ chain = [c \in Proposals |-> "none"]
    /\ made = [c \in Proposals |-> {}]
    /\ held = [c \in Proposals |-> {}]
    /\ todo = [c \in Proposals |-> <<>>]
    /\ tidy = [c \in Proposals |-> TRUE]

-----------------------------------------------------------------------------
(* The five kinds: what their chains create and tidy up.                   *)

\* _create_<kind>_campaign_via_sdk, the calls that raise.
SearchChain == <<"budget", "campaign", "group", "ad">>
GdnChain == <<"assets", "budget", "campaign", "group", "ad">>
DemandGenChain == <<"assets", "budget", "campaign", "group", "ad">>
AppChain == <<"budget", "campaign", "group", "media", "ad">>
VideoChain == <<"assets", "budget", "campaign", "group", "ad">>

Chain(op) ==
    CASE op = "create_search_campaign" -> SearchChain
      [] op = "create_gdn_campaign" -> GdnChain
      [] op = "create_demand_gen_campaign" -> DemandGenChain
      [] op = "create_app_campaign" -> AppChain
      [] op = "create_video_campaign" -> VideoChain

Parts(op) == {Chain(op)[i] : i \in DOMAIN Chain(op)}

After(op, entity) ==
    LET i == CHOOSE j \in DOMAIN Chain(op) : Chain(op)[j] = entity
    IN  IF i = Len(Chain(op)) THEN "finished" ELSE Chain(op)[i + 1]

\* Search and app campaigns tidy up after every call behind the budget, video
\* and demand gen after the ad, all after the campaign.
CleansUp(op, entity) ==
    \/ entity = "campaign"
    \/ /\ op \in {"create_search_campaign", "create_app_campaign"}
       /\ entity \in {"group", "media", "ad"}
    \/ /\ op \in {"create_demand_gen_campaign", "create_video_campaign"}
       /\ entity = "ad"

\* What is removed when that call raises: of these, what the thread has names of.
IfHeld(entity, names) == IF entity \in names THEN <<entity>> ELSE <<>>

Removals(op, entity, names) ==
    IF CleansUp(op, entity)
    THEN IfHeld("group", names) \o IfHeld("campaign", names) \o IfHeld("budget", names)
    ELSE <<>>

-----------------------------------------------------------------------------
(* The coroutine.                                                           *)

Kind(c) == draft[c].op

ClaimCreation(c) ==
    /\ worker[c] = "idle"
    /\ \E op \in CreateOps : Claim(c, op)
    /\ worker' = [worker EXCEPT ![c] = "gates"]
    /\ UNCHANGED <<chain, made, held, todo, tidy>>

\* No human turn, quota used up or circuit open: an error behind the claim.
CreationRefused(c) ==
    /\ worker[c] = "gates"
    /\ worker' = [worker EXCEPT ![c] = "idle"]
    /\ UNCHANGED <<storeVars, chain, made, held, todo, tidy>>

StartChain(c) ==
    /\ worker[c] = "gates"
    /\ worker' = [worker EXCEPT ![c] = "waiting"]
    /\ chain' = [chain EXCEPT ![c] = Chain(Kind(c))[1]]
    /\ UNCHANGED <<storeVars, made, held, todo, tidy>>

ChainReturns(c) ==
    /\ worker[c] = "waiting" /\ chain[c] = "finished"
    /\ worker' = [worker EXCEPT ![c] = "finalize"]
    /\ UNCHANGED <<storeVars, chain, made, held, todo, tidy>>

\* A failed creation that is put on record as failed.
SlipCreationFails(c) ==
    /\ worker[c] = "waiting"
    /\ chain[c] \in Running \cup {"failed"}
    /\ worker' = [worker EXCEPT ![c] = "idle"]
    /\ RecordFailure(c) \/ (~MatchRecordFailure(c) /\ UNCHANGED storeVars)
    /\ UNCHANGED <<chain, made, held, todo, tidy>>

\* The chain raised, or 60 s are over and its thread is left to itself: either
\* way the row stays executing.
CreationFails(c) ==
    /\ worker[c] = "waiting"
    /\ chain[c] \in Running \cup {"failed"}
    /\ worker' = [worker EXCEPT ![c] = "idle"]
    /\ UNCHANGED <<storeVars, chain, made, held, todo, tidy>>

FinalizeCreation(c) ==
    /\ worker[c] = "finalize"
    /\ Finalize(c) \/ UNCHANGED storeVars
    /\ worker' = [worker EXCEPT ![c] = "idle"]
    /\ UNCHANGED <<chain, made, held, todo, tidy>>

-----------------------------------------------------------------------------
(* The thread.                                                              *)

Create(c) ==
    /\ chain[c] \in Entities
    /\ made' = [made EXCEPT ![c] = @ \cup {chain[c]}]
    /\ held' = [held EXCEPT ![c] = @ \cup {chain[c]}]
    /\ chain' = [chain EXCEPT ![c] = After(Kind(c), @)]
    /\ UNCHANGED <<storeVars, worker, todo, tidy>>

\* On to the except clause, whether or not the entity was created.
Raise(c) ==
    /\ todo' = [todo EXCEPT ![c] = Removals(Kind(c), chain[c], held[c])]
    /\ chain' = [chain EXCEPT ![c] = "cleanup"]

CreateFails(c) ==
    /\ chain[c] \in Entities
    /\ Raise(c)
    /\ UNCHANGED <<storeVars, worker, made, held, tidy>>

\* The answer is lost: the entity is there, and the thread has no name of it.
CreateUnanswered(c) ==
    /\ chain[c] \in Entities
    /\ made' = [made EXCEPT ![c] = @ \cup {chain[c]}]
    /\ tidy' = [tidy EXCEPT ![c] = FALSE]
    /\ Raise(c)
    /\ UNCHANGED <<storeVars, worker, held>>

\* What goes with an entity when it is removed.
Within(entity) ==
    CASE entity = "campaign" -> {"campaign", "group", "ad"}
      [] entity = "group" -> {"group", "ad"}
      [] OTHER -> {entity}

Remove(c) ==
    /\ todo[c] # <<>>
    /\ made' = [made EXCEPT ![c] = @ \ Within(Head(todo[c]))]
    /\ todo' = [todo EXCEPT ![c] = Tail(@)]
    /\ UNCHANGED <<storeVars, worker, chain, held, tidy>>

RemoveFails(c) ==
    /\ todo[c] # <<>>
    /\ tidy' = [tidy EXCEPT ![c] = FALSE]
    /\ todo' = [todo EXCEPT ![c] = Tail(@)]
    /\ UNCHANGED <<storeVars, worker, chain, made, held>>

ChainRaises(c) ==
    /\ chain[c] = "cleanup" /\ todo[c] = <<>>
    /\ chain' = [chain EXCEPT ![c] = "failed"]
    /\ UNCHANGED <<storeVars, worker, made, held, todo, tidy>>

\* The process dies, and its threads with it; a call on its way may be served.
CreationCrashes(c) ==
    /\ worker[c] # "idle" \/ chain[c] \in Running
    /\ worker' = [worker EXCEPT ![c] = "idle"]
    /\ chain' = [chain EXCEPT ![c] = IF @ \in Running THEN "dead" ELSE @]
    /\ \E sent \in SUBSET ({chain[c]} \cap Entities) : made' = [made EXCEPT ![c] = @ \cup sent]
    /\ todo' = [todo EXCEPT ![c] = <<>>]
    /\ UNCHANGED <<storeVars, held, tidy>>

CreationStep(c) ==
    \/ ClaimCreation(c) \/ CreationRefused(c) \/ StartChain(c)
    \/ ChainReturns(c) \/ CreationFails(c) \/ FinalizeCreation(c)
    \/ Create(c) \/ CreateFails(c) \/ CreateUnanswered(c)
    \/ Remove(c) \/ RemoveFails(c) \/ ChainRaises(c)
    \/ CreationCrashes(c)

-----------------------------------------------------------------------------
(* Correctness of creations.                                                *)

\* "applied" is said of a campaign that can be launched: its budget, campaign,
\* group and ad are all there, and nothing that happens later takes one away.
AppliedIsComplete ==
    \A c \in Proposals : status[c] = "applied" /\ Kind(c) \in CreateOps =>
        made[c] = Parts(Kind(c))

\* A creation that was not claimed or is called failed has left nothing, and no
\* thread is at work on it any more, not even one given up long ago.
VoidIsUncreated ==
    \A c \in Proposals : status[c] \in {"absent", "pending", "confirmed", "rejected", "failed"} =>
        made[c] = {} /\ chain[c] \notin Running

\* After an error the name is free for another try, for search and app
\* campaigns; for no kind is a budget left behind without a campaign.
FailureIsTidy ==
    \A c \in Proposals : chain[c] = "failed" /\ tidy[c] =>
        /\ Kind(c) \in {"create_search_campaign", "create_app_campaign"} =>
              made[c] \cap {"budget", "campaign", "group", "ad"} = {}
        /\ "budget" \in made[c] => "campaign" \in made[c]

\* Between them: what is left of a creation that did not come about.
NothingIsLeftBehind == VoidIsUncreated /\ FailureIsTidy
=============================================================================
