-------------------------- MODULE CampaignAccount --------------------------
(***************************************************************************)
(* A Google Ads account as the reversible operations see it: what each of   *)
(* them reads for the card (service.read_state), changes (mutations.apply_* *)
(* and the SDK functions behind them), reads back (service._verify_applied) *)
(* and how confirm/reverse.py undoes it.  An account is a function from     *)
(* campaigns to records; a campaign is addressed by its name.  There is no  *)
(* state here: the modules that execute operations keep the account.        *)
(*                                                                         *)
(* An operation is a record [op, camp, group, mode, to]: the operation, the *)
(* name of the campaign, the ad group (NoGroup when it has none), how the   *)
(* new value is computed and the value asked for.  Removed entities, shared *)
(* budgets and automatic bidding strategies are left out.                   *)
(***************************************************************************)
EXTENDS Integers

CONSTANTS
    Campaigns,   \* the campaigns of the account
    Groups,      \* the ad groups of a campaign, one ad in each
    NoGroup,     \* the operation is about the campaign
    Inherit      \* the keyword has no bid of its own

ASSUME AccountAssumption == NoGroup \notin Groups /\ Inherit \notin Int

CampaignStatusOps == {"pause_campaign", "resume_campaign", "launch_campaign"}
GroupStatusOps == {"pause_ad_group", "resume_ad_group"}
AdStatusOps == {"pause_ad", "resume_ad"}
StatusOps == CampaignStatusOps \cup GroupStatusOps \cup AdStatusOps
MoneyOps == {"update_budget", "update_bid", "update_keyword_bid"}
GroupOps == GroupStatusOps \cup AdStatusOps \cup {"update_keyword_bid"}

\* confirm.reverse.ROLLBACKABLE_OPS: what a package may consist of.
RollbackableOps ==
    StatusOps \cup MoneyOps \cup {"update_campaign", "set_campaign_network"}

\* Everything is enabled or paused; what is removed is left out.
OnOff == {"ENABLED", "PAUSED"}

WellFormedGroup(grp) ==
    /\ grp = [status |-> grp.status, ad |-> grp.ad, bid |-> grp.bid, key |-> grp.key]
    /\ grp.status \in OnOff /\ grp.ad \in OnOff

WellFormedCampaign(k) ==
    /\ k = [name |-> k.name, status |-> k.status, partners |-> k.partners, budget |-> k.budget,
            groups |-> [g \in Groups |-> k.groups[g]]]
    /\ k.status \in OnOff
    /\ \A g \in Groups : WellFormedGroup(k.groups[g])

WellFormed(acct) ==
    acct = [k \in Campaigns |-> acct[k]] /\ \A k \in Campaigns : WellFormedCampaign(acct[k])

\* Google keeps the names of an account apart.
NamesApart(acct) == \A k, l \in Campaigns : acct[k].name = acct[l].name => k = l

\* resolve.find_campaign_by_name.
Named(acct, name) == {k \in Campaigns : acct[k].name = name}

\* ... and its ad group, which nobody removes.
Found(acct, s) == Named(acct, s.camp) # {} /\ (s.op \in GroupOps => s.group \in Groups)

-----------------------------------------------------------------------------
(* The value an operation is about, before and after.                       *)

\* A keyword without a bid of its own runs on the bid of its group.
KeywordBid(grp) == IF grp.key = Inherit THEN grp.bid ELSE grp.key

Value(k, s) ==
    CASE s.op = "update_budget" -> k.budget
      [] s.op = "update_bid" -> [g \in Groups |-> k.groups[g].bid]
      [] s.op = "update_keyword_bid" -> KeywordBid(k.groups[s.group])
      [] s.op = "update_campaign" -> k.name
      [] s.op = "set_campaign_network" -> k.partners
      [] s.op \in CampaignStatusOps -> k.status
      [] s.op \in GroupStatusOps -> k.groups[s.group].status
      [] s.op \in AdStatusOps -> k.groups[s.group].ad

\* resolve.compute_new_micros.
NewMicros(s, old) == IF s.mode = "set_to" THEN s.to ELSE old + s.to

Pausing(s) == s.op \in {"pause_campaign", "pause_ad_group", "pause_ad"}

Target(k, s) ==
    CASE s.op = "update_bid" -> [g \in Groups |-> NewMicros(s, k.groups[g].bid)]
      [] s.op \in MoneyOps \ {"update_bid"} -> NewMicros(s, Value(k, s))
      [] s.op \in {"update_campaign", "set_campaign_network"} -> s.to
      [] OTHER -> IF Pausing(s) THEN "PAUSED" ELSE "ENABLED"

-----------------------------------------------------------------------------
(* Snapshots.                                                               *)

Unreadable == [ok |-> FALSE]

\* own_bid, which the comparison leaves out: it is no before_ key.
OwnBid(k, s) == s.op = "update_keyword_bid" /\ k.groups[s.group].key # Inherit

Snapshot(acct, s) ==
    IF Found(acct, s)
    THEN LET k == acct[CHOOSE x \in Named(acct, s.camp) : TRUE]
         IN  [ok |-> TRUE, before |-> Value(k, s), after |-> Target(k, s), own |-> OwnBid(k, s)]
    ELSE Unreadable

\* freshness.compare: set_to does not depend on the base.
SameBase(s, stored, live) == (s.op \in MoneyOps /\ s.mode = "set_to") \/ stored.before = live.before

\* freshness.FRESHNESS_TIERS, of the reversible operations.
StrictOps == RollbackableOps \ {"launch_campaign", "update_campaign", "set_campaign_network"}

FreshStep(s, stored, live) ==
    IF s.op \in StrictOps
    THEN stored.ok /\ live.ok /\ SameBase(s, stored, live)
    ELSE stored.ok /\ live.ok => SameBase(s, stored, live)

-----------------------------------------------------------------------------
(* Requests: what is sent once the target is resolved and the value known.  *)

Request(acct, s) ==
    LET id == CHOOSE x \in Named(acct, s.camp) : TRUE
    IN  [id |-> id, op |-> s.op, group |-> s.group, value |-> Target(acct[id], s)]

\* A request the account understands.
Understood(r) ==
    /\ r.id \in Campaigns /\ r.op \in RollbackableOps
    /\ r.op \in StatusOps => r.value \in OnOff

\* Google refuses a second campaign of the same name.
Acceptable(acct, r) == r.op = "update_campaign" => Named(acct, r.value) \subseteq {r.id}

WithGroup(k, g, field, v) == [k EXCEPT !.groups[g][field] = v]

Started(groups) ==
    [g \in Groups |-> [groups[g] EXCEPT !.status = "ENABLED", !.ad = "ENABLED"]]

Changed(k, r) ==
    CASE r.op = "update_budget" -> [k EXCEPT !.budget = r.value]
      [] r.op = "update_bid" ->
            [k EXCEPT !.groups = [g \in Groups |-> [@[g] EXCEPT !.bid = r.value[g]]]]
      [] r.op = "update_keyword_bid" -> WithGroup(k, r.group, "key", r.value)
      [] r.op = "update_campaign" -> [k EXCEPT !.name = r.value]
      [] r.op = "set_campaign_network" -> [k EXCEPT !.partners = r.value]
      [] r.op = "launch_campaign" -> [k EXCEPT !.status = "ENABLED", !.groups = Started(@)]
      [] r.op \in {"pause_campaign", "resume_campaign"} -> [k EXCEPT !.status = r.value]
      [] r.op \in GroupStatusOps -> WithGroup(k, r.group, "status", r.value)
      [] r.op \in AdStatusOps -> WithGroup(k, r.group, "ad", r.value)

Applied(acct, r) == [acct EXCEPT ![r.id] = Changed(@, r)]

\* launch_campaign is three SDK calls in a row, for the campaign, its groups and
\* their ads: what has changed when the second or the third one fails.
Launching(acct, r) ==
    LET begun == [acct EXCEPT ![r.id].status = "ENABLED"]
    IN  {begun, [begun EXCEPT ![r.id].groups =
                    [g \in Groups |-> [@[g] EXCEPT !.status = "ENABLED"]]]}

-----------------------------------------------------------------------------
(* Reading back and undoing.                                                *)

\* A rename is looked for under its new name.
AsNamedAfter(s) == IF s.op = "update_campaign" THEN [s EXCEPT !.camp = s.to] ELSE s

\* verified is True: not False, and not None for want of anything to read.
Verified(acct, s, stored) ==
    LET t == AsNamedAfter(s)
    IN  stored.ok /\ Found(acct, t) /\ Snapshot(acct, t).before = stored.after

Undo(s, op, to) == [op |-> op, camp |-> s.camp, group |-> s.group, mode |-> "set_to", to |-> to]

\* reverse_spec: the operations, none or one, that bring the value back.
ReverseSpec(s, stored) ==
    IF ~stored.ok THEN {}
    ELSE LET b == stored.before
         IN  CASE s.op = "update_budget" -> {Undo(s, s.op, b)}
               [] s.op = "update_bid" ->
                    {Undo(s, s.op, v) : v \in {x \in {b[g] : g \in Groups} :
                                                \A g \in Groups : b[g] = x}}
               [] s.op = "update_keyword_bid" -> IF stored.own THEN {Undo(s, s.op, b)} ELSE {}
               [] s.op = "set_campaign_network" -> {Undo(s, s.op, b)}
               [] s.op = "update_campaign" -> {[Undo(s, s.op, b) EXCEPT !.camp = s.to]}
               [] s.op \in CampaignStatusOps ->
                    {Undo(s, IF b = "PAUSED" THEN "pause_campaign" ELSE "resume_campaign", b)}
               [] s.op \in GroupStatusOps ->
                    {Undo(s, IF b = "PAUSED" THEN "pause_ad_group" ELSE "resume_ad_group", b)}
               [] s.op \in AdStatusOps ->
                    {Undo(s, IF b = "PAUSED" THEN "pause_ad" ELSE "resume_ad", b)}
=============================================================================
