---------------------------- MODULE MCExecutors ----------------------------
(***************************************************************************)
(* Values for the constants of Executors: an account of two campaigns and   *)
(* packages that rename, spend, pause and launch.                           *)
(***************************************************************************)
EXTENDS Executors

CONSTANTS p1, k1, k2, g1, author, chat1, m1

Group(st, ad, bid, key) == [status |-> st, ad |-> ad, bid |-> bid, key |-> key]

Campaign(name, st, group) ==
    [name |-> name, status |-> st, partners |-> FALSE, budget |-> 10,
     groups |-> [g \in Groups |-> group]]

\* One campaign runs, its keyword with a bid of its own; the other is a draft
\* of the wizard, paused on every level, its keyword on the bid of the group.
MCAccount ==
    [k \in Campaigns |->
        IF k = k1 THEN Campaign("summer", "ENABLED", Group("ENABLED", "ENABLED", 3, 5))
        ELSE Campaign("winter", "PAUSED", Group("PAUSED", "PAUSED", 2, Inherit))]

OnCampaign(op, camp, mode, to) ==
    [op |-> op, camp |-> camp, group |-> NoGroup, mode |-> mode, to |-> to]

OnGroup(op, camp, mode, to) == [OnCampaign(op, camp, mode, to) EXCEPT !.group = g1]

Card(op, steps) ==
    [op |-> op, steps |-> steps, author |-> author, chat |-> chat1, tier |-> "L3",
     human |-> TRUE, run |-> NoRun, key |-> NoKey]

Package(steps) == Card("composite", steps)

Rename(from, to) == OnCampaign("update_campaign", from, "none", to)

\* The second step names the campaign as the first will have renamed it.
RenameAndSpend ==
    Package(<<Rename("summer", "autumn"),
              OnCampaign("update_budget", "autumn", "increase_by", 2)>>)

SwitchOff ==
    Package(<<OnGroup("pause_ad", "summer", "none", "none"),
              OnGroup("update_keyword_bid", "summer", "set_to", 4),
              OnCampaign("pause_campaign", "summer", "none", "none")>>)

SwitchOn ==
    Package(<<OnGroup("resume_ad_group", "winter", "none", "none"),
              OnCampaign("update_bid", "winter", "increase_by", 1)>>)

LaunchAndSpend ==
    Package(<<OnCampaign("launch_campaign", "winter", "none", "none"),
              OnCampaign("update_budget", "winter", "set_to", 12)>>)

\* Refused when proposed: the keyword inherits its bid.
BidOnInherited ==
    Package(<<OnGroup("update_keyword_bid", "winter", "set_to", 4),
              OnCampaign("set_campaign_network", "winter", "none", TRUE)>>)

Partners ==
    Package(<<OnCampaign("set_campaign_network", "winter", "none", TRUE),
              OnGroup("resume_ad", "winter", "none", "none")>>)

\* The budget is set whatever it was; the campaign is renamed twice.
SpendAndPause ==
    Package(<<OnCampaign("update_budget", "summer", "set_to", 12),
              OnCampaign("pause_campaign", "summer", "none", "none")>>)

TwoNames == Package(<<Rename("summer", "autumn"), Rename("summer", "spring")>>)

Creations == {Card(op, <<>>) : op \in CreateOps}

NoLaunch ==
    {RenameAndSpend, SwitchOff, SwitchOn, BidOnInherited, Partners, SpendAndPause, TwoNames}

MCDrafts == NoLaunch \cup {LaunchAndSpend} \cup Creations

\* Others spend more, pause what runs, take a name and the bid of a keyword.
MCForeignEdits ==
    {[id |-> k1, op |-> "update_keyword_bid", group |-> g1, value |-> Inherit],
     [id |-> k1, op |-> "update_budget", group |-> NoGroup, value |-> 20],
     [id |-> k1, op |-> "pause_campaign", group |-> NoGroup, value |-> "PAUSED"],
     [id |-> k2, op |-> "update_campaign", group |-> NoGroup, value |-> "summer"]}
=============================================================================
