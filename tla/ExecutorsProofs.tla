--------------------------- MODULE ExecutorsProofs ---------------------------
(***************************************************************************)
(* Proofs about the executors of packages and of creations, for any account *)
(* and packages that PackageAssumption allows, any number of proposals, of  *)
(* calls adrift and of edits by others.                                     *)
(*                                                                         *)
(* The invariant says, for every place an executor can be in, how much has  *)
(* been done by then: PackageOK(c) that before step i the steps 1 .. i - 1  *)
(* have landed once each, none was undone, and no call of c is adrift that  *)
(* could still change that; CreationOK(c) that a chain before call e has    *)
(* made what precedes e and holds the names of it, and that what an error   *)
(* leaves behind is gone once the removals still to do are done (Left).     *)
(* AccountOK keeps the account in a form in which reading, changing and     *)
(* undoing a step are inverse to each other (UndoAsksForBefore).  A step of *)
(* one proposal is a drift of the others (RowDrift, SamePackage,            *)
(* SameCreation).                                                           *)
(*                                                                         *)
(* The second half, from "What a step changes" on: what a failed package    *)
(* leaves behind.  An operation writes one slot of one campaign             *)
(* (OneSlotChanges), a well-formed campaign is what stands in its slots     *)
(* (SlotsDetermine), and an undoing aims at the slot its step wrote         *)
(* (UndoIsAimed).  So RInv can say of a package that is alone in the        *)
(* account that, with n steps of it there, every other name and value is    *)
(* the one of the claim (NamesAfter, ValuesAfter), and that the bases on    *)
(* its card are true (BasesTrue): with n = 0 nothing is left.  The order of *)
(* the plan, renames last, keeps the campaigns findable by name all the     *)
(* while (PlanOK, StepFindsItsOwn).  Last, two facts about the operators    *)
(* alone: what Ordered makes of the steps (OrderIsStable) and that          *)
(* ReverseSpec is the inverse of a step (UndoIsInverse).                    *)
(***************************************************************************)
EXTENDS Executors, ConfirmStoreProofs, FiniteSetTheorems

-----------------------------------------------------------------------------
(* The operations of a package, the account and the card.                   *)

LEMMA OrderedShape ==
    ASSUME NEW steps, NEW n \in Nat, DOMAIN steps = 1 .. n
    PROVE  Len(Ordered(steps)) = n /\ DOMAIN Ordered(steps) = 1 .. n
<1> DEFINE plan == Ordered(steps)
<1>1. plan = [i \in 1 .. n |-> plan[i]]
  BY DEF Ordered
<1> HIDE DEF plan
<1>2. plan \in Seq({plan[i] : i \in 1 .. n})
  BY <1>1
<1> QED
  BY <1>1, <1>2 DEF plan

LEMMA PlanShape ==
    ASSUME NEW d \in Packages
    PROVE  LET plan == Ordered(Normalised(d.steps))
           IN  /\ Len(plan) = Len(d.steps) /\ Len(plan) \in 2 .. 10
               /\ DOMAIN plan = 1 .. Len(plan)
<1>1. DOMAIN d.steps = 1 .. Len(d.steps) /\ Len(d.steps) \in 2 .. 10
  BY PackageAssumption
<1>2. DOMAIN Normalised(d.steps) = 1 .. Len(d.steps)
  BY <1>1 DEF Normalised
<1> QED
  BY <1>1, <1>2, OrderedShape

\* What an operation makes of the value it finds.
From(s, b) ==
    IF s.op = "update_bid" THEN [g \in Groups |-> NewMicros(s, b[g])]
    ELSE IF s.op \in MoneyOps THEN NewMicros(s, b)
    ELSE IF s.op \in {"update_campaign", "set_campaign_network"} THEN s.to
    ELSE IF Pausing(s) THEN "PAUSED" ELSE "ENABLED"

LEMMA TargetFrom ==
    ASSUME NEW k, NEW s, s.op \in RollbackableOps
    PROVE  Target(k, s) = From(s, Value(k, s))
<1> USE DEF MoneyOps
<1>1. CASE s.op = "update_bid"
  <2>1. Value(k, s) = [g \in Groups |-> k.groups[g].bid]
    BY <1>1 DEF Value, CampaignStatusOps, GroupStatusOps, AdStatusOps
  <2>2. Target(k, s) = [g \in Groups |-> NewMicros(s, k.groups[g].bid)]
    BY <1>1 DEF Target
  <2>3. From(s, Value(k, s)) = [g \in Groups |-> NewMicros(s, Value(k, s)[g])]
    BY <1>1 DEF From
  <2> QED
    BY <2>1, <2>2, <2>3
<1>2. CASE s.op \in MoneyOps \ {"update_bid"}
  BY <1>2 DEF Target, From
<1>3. CASE s.op \in {"update_campaign", "set_campaign_network"}
  BY <1>3 DEF Target, From
<1>4. CASE s.op \in StatusOps
  BY <1>4 DEF Target, From, StatusOps, CampaignStatusOps, GroupStatusOps, AdStatusOps
<1> QED
  BY <1>1, <1>2, <1>3, <1>4 DEF RollbackableOps

LEMMA ValueShape ==
    ASSUME NEW k, WellFormedCampaign(k), NEW s, s.op \in RollbackableOps,
           s.op \in GroupOps => s.group \in Groups
    PROVE  /\ s.op \in StatusOps => Value(k, s) \in OnOff
           /\ s.op = "update_bid" => Value(k, s) = [g \in Groups |-> Value(k, s)[g]]
<1>1. s.op = "update_bid" => Value(k, s) = [g \in Groups |-> k.groups[g].bid]
  BY DEF Value, CampaignStatusOps, GroupStatusOps, AdStatusOps
<1>2. s.op \in CampaignStatusOps => Value(k, s) = k.status
  BY DEF Value, CampaignStatusOps, GroupStatusOps, AdStatusOps
<1>3. s.op \in GroupStatusOps => Value(k, s) = k.groups[s.group].status
  BY DEF Value, CampaignStatusOps, GroupStatusOps, AdStatusOps
<1>4. s.op \in AdStatusOps => Value(k, s) = k.groups[s.group].ad
  BY DEF Value, CampaignStatusOps, GroupStatusOps, AdStatusOps
<1>5. k.status \in OnOff /\ \A g \in Groups : k.groups[g].status \in OnOff /\ k.groups[g].ad \in OnOff
  BY DEF WellFormedCampaign, WellFormedGroup
<1> QED
  BY <1>1, <1>2, <1>3, <1>4, <1>5 DEF StatusOps, GroupOps

\* A line of the card, drawn from a state the operation could be read in.
Line(s, e) ==
    /\ s.op \in RollbackableOps
    /\ e.ok /\ e.after = From(s, e.before)
    /\ s.op \in StatusOps => e.before \in OnOff
    /\ s.op = "update_bid" => e.before = [g \in Groups |-> e.before[g]]

LEMMA SnapshotIsLine ==
    ASSUME NEW a, WellFormed(a), NEW s, s.op \in RollbackableOps, Found(a, s)
    PROVE  Line(s, Snapshot(a, s)) /\ Request(a, s).value = Snapshot(a, s).after
<1> DEFINE id == CHOOSE x \in Named(a, s.camp) : TRUE
<1>1. id \in Campaigns
  BY DEF Found, Named
<1>2. WellFormedCampaign(a[id])
  BY <1>1 DEF WellFormed
<1>3. Target(a[id], s) = From(s, Value(a[id], s))
  BY TargetFrom
<1>4. /\ s.op \in StatusOps => Value(a[id], s) \in OnOff
      /\ s.op = "update_bid" => Value(a[id], s) = [g \in Groups |-> Value(a[id], s)[g]]
  BY <1>2, ValueShape DEF Found
<1>5. /\ Snapshot(a, s).ok
      /\ Snapshot(a, s).before = Value(a[id], s)
      /\ Snapshot(a, s).after = Target(a[id], s)
  BY DEF Snapshot
<1>6. Request(a, s).value = Target(a[id], s)
  BY DEF Request
<1> QED
  BY <1>3, <1>4, <1>5, <1>6 DEF Line

LEMMA RequestUnderstood ==
    ASSUME NEW a, NEW s, s.op \in RollbackableOps, Found(a, s)
    PROVE  Understood(Request(a, s))
<1> DEFINE id == CHOOSE x \in Named(a, s.camp) : TRUE
<1>1. id \in Campaigns
  BY DEF Found, Named
<1>2. s.op \in StatusOps => Target(a[id], s) \in OnOff
  BY TargetFrom DEF From, StatusOps, CampaignStatusOps, GroupStatusOps, AdStatusOps, MoneyOps, OnOff
<1> QED
  BY <1>1, <1>2 DEF Understood, Request

\* As long as the base is the one of the card, so is the outcome.
LEMMA SameOutcome ==
    ASSUME NEW s, NEW e, NEW l, Line(s, e), Line(s, l), FreshStep(s, e, l)
    PROVE  l.after = e.after
<1>1. SameBase(s, e, l)
  BY DEF Line, FreshStep
<1>2. CASE e.before = l.before
  BY <1>2 DEF Line
<1>3. CASE s.op \in MoneyOps /\ s.mode = "set_to"
  BY <1>3 DEF Line, From, NewMicros
<1> QED
  BY <1>1, <1>2, <1>3 DEF SameBase

\* An undoing asks for the value of the card.
LEMMA UndoAsksForBefore ==
    ASSUME NEW s, NEW e, Line(s, e), NEW u \in ReverseSpec(s, e)
    PROVE  u.op \in RollbackableOps /\ \A k : Target(k, u) = e.before
<1>0. e.ok
  BY DEF Line
<1>1. CASE s.op = "update_bid"
  <2>1. PICK v \in {e.before[g] : g \in Groups} :
          (\A g \in Groups : e.before[g] = v) /\ u = Undo(s, s.op, v)
    BY <1>0, <1>1 DEF ReverseSpec, CampaignStatusOps, GroupStatusOps, AdStatusOps
  <2>2. u.op = "update_bid" /\ u.mode = "set_to" /\ u.to = v
    BY <1>1, <2>1 DEF Undo
  <2>3. e.before = [g \in Groups |-> v]
    BY <1>1, <2>1 DEF Line
  <2>4. ASSUME NEW k PROVE Target(k, u) = [g \in Groups |-> v]
    BY <2>2 DEF Target, NewMicros
  <2> QED
    BY <2>2, <2>3, <2>4 DEF RollbackableOps, MoneyOps
<1>2. CASE s.op \in {"update_budget", "update_keyword_bid"}
  <2>1. u = Undo(s, s.op, e.before)
    BY <1>0, <1>2 DEF ReverseSpec, CampaignStatusOps, GroupStatusOps, AdStatusOps
  <2>2. u.op = s.op /\ u.mode = "set_to" /\ u.to = e.before
    BY <2>1 DEF Undo
  <2>3. ASSUME NEW k PROVE Target(k, u) = e.before
    BY <1>2, <2>2 DEF Target, NewMicros, MoneyOps
  <2> QED
    BY <1>2, <2>2, <2>3 DEF RollbackableOps, MoneyOps
<1>3. CASE s.op \in {"set_campaign_network", "update_campaign"}
  <2>1. u.op = s.op /\ u.to = e.before
    BY <1>0, <1>3 DEF ReverseSpec, Undo, CampaignStatusOps, GroupStatusOps, AdStatusOps
  <2>2. ASSUME NEW k PROVE Target(k, u) = e.before
    BY <1>3, <2>1 DEF Target, MoneyOps
  <2> QED
    BY <1>3, <2>1, <2>2 DEF RollbackableOps
<1>4. CASE s.op \in StatusOps
  <2> DEFINE offs == {"pause_campaign", "pause_ad_group", "pause_ad"}
             ons == {"resume_campaign", "resume_ad_group", "resume_ad"}
  <2>1. u.op \in IF e.before = "PAUSED" THEN offs ELSE ons
    <3>1. CASE s.op \in CampaignStatusOps
      BY <1>0, <3>1 DEF ReverseSpec, Undo, CampaignStatusOps, GroupStatusOps, AdStatusOps
    <3>2. CASE s.op \in GroupStatusOps
      BY <1>0, <3>2 DEF ReverseSpec, Undo, CampaignStatusOps, GroupStatusOps, AdStatusOps
    <3>3. CASE s.op \in AdStatusOps
      BY <1>0, <3>3 DEF ReverseSpec, Undo, CampaignStatusOps, GroupStatusOps, AdStatusOps
    <3> QED
      BY <1>4, <3>1, <3>2, <3>3 DEF StatusOps
  <2>2. ASSUME NEW k PROVE Target(k, u) = IF e.before = "PAUSED" THEN "PAUSED" ELSE "ENABLED"
    BY <2>1 DEF Target, Pausing, MoneyOps
  <2>3. u.op \in StatusOps
    BY <2>1 DEF StatusOps, CampaignStatusOps, GroupStatusOps, AdStatusOps
  <2> QED
    BY <1>4, <2>2, <2>3 DEF OnOff, RollbackableOps, Line
<1> QED
  BY <1>1, <1>2, <1>3, <1>4 DEF RollbackableOps, MoneyOps, Line

\* A campaign, and a group of it, by their parts.
CampaignOf(name, st, partners, budget, groups) ==
    [name |-> name, status |-> st, partners |-> partners, budget |-> budget, groups |-> groups]

GroupOf(st, ad, bid, key) == [status |-> st, ad |-> ad, bid |-> bid, key |-> key]

GroupsOK(groups) ==
    groups = [g \in Groups |-> groups[g]] /\ \A g \in Groups : WellFormedGroup(groups[g])

LEMMA CampaignParts ==
    ASSUME NEW k, WellFormedCampaign(k)
    PROVE  /\ k = CampaignOf(k.name, k.status, k.partners, k.budget, k.groups)
           /\ k.status \in OnOff /\ GroupsOK(k.groups)
<1> DEFINE gs == [g \in Groups |-> k.groups[g]]
<1>1. k = [name |-> k.name, status |-> k.status, partners |-> k.partners, budget |-> k.budget,
           groups |-> gs]
  BY DEF WellFormedCampaign
<1> HIDE DEF gs
<1>2. k.groups = gs
  BY <1>1
<1>3. k.groups = [g \in Groups |-> k.groups[g]]
  BY <1>2 DEF gs
<1> QED
  BY <1>1, <1>2, <1>3 DEF CampaignOf, GroupsOK, WellFormedCampaign

LEMMA CampaignWhole ==
    ASSUME NEW name, NEW st \in OnOff, NEW partners, NEW budget, NEW groups, GroupsOK(groups)
    PROVE  WellFormedCampaign(CampaignOf(name, st, partners, budget, groups))
<1> DEFINE k == CampaignOf(name, st, partners, budget, groups)
<1>1. /\ k.name = name /\ k.status = st /\ k.partners = partners /\ k.budget = budget
      /\ k.groups = groups
  BY DEF CampaignOf
<1>2. k = [name |-> name, status |-> st, partners |-> partners, budget |-> budget,
           groups |-> groups]
  BY DEF CampaignOf
<1> HIDE DEF k
<1>3. [g \in Groups |-> k.groups[g]] = groups /\ \A g \in Groups : WellFormedGroup(k.groups[g])
  BY <1>1 DEF GroupsOK
<1>4. k = [name |-> k.name, status |-> k.status, partners |-> k.partners, budget |-> k.budget,
           groups |-> [g \in Groups |-> k.groups[g]]]
  BY <1>1, <1>2, <1>3, Zenon
<1>5. WellFormedCampaign(k)
  BY <1>1, <1>3, <1>4 DEF WellFormedCampaign
<1> QED
  BY <1>5 DEF k

LEMMA GroupParts ==
    /\ \A grp : WellFormedGroup(grp) =>
        grp = GroupOf(grp.status, grp.ad, grp.bid, grp.key) /\ grp.status \in OnOff /\ grp.ad \in OnOff
    /\ \A st, ad \in OnOff : \A bid, key : WellFormedGroup(GroupOf(st, ad, bid, key))
  BY DEF WellFormedGroup, GroupOf

LEMMA GroupEdited ==
    ASSUME NEW grp, WellFormedGroup(grp), NEW v
    PROVE  /\ [grp EXCEPT !.bid = v] = GroupOf(grp.status, grp.ad, v, grp.key)
           /\ [grp EXCEPT !.key = v] = GroupOf(grp.status, grp.ad, grp.bid, v)
           /\ [grp EXCEPT !.status = v] = GroupOf(v, grp.ad, grp.bid, grp.key)
           /\ [grp EXCEPT !.ad = v] = GroupOf(grp.status, v, grp.bid, grp.key)
           /\ [grp EXCEPT !.status = v, !.ad = v] = GroupOf(v, v, grp.bid, grp.key)
<1>1. grp = [status |-> grp.status, ad |-> grp.ad, bid |-> grp.bid, key |-> grp.key]
  BY DEF WellFormedGroup
<1>2. /\ [grp EXCEPT !.bid = v] = GroupOf(grp.status, grp.ad, v, grp.key)
      /\ [grp EXCEPT !.key = v] = GroupOf(grp.status, grp.ad, grp.bid, v)
  BY <1>1 DEF GroupOf
<1>3. /\ [grp EXCEPT !.status = v] = GroupOf(v, grp.ad, grp.bid, grp.key)
      /\ [grp EXCEPT !.ad = v] = GroupOf(grp.status, v, grp.bid, grp.key)
  BY <1>1 DEF GroupOf
<1>4. [grp EXCEPT !.status = v, !.ad = v] = [[grp EXCEPT !.status = v] EXCEPT !.ad = v]
  OBVIOUS
<1>5. [GroupOf(v, grp.ad, grp.bid, grp.key) EXCEPT !.ad = v] = GroupOf(v, v, grp.bid, grp.key)
  BY DEF GroupOf
<1>6. [grp EXCEPT !.status = v, !.ad = v] = GroupOf(v, v, grp.bid, grp.key)
  BY <1>3, <1>4, <1>5
<1> QED
  BY <1>2, <1>3, <1>6

\* What a request makes of a campaign, part by part.
GroupsAfter(groups, r) ==
    CASE r.op = "update_bid" -> [g \in Groups |-> [groups[g] EXCEPT !.bid = r.value[g]]]
      [] r.op = "update_keyword_bid" -> [groups EXCEPT ![r.group].key = r.value]
      [] r.op = "launch_campaign" -> Started(groups)
      [] r.op \in GroupStatusOps -> [groups EXCEPT ![r.group].status = r.value]
      [] r.op \in AdStatusOps -> [groups EXCEPT ![r.group].ad = r.value]
      [] OTHER -> groups

LEMMA ChangedIs ==
    ASSUME NEW name, NEW st, NEW partners, NEW budget, NEW groups, NEW r, r.op \in RollbackableOps
    PROVE  Changed(CampaignOf(name, st, partners, budget, groups), r) =
             CampaignOf(IF r.op = "update_campaign" THEN r.value ELSE name,
                        IF r.op = "launch_campaign" THEN "ENABLED"
                        ELSE IF r.op \in CampaignStatusOps THEN r.value ELSE st,
                        IF r.op = "set_campaign_network" THEN r.value ELSE partners,
                        IF r.op = "update_budget" THEN r.value ELSE budget,
                        GroupsAfter(groups, r))
<1> USE DEF CampaignOf, Changed, GroupsAfter, CampaignStatusOps, GroupStatusOps, AdStatusOps
<1>1. CASE r.op \in {"update_budget", "update_campaign", "set_campaign_network"}
  BY <1>1
<1>2. CASE r.op = "update_bid"
  BY <1>2
<1>3. CASE r.op = "update_keyword_bid"
  BY <1>3 DEF WithGroup
<1>4. CASE r.op = "launch_campaign"
  BY <1>4
<1>5. CASE r.op \in {"pause_campaign", "resume_campaign"}
  BY <1>5
<1>6. CASE r.op \in GroupStatusOps
  BY <1>6 DEF WithGroup
<1>7. CASE r.op \in AdStatusOps
  BY <1>7 DEF WithGroup
<1> QED
  BY <1>1, <1>2, <1>3, <1>4, <1>5, <1>6, <1>7 DEF RollbackableOps, StatusOps, MoneyOps

LEMMA GroupsKeepForm ==
    ASSUME NEW groups, GroupsOK(groups), NEW r, Understood(r)
    PROVE  GroupsOK(GroupsAfter(groups, r))
<1> USE DEF CampaignStatusOps, GroupStatusOps, AdStatusOps
<1>0. \A g \in Groups : WellFormedGroup(groups[g])
  BY DEF GroupsOK
<1>1. ASSUME NEW h, \A g \in Groups : WellFormedGroup(h[g]), h = [g \in Groups |-> h[g]]
      PROVE  GroupsOK(h)
  BY <1>1 DEF GroupsOK
<1>2. ASSUME NEW grp, WellFormedGroup(grp), NEW v
      PROVE  /\ WellFormedGroup([grp EXCEPT !.bid = v]) /\ WellFormedGroup([grp EXCEPT !.key = v])
             /\ v \in OnOff => /\ WellFormedGroup([grp EXCEPT !.status = v])
                               /\ WellFormedGroup([grp EXCEPT !.ad = v])
  BY <1>2 DEF WellFormedGroup
<1>3. CASE r.op = "update_bid"
  <2>1. GroupsAfter(groups, r) = [g \in Groups |-> [groups[g] EXCEPT !.bid = r.value[g]]]
    BY <1>3 DEF GroupsAfter
  <2> QED
    BY <1>0, <1>1, <1>2, <2>1
<1>4. CASE r.op = "launch_campaign"
  <2>1. GroupsAfter(groups, r) =
            [g \in Groups |-> [groups[g] EXCEPT !.status = "ENABLED", !.ad = "ENABLED"]]
    BY <1>4 DEF GroupsAfter, Started
  <2>2. ASSUME NEW g \in Groups
        PROVE  WellFormedGroup([groups[g] EXCEPT !.status = "ENABLED", !.ad = "ENABLED"])
    <3>1. WellFormedGroup(groups[g]) /\ "ENABLED" \in OnOff
      BY DEF GroupsOK, OnOff
    <3>2. [groups[g] EXCEPT !.status = "ENABLED", !.ad = "ENABLED"]
            = GroupOf("ENABLED", "ENABLED", groups[g].bid, groups[g].key)
      BY <3>1, GroupEdited
    <3> QED
      BY <3>1, <3>2, GroupParts
  <2> QED
    BY <1>1, <2>1, <2>2
<1>5. ASSUME NEW x, \A g \in Groups : g = r.group => WellFormedGroup(x),
             GroupsAfter(groups, r) = [groups EXCEPT ![r.group] = x]
      PROVE  GroupsOK(GroupsAfter(groups, r))
  <2>1. groups = [g \in Groups |-> groups[g]]
    BY DEF GroupsOK
  <2>2. [groups EXCEPT ![r.group] = x] = [g \in Groups |-> IF g = r.group THEN x ELSE groups[g]]
    BY <2>1
  <2> QED
    BY <1>0, <1>1, <1>5, <2>2
<1>6. CASE r.op = "update_keyword_bid"
  <2>1. GroupsAfter(groups, r) = [groups EXCEPT ![r.group] = [groups[r.group] EXCEPT !.key = r.value]]
    BY <1>6 DEF GroupsAfter
  <2> QED
    BY <1>0, <1>2, <1>5, <2>1
<1>7. CASE r.op \in GroupStatusOps
  <2>1. GroupsAfter(groups, r) =
          [groups EXCEPT ![r.group] = [groups[r.group] EXCEPT !.status = r.value]]
    BY <1>7 DEF GroupsAfter
  <2>2. r.value \in OnOff
    BY <1>7 DEF Understood, StatusOps
  <2> QED
    BY <1>0, <1>2, <1>5, <2>1, <2>2
<1>8. CASE r.op \in AdStatusOps
  <2>1. GroupsAfter(groups, r) = [groups EXCEPT ![r.group] = [groups[r.group] EXCEPT !.ad = r.value]]
    BY <1>8 DEF GroupsAfter
  <2>2. r.value \in OnOff
    BY <1>8 DEF Understood, StatusOps
  <2> QED
    BY <1>0, <1>2, <1>5, <2>1, <2>2
<1>9. CASE r.op \notin {"update_bid", "launch_campaign", "update_keyword_bid"}
                       \cup GroupStatusOps \cup AdStatusOps
  BY <1>9 DEF GroupsAfter
<1> QED
  BY <1>3, <1>4, <1>6, <1>7, <1>8, <1>9

LEMMA ChangeKeepsForm ==
    ASSUME NEW k, WellFormedCampaign(k), NEW r, Understood(r)
    PROVE  WellFormedCampaign(Changed(k, r))
<1> DEFINE st == IF r.op = "launch_campaign" THEN "ENABLED"
                 ELSE IF r.op \in CampaignStatusOps THEN r.value ELSE k.status
<1>1. /\ k = CampaignOf(k.name, k.status, k.partners, k.budget, k.groups)
      /\ k.status \in OnOff /\ GroupsOK(k.groups)
  BY CampaignParts
<1>2. r.op \in RollbackableOps
  BY DEF Understood
<1>3. GroupsOK(GroupsAfter(k.groups, r))
  BY <1>1, GroupsKeepForm
<1>4. st \in OnOff
  BY <1>1 DEF Understood, StatusOps, OnOff
<1>5. PICK name, partners, budget :
        Changed(k, r) = CampaignOf(name, st, partners, budget, GroupsAfter(k.groups, r))
  BY <1>1, <1>2, ChangedIs
<1> HIDE DEF st
<1> QED
  BY <1>3, <1>4, <1>5, CampaignWhole

LEMMA AccountKeepsForm ==
    ASSUME NEW a, WellFormed(a), NEW r, Understood(r)
    PROVE  /\ WellFormed(Applied(a, r))
           /\ \A b \in Launching(a, r) : WellFormed(b)
<1> DEFINE begun == [a EXCEPT ![r.id].status = "ENABLED"]
           groups == [g \in Groups |-> [begun[r.id].groups[g] EXCEPT !.status = "ENABLED"]]
<1>0. r.id \in Campaigns /\ WellFormedCampaign(a[r.id])
  BY DEF Understood, WellFormed
<1>1. ASSUME NEW b, WellFormed(b), NEW k, WellFormedCampaign(k)
      PROVE  WellFormed([b EXCEPT ![r.id] = k])
  <2>1. b = [x \in Campaigns |-> b[x]] /\ \A x \in Campaigns : WellFormedCampaign(b[x])
    BY <1>1 DEF WellFormed
  <2>2. [b EXCEPT ![r.id] = k] = [x \in Campaigns |-> IF x = r.id THEN k ELSE b[x]]
    BY <2>1
  <2> QED
    BY <1>1, <2>1, <2>2 DEF WellFormed
<1>2. WellFormed(Applied(a, r))
  BY <1>0, <1>1, ChangeKeepsForm DEF Applied
<1>3. WellFormed(begun)
  <2>0. /\ a[r.id] = CampaignOf(a[r.id].name, a[r.id].status, a[r.id].partners, a[r.id].budget,
                                a[r.id].groups)
        /\ GroupsOK(a[r.id].groups)
    BY <1>0, CampaignParts
  <2>1. [a[r.id] EXCEPT !.status = "ENABLED"] =
          CampaignOf(a[r.id].name, "ENABLED", a[r.id].partners, a[r.id].budget, a[r.id].groups)
    BY <2>0 DEF CampaignOf
  <2>2. WellFormedCampaign([a[r.id] EXCEPT !.status = "ENABLED"])
    BY <2>0, <2>1, CampaignWhole DEF OnOff
  <2> QED
    BY <1>1, <2>2
<1>4. WellFormed([begun EXCEPT ![r.id].groups = groups])
  <2>1. /\ begun[r.id].status \in OnOff /\ GroupsOK(begun[r.id].groups)
        /\ begun[r.id] = CampaignOf(begun[r.id].name, begun[r.id].status, begun[r.id].partners,
                                    begun[r.id].budget, begun[r.id].groups)
    <3> HIDE DEF begun
    <3> QED
      BY <1>0, <1>3, CampaignParts DEF WellFormed
  <2> HIDE DEF begun
  <2>2. GroupsOK(groups)
    <3>1. ASSUME NEW g \in Groups PROVE WellFormedGroup(groups[g])
      <4>1. WellFormedGroup(begun[r.id].groups[g]) /\ "ENABLED" \in OnOff
        BY <2>1 DEF GroupsOK, OnOff
      <4>2. groups[g] = GroupOf("ENABLED", begun[r.id].groups[g].ad, begun[r.id].groups[g].bid,
                                begun[r.id].groups[g].key)
        BY <4>1, GroupEdited
      <4> QED
        BY <4>1, <4>2, GroupParts
    <3> QED
      BY <3>1 DEF GroupsOK
  <2> HIDE DEF groups
  <2>3. [begun[r.id] EXCEPT !.groups = groups]
          = CampaignOf(begun[r.id].name, begun[r.id].status, begun[r.id].partners,
                       begun[r.id].budget, groups)
    BY <2>1 DEF CampaignOf
  <2> QED
    BY <1>1, <1>3, <2>1, <2>2, <2>3, CampaignWhole
<1>5. Launching(a, r) = {begun, [begun EXCEPT ![r.id].groups = groups]}
  BY DEF Launching
<1> QED
  BY <1>2, <1>3, <1>4, <1>5

-----------------------------------------------------------------------------
(* The chains of calls.                                                     *)

\* What is there when a chain comes to a call, or to its end.
Preceding(op, entity) ==
    Parts(op) \cap (CASE entity = "assets" -> {}
                      [] entity = "budget" -> {"assets"}
                      [] entity = "campaign" -> {"assets", "budget"}
                      [] entity = "group" -> {"assets", "budget", "campaign"}
                      [] entity = "media" -> {"assets", "budget", "campaign", "group"}
                      [] entity = "ad" -> Entities \ {"ad"}
                      [] OTHER -> Entities)

LEMMA ChainCases ==
    ASSUME NEW op \in CreateOps
    PROVE  \/ /\ op = "create_search_campaign"
              /\ Chain(op) = <<"budget", "campaign", "group", "ad">>
              /\ Parts(op) = {"budget", "campaign", "group", "ad"}
           \/ /\ op = "create_app_campaign"
              /\ Chain(op) = <<"budget", "campaign", "group", "media", "ad">>
              /\ Parts(op) = {"budget", "campaign", "group", "media", "ad"}
           \/ /\ op \in {"create_gdn_campaign", "create_demand_gen_campaign", "create_video_campaign"}
              /\ Chain(op) = <<"assets", "budget", "campaign", "group", "ad">>
              /\ Parts(op) = {"assets", "budget", "campaign", "group", "ad"}
<1>1. CASE op = "create_search_campaign"
  <2>1. Chain(op) = <<"budget", "campaign", "group", "ad">>
    BY <1>1 DEF Chain, SearchChain, AppChain, GdnChain, DemandGenChain, VideoChain
  <2>2. /\ DOMAIN Chain(op) = 1 .. 4
        /\ Chain(op)[1] = "budget" /\ Chain(op)[2] = "campaign" /\ Chain(op)[3] = "group"
        /\ Chain(op)[4] = "ad"
    BY <2>1
  <2>3. Parts(op) = {Chain(op)[i] : i \in 1 .. 4}
    BY <2>2 DEF Parts
  <2>4. \A i \in 1 .. 4 : i = 1 \/ i = 2 \/ i = 3 \/ i = 4
    OBVIOUS
  <2>5. Parts(op) = {"budget", "campaign", "group", "ad"}
    BY <2>2, <2>3, <2>4
  <2> QED
    BY <1>1, <2>1, <2>5
<1>2. CASE op = "create_app_campaign"
  <2>1. Chain(op) = <<"budget", "campaign", "group", "media", "ad">>
    BY <1>2 DEF Chain, SearchChain, AppChain, GdnChain, DemandGenChain, VideoChain
  <2>2. /\ DOMAIN Chain(op) = 1 .. 5
        /\ Chain(op)[1] = "budget" /\ Chain(op)[2] = "campaign" /\ Chain(op)[3] = "group"
        /\ Chain(op)[4] = "media" /\ Chain(op)[5] = "ad"
    BY <2>1
  <2>3. Parts(op) = {Chain(op)[i] : i \in 1 .. 5}
    BY <2>2 DEF Parts
  <2>4. \A i \in 1 .. 5 : i = 1 \/ i = 2 \/ i = 3 \/ i = 4 \/ i = 5
    OBVIOUS
  <2>5. Parts(op) = {"budget", "campaign", "group", "media", "ad"}
    BY <2>2, <2>3, <2>4
  <2> QED
    BY <1>2, <2>1, <2>5
<1>3. CASE op \in {"create_gdn_campaign", "create_demand_gen_campaign", "create_video_campaign"}
  <2>1. Chain(op) = <<"assets", "budget", "campaign", "group", "ad">>
    BY <1>3 DEF Chain, SearchChain, AppChain, GdnChain, DemandGenChain, VideoChain
  <2>2. /\ DOMAIN Chain(op) = 1 .. 5
        /\ Chain(op)[1] = "assets" /\ Chain(op)[2] = "budget" /\ Chain(op)[3] = "campaign"
        /\ Chain(op)[4] = "group" /\ Chain(op)[5] = "ad"
    BY <2>1
  <2>3. Parts(op) = {Chain(op)[i] : i \in 1 .. 5}
    BY <2>2 DEF Parts
  <2>4. \A i \in 1 .. 5 : i = 1 \/ i = 2 \/ i = 3 \/ i = 4 \/ i = 5
    OBVIOUS
  <2>5. Parts(op) = {"assets", "budget", "campaign", "group", "ad"}
    BY <2>2, <2>3, <2>4
  <2> QED
    BY <1>3, <2>1, <2>5
<1> QED
  BY <1>1, <1>2, <1>3 DEF CreateOps

LEMMA AfterIs ==
    ASSUME NEW op, NEW i \in DOMAIN Chain(op),
           \A j \in DOMAIN Chain(op) : Chain(op)[j] = Chain(op)[i] => j = i
    PROVE  After(op, Chain(op)[i]) = IF i = Len(Chain(op)) THEN "finished" ELSE Chain(op)[i + 1]
  BY DEF After

LEMMA ChainMoves ==
    ASSUME NEW op \in CreateOps
    PROVE  /\ Parts(op) \subseteq Entities
           /\ Chain(op)[1] \in Parts(op) /\ Preceding(op, Chain(op)[1]) = {}
           /\ Preceding(op, "finished") = Parts(op)
           /\ \A e \in Parts(op) :
                /\ After(op, e) \in Parts(op) \cup {"finished"}
                /\ Preceding(op, After(op, e)) = Preceding(op, e) \cup {e}
<1> USE DEF Preceding, Entities
<1>1. CASE /\ Chain(op) = <<"budget", "campaign", "group", "ad">>
           /\ Parts(op) = {"budget", "campaign", "group", "ad"}
  <2>1. /\ DOMAIN Chain(op) = 1 .. 4 /\ Len(Chain(op)) = 4
        /\ Chain(op)[1] = "budget" /\ Chain(op)[2] = "campaign"
        /\ Chain(op)[3] = "group" /\ Chain(op)[4] = "ad"
    BY <1>1
  <2>2. \A i \in 1 .. 4 :
          After(op, Chain(op)[i]) = IF i = 4 THEN "finished" ELSE Chain(op)[i + 1]
    <3>1. \A i, j \in 1 .. 4 : Chain(op)[j] = Chain(op)[i] => j = i
      <4>1. \A i \in 1 .. 4 : i = 1 \/ i = 2 \/ i = 3 \/ i = 4
        OBVIOUS
      <4> QED
        BY <2>1, <4>1
    <3>2. ASSUME NEW i \in DOMAIN Chain(op)
          PROVE  After(op, Chain(op)[i]) =
                    IF i = Len(Chain(op)) THEN "finished" ELSE Chain(op)[i + 1]
      <4>1. \A j \in DOMAIN Chain(op) : Chain(op)[j] = Chain(op)[i] => j = i
        BY <2>1, <3>1
      <4> QED
        BY <4>1, AfterIs
    <3> QED
      BY <2>1, <3>2
  <2>3. /\ After(op, "budget") = "campaign" /\ After(op, "campaign") = "group"
        /\ After(op, "group") = "ad" /\ After(op, "ad") = "finished"
    BY <2>1, <2>2
  <2> QED
    BY <1>1, <2>1, <2>3
<1>2. CASE /\ Chain(op) = <<"budget", "campaign", "group", "media", "ad">>
           /\ Parts(op) = {"budget", "campaign", "group", "media", "ad"}
  <2>1. /\ DOMAIN Chain(op) = 1 .. 5 /\ Len(Chain(op)) = 5
        /\ Chain(op)[1] = "budget" /\ Chain(op)[2] = "campaign"
        /\ Chain(op)[3] = "group" /\ Chain(op)[4] = "media" /\ Chain(op)[5] = "ad"
    BY <1>2
  <2>2. \A i \in 1 .. 5 :
          After(op, Chain(op)[i]) = IF i = 5 THEN "finished" ELSE Chain(op)[i + 1]
    <3>1. \A i, j \in 1 .. 5 : Chain(op)[j] = Chain(op)[i] => j = i
      <4>1. \A i \in 1 .. 5 : i = 1 \/ i = 2 \/ i = 3 \/ i = 4 \/ i = 5
        OBVIOUS
      <4> QED
        BY <2>1, <4>1
    <3>2. ASSUME NEW i \in DOMAIN Chain(op)
          PROVE  After(op, Chain(op)[i]) =
                    IF i = Len(Chain(op)) THEN "finished" ELSE Chain(op)[i + 1]
      <4>1. \A j \in DOMAIN Chain(op) : Chain(op)[j] = Chain(op)[i] => j = i
        BY <2>1, <3>1
      <4> QED
        BY <4>1, AfterIs
    <3> QED
      BY <2>1, <3>2
  <2>3. /\ After(op, "budget") = "campaign" /\ After(op, "campaign") = "group"
        /\ After(op, "group") = "media" /\ After(op, "media") = "ad"
        /\ After(op, "ad") = "finished"
    BY <2>1, <2>2
  <2> QED
    BY <1>2, <2>1, <2>3
<1>3. CASE /\ Chain(op) = <<"assets", "budget", "campaign", "group", "ad">>
           /\ Parts(op) = {"assets", "budget", "campaign", "group", "ad"}
  <2>1. /\ DOMAIN Chain(op) = 1 .. 5 /\ Len(Chain(op)) = 5
        /\ Chain(op)[1] = "assets" /\ Chain(op)[2] = "budget"
        /\ Chain(op)[3] = "campaign" /\ Chain(op)[4] = "group" /\ Chain(op)[5] = "ad"
    BY <1>3
  <2>2. \A i \in 1 .. 5 :
          After(op, Chain(op)[i]) = IF i = 5 THEN "finished" ELSE Chain(op)[i + 1]
    <3>1. \A i, j \in 1 .. 5 : Chain(op)[j] = Chain(op)[i] => j = i
      <4>1. \A i \in 1 .. 5 : i = 1 \/ i = 2 \/ i = 3 \/ i = 4 \/ i = 5
        OBVIOUS
      <4> QED
        BY <2>1, <4>1
    <3>2. ASSUME NEW i \in DOMAIN Chain(op)
          PROVE  After(op, Chain(op)[i]) =
                    IF i = Len(Chain(op)) THEN "finished" ELSE Chain(op)[i + 1]
      <4>1. \A j \in DOMAIN Chain(op) : Chain(op)[j] = Chain(op)[i] => j = i
        BY <2>1, <3>1
      <4> QED
        BY <4>1, AfterIs
    <3> QED
      BY <2>1, <3>2
  <2>3. /\ After(op, "assets") = "budget" /\ After(op, "budget") = "campaign"
        /\ After(op, "campaign") = "group" /\ After(op, "group") = "ad"
        /\ After(op, "ad") = "finished"
    BY <2>1, <2>2
  <2> QED
    BY <1>3, <2>1, <2>3
<1> QED
  BY <1>1, <1>2, <1>3, ChainCases

\* What the removals still to come leave of the entities.
Gone(names) == UNION {Within(names[i]) : i \in DOMAIN names}

Left(c) == made[c] \ Gone(todo[c])

Tidied(op, entities) ==
    /\ op \in {"create_search_campaign", "create_app_campaign"} =>
          entities \cap {"budget", "campaign", "group", "ad"} = {}
    /\ "budget" \in entities => "campaign" \in entities

\* Whichever call raises, its removals tidy up.
LEMMA RemovalsTidy ==
    ASSUME NEW op \in CreateOps, NEW e \in Parts(op)
    PROVE  LET names == Removals(op, e, Preceding(op, e))
           IN  names \in Seq(Entities) /\ Tidied(op, Preceding(op, e) \ Gone(names))
<1> DEFINE held0 == Preceding(op, e)
           names == Removals(op, e, held0)
<1>1. names \in Seq(Entities)
  <2>1. \A x \in Entities : IfHeld(x, held0) \in Seq(Entities)
    BY DEF IfHeld
  <2>2. /\ IfHeld("group", held0) \in Seq(Entities) /\ IfHeld("campaign", held0) \in Seq(Entities)
        /\ IfHeld("budget", held0) \in Seq(Entities)
    BY <2>1 DEF Entities
  <2> QED
    BY <2>2 DEF Removals
<1>2. CASE ~CleansUp(op, e)
  <2>1. names = <<>>
    BY <1>2 DEF Removals
  <2>2. Gone(<<>>) = {}
    BY DEF Gone
  <2>3. Tidied(op, held0)
    BY <1>2, ChainCases DEF CleansUp, Preceding, Tidied, Entities
  <2> QED
    BY <1>1, <2>1, <2>2, <2>3
<1>3. CASE CleansUp(op, e)
  <2>1. names = IfHeld("group", held0) \o IfHeld("campaign", held0) \o IfHeld("budget", held0)
    BY <1>3 DEF Removals
  <2>2. CASE "group" \in held0
    <3>1. "campaign" \in held0 /\ "budget" \in held0
      BY <2>2, ChainCases DEF Preceding, Entities
    <3>2. names = <<"group">> \o <<"campaign">> \o <<"budget">>
      BY <2>1, <2>2, <3>1 DEF IfHeld
    <3>3. Gone(names) = {"group", "ad", "campaign", "budget"}
      <4>1. DOMAIN names = 1 .. 3 /\ names[1] = "group" /\ names[2] = "campaign" /\ names[3] = "budget"
        BY <3>2
      <4>2. Gone(names) = Within("group") \cup Within("campaign") \cup Within("budget")
        BY <4>1 DEF Gone
      <4> QED
        BY <4>2 DEF Within
    <3> QED
      BY <1>1, <3>3 DEF Tidied
  <2>3. CASE "group" \notin held0 /\ e = "campaign"
    <3>1. "campaign" \notin held0 /\ "budget" \in held0 /\ "ad" \notin held0
      BY <2>3, ChainCases DEF Preceding, Entities
    <3>2. names = <<"budget">>
      <4>1. names = <<>> \o <<>> \o <<"budget">>
        BY <2>1, <2>3, <3>1 DEF IfHeld
      <4> QED
        BY <4>1
    <3>3. Gone(names) = {"budget"}
      <4>1. DOMAIN names = 1 .. 1 /\ names[1] = "budget"
        BY <3>2
      <4>2. Gone(names) = Within("budget")
        BY <4>1 DEF Gone
      <4> QED
        BY <4>2 DEF Within
    <3> QED
      BY <1>1, <2>3, <3>1, <3>3 DEF Tidied
  <2>4. CASE "group" \notin held0 /\ e # "campaign"
    <3>1. /\ e = "group" /\ "ad" \notin held0
          /\ "campaign" \in held0 /\ "budget" \in held0
      BY <1>3, <2>4, ChainCases DEF Preceding, Entities, CleansUp
    <3>2. names = (<<>> \o <<"campaign">>) \o <<"budget">>
      BY <2>1, <2>4, <3>1 DEF IfHeld
    <3>3. Gone(names) = {"group", "ad", "campaign", "budget"}
      <4>1. DOMAIN names = 1 .. 2 /\ names[1] = "campaign" /\ names[2] = "budget"
        BY <3>2
      <4>2. Gone(names) = Within("campaign") \cup Within("budget")
        BY <4>1 DEF Gone
      <4> QED
        BY <4>2 DEF Within
    <3> QED
      BY <1>1, <3>3 DEF Tidied
  <2> QED
    BY <2>2, <2>3, <2>4
<1> QED
  BY <1>2, <1>3

\* A removal that works leaves what the others leave.
LEMMA RemovalLeaves ==
    ASSUME NEW names \in Seq(Entities), names # <<>>
    PROVE  Gone(names) = Within(Head(names)) \cup Gone(Tail(names))
<1>1. \A i \in DOMAIN Tail(names) : i + 1 \in DOMAIN names /\ Tail(names)[i] = names[i + 1]
  OBVIOUS
<1>2. \A i \in DOMAIN names : i = 1 \/ (i - 1 \in DOMAIN Tail(names) /\ Tail(names)[i - 1] = names[i])
  OBVIOUS
<1>3. 1 \in DOMAIN names /\ Head(names) = names[1]
  OBVIOUS
<1>4. \A e : e \in Gone(names) <=> \E i \in DOMAIN names : e \in Within(names[i])
  BY DEF Gone
<1>5. \A e : e \in Gone(Tail(names)) <=> \E i \in DOMAIN Tail(names) : e \in Within(Tail(names)[i])
  BY DEF Gone
<1> QED
  BY <1>1, <1>2, <1>3, <1>4, <1>5

-----------------------------------------------------------------------------
(* The invariant.                                                           *)

Claimed == {"executing", "applied", "needs_review"}

\* The first n steps of c are in the account, once and for good.
Whole(c, n) ==
    /\ hits[c] = [i \in 1 .. n |-> i] /\ undos[c] = <<>>
    /\ \A a \in adrift : a[1] # c

CardOK(c) == \A i \in DOMAIN Plan(c) : Line(Plan(c)[i], card[c][i])

PackageOK(c) ==
    /\ status[c] # "absent" => draft[c] \in Drafts
    /\ status[c] # "absent" /\ draft[c] \in Packages => CardOK(c)
    /\ pc[c] # "idle" =>
        /\ draft[c] \in Packages /\ status[c] \in {"executing", "needs_review"}
        /\ at[c] \in 0 .. Len(Plan(c)) /\ (pc[c] # "settle" => at[c] > 0)
    /\ pc[c] = "idle" => at[c] = 0
    /\ call[c] = "none" => request[c] = NoRequest
    /\ call[c] # "none" <=> pc[c] \in {"call", "undo"}
    /\ call[c] = "flying" =>
        /\ Understood(request[c])
        /\ pc[c] = "call" => request[c].value = Shown(c).after
        /\ pc[c] = "undo" => request[c].value = Shown(c).before
    /\ pc[c] = "idle" /\ status[c] \in {"absent", "pending", "confirmed"} => Whole(c, 0)
    /\ pc[c] = "gates" \/ (pc[c] = "call" /\ call[c] # "landed") => Whole(c, at[c] - 1)
    /\ pc[c] \in {"verify", "finalize"} \/ (pc[c] = "call" /\ call[c] = "landed") =>
        Whole(c, at[c])
    /\ pc[c] = "finalize" => at[c] = Len(Plan(c))
    /\ status[c] = "applied" /\ draft[c] \in Packages => Whole(c, Len(Plan(c)))

CreationOK(c) ==
    /\ worker[c] # "idle" \/ chain[c] # "none" =>
        Kind(c) \in CreateOps /\ status[c] \in Claimed
    /\ worker[c] = "gates" => chain[c] = "none"
    /\ worker[c] = "finalize" => chain[c] = "finished"
    /\ status[c] = "applied" /\ Kind(c) \in CreateOps => chain[c] = "finished"
    /\ chain[c] = "none" => made[c] = {} /\ held[c] = {}
    /\ chain[c] \in Entities => chain[c] \in Parts(Kind(c))
    /\ chain[c] \in Entities \cup {"finished"} =>
        held[c] = Preceding(Kind(c), chain[c]) /\ made[c] = held[c]
    /\ todo[c] # <<>> => chain[c] = "cleanup"
    /\ chain[c] \in {"cleanup", "failed"} /\ tidy[c] => Tidied(Kind(c), Left(c))

Shape ==
    /\ StoreTypeOK
    /\ pc \in [Proposals -> {"idle"} \cup Forwards \cup Backwards]
    /\ at \in [Proposals -> Int]
    /\ clean \in [Proposals -> BOOLEAN]
    /\ call \in [Proposals -> {"none", "flying", "landed", "refused"}]
    /\ DOMAIN request = Proposals /\ DOMAIN card = Proposals
    /\ DOMAIN hits = Proposals /\ DOMAIN undos = Proposals
    /\ edits \in 0 .. MaxEdits
    /\ worker \in [Proposals -> {"idle", "gates", "waiting", "finalize"}]
    /\ chain \in [Proposals -> {"none", "finished", "failed", "dead"} \cup Running]
    /\ made \in [Proposals -> SUBSET Entities]
    /\ held \in [Proposals -> SUBSET Entities]
    /\ todo \in [Proposals -> Seq(Entities)]
    /\ tidy \in [Proposals -> BOOLEAN]

AccountOK ==
    /\ WellFormed(acct)
    /\ \A a \in adrift : a[1] \in Proposals /\ Understood(a[2])

IInv ==
    /\ Shape /\ AccountOK
    /\ \A c \in Proposals : PackageOK(c) /\ CreationOK(c)

-----------------------------------------------------------------------------
(* What leaves a proposal alone.                                            *)

\* What users and the scheduler do to a row.
RowDrift(c) ==
    /\ draft'[c] = draft[c]
    /\ \/ status'[c] = status[c]
       \/ status[c] = "pending" /\ status'[c] \in {"confirmed", "rejected"}
       \/ status[c] = "confirmed" /\ status'[c] = "failed"
       \/ status[c] = "executing" /\ status'[c] = "needs_review"

SamePackage(c) ==
    /\ pc'[c] = pc[c] /\ at'[c] = at[c] /\ request'[c] = request[c] /\ call'[c] = call[c]
    /\ card'[c] = card[c] /\ hits'[c] = hits[c] /\ undos'[c] = undos[c]
    /\ \A a \in adrift' : a[1] = c => a \in adrift

SameCreation(c) ==
    /\ worker'[c] = worker[c] /\ chain'[c] = chain[c] /\ made'[c] = made[c]
    /\ held'[c] = held[c] /\ todo'[c] = todo[c] /\ tidy'[c] = tidy[c]

LEMMA SameDraft ==
    ASSUME NEW c \in Proposals, draft'[c] = draft[c]
    PROVE  Plan(c)' = Plan(c) /\ Kind(c)' = Kind(c)
  BY DEF Plan, Kind

LEMMA SameWhole ==
    ASSUME NEW c \in Proposals, SamePackage(c)
    PROVE  \A n : Whole(c, n) => Whole(c, n)'
  BY DEF Whole, SamePackage

LEMMA DriftKeepsPackage ==
    ASSUME NEW c \in Proposals, PackageOK(c), SamePackage(c), RowDrift(c)
    PROVE  PackageOK(c)'
<1>1. Plan(c)' = Plan(c)
  BY SameDraft DEF RowDrift
<1>2. Shown(c)' = Shown(c)
  BY DEF Shown, SamePackage
<1>3. \A n : Whole(c, n) => Whole(c, n)'
  BY SameWhole
<1>4. CardOK(c) => CardOK(c)'
  BY <1>1 DEF CardOK, SamePackage
<1> QED
  BY <1>1, <1>2, <1>3, <1>4 DEF PackageOK, SamePackage, RowDrift

LEMMA DriftKeepsCreation ==
    ASSUME NEW c \in Proposals, CreationOK(c), SameCreation(c), RowDrift(c)
    PROVE  CreationOK(c)'
<1>1. Kind(c)' = Kind(c)
  BY SameDraft DEF RowDrift
<1>2. Left(c)' = Left(c)
  BY DEF Left, SameCreation
<1> QED
  BY <1>1, <1>2 DEF CreationOK, SameCreation, RowDrift, Claimed

\* The row of a creation is of no concern to packages, and the other way round.
LEMMA CreationRowKeepsPackage ==
    ASSUME NEW c \in Proposals, PackageOK(c), SamePackage(c), draft'[c] = draft[c],
           draft[c] \notin Packages,
           \/ status'[c] = status[c]
           \/ status[c] # "absent" /\ status'[c] \in Claimed
    PROVE  PackageOK(c)'
<1>1. \A n : Whole(c, n) => Whole(c, n)'
  BY SameWhole
<1> QED
  BY <1>1 DEF PackageOK, SamePackage, Claimed

LEMMA PackageRowKeepsCreation ==
    ASSUME NEW c \in Proposals, CreationOK(c), SameCreation(c), draft'[c] = draft[c],
           Kind(c) \notin CreateOps
    PROVE  CreationOK(c)'
<1>1. Kind(c)' = Kind(c)
  BY SameDraft
<1>2. Left(c)' = Left(c)
  BY DEF Left, SameCreation
<1> QED
  BY <1>1, <1>2 DEF CreationOK, SameCreation

LEMMA KindsApart ==
    ASSUME NEW c \in Proposals, Kind(c) \in CreateOps
    PROVE  draft[c] \notin Packages
  BY DEF Kind, Packages, CreateOps

-----------------------------------------------------------------------------
(* The creations.                                                           *)

LEMMA CreationStepKeeps ==
    ASSUME NEW c \in Proposals, Shape, CreationOK(c), CreationStep(c)
    PROVE  CreationOK(c)'
<1> USE DEF Shape
<1>0. StoreTypeOK
  OBVIOUS
<1>1. draft' = draft /\ Kind(c)' = Kind(c)
  BY DEF CreationStep, ClaimCreation, Claim, CreationRefused, StartChain, ChainReturns,
         CreationFails, FinalizeCreation, Finalize, Decide, Create, CreateFails,
         CreateUnanswered, Remove, RemoveFails, ChainRaises, CreationCrashes, storeVars, Kind
<1>2. CASE ClaimCreation(c)
  BY <1>1, <1>2 DEF ClaimCreation, Claim, MatchClaim, CreationOK, Claimed, StoreTypeOK, Kind, Left
<1>3. CASE CreationRefused(c)
  BY <1>1, <1>3 DEF CreationRefused, CreationOK, Left, storeVars
<1>4. CASE StartChain(c)
  <2>1. Chain(Kind(c))[1] \in Parts(Kind(c)) /\ Preceding(Kind(c), Chain(Kind(c))[1]) = {}
    BY <1>4, ChainMoves DEF StartChain, CreationOK
  <2>2. Parts(Kind(c)) \subseteq Entities
    BY <1>4, ChainMoves DEF StartChain, CreationOK
  <2> QED
    BY <1>1, <1>4, <2>1, <2>2 DEF StartChain, CreationOK, storeVars, Entities
<1>5. CASE ChainReturns(c)
  BY <1>1, <1>5 DEF ChainReturns, CreationOK, Left, storeVars
<1>6. CASE CreationFails(c)
  BY <1>1, <1>6 DEF CreationFails, CreationOK, Left, storeVars
<1>7. CASE FinalizeCreation(c)
  BY <1>1, <1>7 DEF FinalizeCreation, Finalize, Decide, CreationOK, Left, storeVars, StoreTypeOK,
                    Claimed
<1>8. CASE Create(c)
  <2>1. Kind(c) \in CreateOps /\ chain[c] \in Parts(Kind(c))
    BY <1>8 DEF Create, CreationOK, Entities
  <2>2. /\ After(Kind(c), chain[c]) \in Parts(Kind(c)) \cup {"finished"}
        /\ Preceding(Kind(c), After(Kind(c), chain[c])) = Preceding(Kind(c), chain[c]) \cup {chain[c]}
        /\ Parts(Kind(c)) \subseteq Entities
    BY <2>1, ChainMoves
  <2> QED
    BY <1>1, <1>8, <2>1, <2>2 DEF Create, CreationOK, storeVars, Entities
<1>9. CASE CreateFails(c)
  <2>1. Kind(c) \in CreateOps /\ chain[c] \in Parts(Kind(c))
    BY <1>9 DEF CreateFails, CreationOK, Entities
  <2>2. /\ made'[c] = Preceding(Kind(c), chain[c])
        /\ todo'[c] = Removals(Kind(c), chain[c], Preceding(Kind(c), chain[c]))
    BY <1>9 DEF CreateFails, Raise, CreationOK
  <2>3. Tidied(Kind(c), Left(c)')
    BY <2>1, <2>2, RemovalsTidy DEF Left
  <2> QED
    BY <1>1, <1>9, <2>1, <2>3 DEF CreateFails, Raise, CreationOK, storeVars, Entities
<1>10. CASE CreateUnanswered(c)
  BY <1>1, <1>10 DEF CreateUnanswered, Raise, CreationOK, storeVars, Entities
<1>11. CASE Remove(c)
  <2>1. chain[c] = "cleanup"
    BY <1>11 DEF Remove, CreationOK
  <2>2. Left(c)' = Left(c)
    <3>1. Gone(todo[c]) = Within(Head(todo[c])) \cup Gone(Tail(todo[c]))
      BY <1>11, RemovalLeaves DEF Remove
    <3>2. made'[c] = made[c] \ Within(Head(todo[c])) /\ todo'[c] = Tail(todo[c])
      BY <1>11 DEF Remove
    <3> QED
      BY <3>1, <3>2 DEF Left
  <2> QED
    BY <1>1, <1>11, <2>1, <2>2 DEF Remove, CreationOK, storeVars, Entities
<1>12. CASE RemoveFails(c)
  BY <1>1, <1>12 DEF RemoveFails, CreationOK, storeVars, Entities
<1>13. CASE ChainRaises(c)
  BY <1>1, <1>13 DEF ChainRaises, CreationOK, storeVars, Left, Entities
<1>14. CASE CreationCrashes(c)
  <2>1. /\ worker'[c] = "idle" /\ todo'[c] = <<>> /\ held'[c] = held[c] /\ tidy'[c] = tidy[c]
        /\ status'[c] = status[c]
        /\ chain'[c] = IF chain[c] \in Running THEN "dead" ELSE chain[c]
    BY <1>14 DEF CreationCrashes, storeVars
  <2>2. CASE chain[c] \in Running
    BY <1>1, <2>1, <2>2, <1>14 DEF CreationOK, CreationCrashes, Entities, Running
  <2>3. CASE chain[c] \notin Running
    <3>1. made'[c] = made[c]
      BY <1>14, <2>3 DEF CreationCrashes, Running
    <3>2. todo[c] = <<>>
      BY <2>3 DEF CreationOK, Running
    <3> QED
      BY <1>1, <2>1, <2>3, <3>1, <3>2 DEF CreationOK, Left
  <2> QED
    BY <2>2, <2>3
<1> QED
  BY <1>2, <1>3, <1>4, <1>5, <1>6, <1>7, <1>8, <1>9, <1>10, <1>11, <1>12, <1>13, <1>14
     DEF CreationStep

\* The other proposals notice nothing of it, and neither does a package of c.
LEMMA CreationStepElsewhere ==
    ASSUME NEW c \in Proposals, Shape, CreationOK(c), CreationStep(c), UNCHANGED compositeVars
    PROVE  /\ \A x \in Proposals \ {c} : RowDrift(x) /\ SameCreation(x)
           /\ \A x \in Proposals : SamePackage(x)
           /\ draft'[c] = draft[c]
           /\ \/ status'[c] = status[c]
              \/ /\ status[c] # "absent" /\ status'[c] \in Claimed
                 /\ draft[c] \notin Packages
<1>1. \A x \in Proposals : SamePackage(x)
  BY DEF SamePackage, compositeVars, executorVars, packageAccount, packageHistory
<1>2. \A x \in Proposals \ {c} : SameCreation(x)
  BY DEF Shape, SameCreation, CreationStep, ClaimCreation, CreationRefused, StartChain,
         ChainReturns, CreationFails, FinalizeCreation, Create, CreateFails, Raise,
         CreateUnanswered, Remove, RemoveFails, ChainRaises, CreationCrashes
<1>3. \/ UNCHANGED storeVars
      \/ ClaimCreation(c)
      \/ FinalizeCreation(c)
  BY DEF CreationStep, CreationRefused, StartChain, ChainReturns, CreationFails, Create,
         CreateFails, CreateUnanswered, Remove, RemoveFails, ChainRaises, CreationCrashes
<1>4. CASE UNCHANGED storeVars
  BY <1>1, <1>2, <1>4 DEF RowDrift, storeVars
<1>5. CASE ClaimCreation(c)
  BY <1>1, <1>2, <1>5, KindsApart
     DEF RowDrift, ClaimCreation, Claim, MatchClaim, Shape, StoreTypeOK, Claimed, Kind
<1>6. CASE FinalizeCreation(c)
  BY <1>1, <1>2, <1>6, KindsApart
     DEF RowDrift, FinalizeCreation, Finalize, Decide, Shape, StoreTypeOK, Claimed, CreationOK,
         storeVars
<1> QED
  BY <1>3, <1>4, <1>5, <1>6

-----------------------------------------------------------------------------
(* The packages.                                                            *)

LEMMA StepOfPlan ==
    ASSUME NEW c \in Proposals, Shape, PackageOK(c), pc[c] # "idle", at[c] > 0
    PROVE  /\ Line(Step(c), Shown(c)) /\ Step(c).op \in RollbackableOps
           /\ at[c] \in 1 .. Len(Plan(c)) /\ Len(Plan(c)) \in Nat
<1>1. draft[c] \in Packages /\ CardOK(c) /\ at[c] \in 0 .. Len(Plan(c))
  BY DEF PackageOK
<1>2. DOMAIN Plan(c) = 1 .. Len(Plan(c)) /\ Len(Plan(c)) \in 2 .. 10
  BY <1>1, PlanShape DEF Plan
<1>3. at[c] \in DOMAIN Plan(c)
  BY <1>1, <1>2
<1> QED
  BY <1>1, <1>2, <1>3 DEF CardOK, Line, Step, Shown

LEMMA AppendNext ==
    ASSUME NEW n \in Nat \ {0}
    PROVE  Append([i \in 1 .. n - 1 |-> i], n) = [i \in 1 .. n |-> i]
<1> DEFINE s == [i \in 1 .. n - 1 |-> i]
<1>1. s \in Seq(Int) /\ Len(s) = n - 1
  OBVIOUS
<1>2. Append(s, n) \in Seq(Int) /\ Len(Append(s, n)) = n
  BY <1>1
<1>3. \A i \in 1 .. n : Append(s, n)[i] = i
  BY <1>1
<1> QED
  BY <1>1, <1>2, <1>3

\* Forwards.
LEMMA ForwardStepKeeps ==
    ASSUME NEW c \in Proposals, Shape, AccountOK, PackageOK(c),
           \/ ClaimPackage(c) \/ SendStep(c) \/ StepRefused(c) \/ StepReturns(c) \/ StepFails(c)
           \/ StepLost(c) \/ StepVerified(c) \/ StepUnverified(c) \/ FinalizePackage(c)
    PROVE  PackageOK(c)'
<1> USE DEF Shape
<1>1. draft' = draft /\ card' = card
  BY DEF ClaimPackage, Claim, SendStep, StepRefused, StepReturns, StepFails, StepLost,
         StepVerified, StepUnverified, FinalizePackage, Finalize, Decide, storeVars,
         packageAccount
<1>2. Plan(c)' = Plan(c) /\ (CardOK(c) => CardOK(c)')
  BY <1>1, SameDraft DEF CardOK
<1>3. \A n : Whole(c, n) <=> /\ hits[c] = [i \in 1 .. n |-> i] /\ undos[c] = <<>>
                            /\ \A a \in adrift : a[1] # c
  BY DEF Whole
<1>4. \A n : Whole(c, n)' <=> /\ hits'[c] = [i \in 1 .. n |-> i] /\ undos'[c] = <<>>
                             /\ \A a \in adrift' : a[1] # c
  BY DEF Whole
<1>5. CASE ClaimPackage(c)
  <2>1. pc[c] = "idle" /\ status[c] = "confirmed" /\ draft[c] \in Packages /\ Whole(c, 0)
    BY <1>5 DEF ClaimPackage, Claim, MatchClaim, PackageOK, Packages
  <2>2. Len(Plan(c)) \in 2 .. 10
    BY <2>1, PlanShape DEF Plan
  <2>3. /\ pc'[c] = "gates" /\ at'[c] = 1 /\ status'[c] = "executing"
        /\ call'[c] = "none" /\ request'[c] = NoRequest
    BY <1>5, <2>1 DEF ClaimPackage, Claim, Move, PackageOK, StoreTypeOK
  <2>4. at'[c] - 1 = 0
    BY <2>3
  <2>5. Whole(c, at[c] - 1)'
    BY <1>3, <1>4, <1>5, <2>1, <2>4 DEF ClaimPackage, packageAccount
  <2>6. at'[c] \in 0 .. Len(Plan(c)') /\ at'[c] > 0
    <3>1. Len(Plan(c)') \in 2 .. 10
      BY <1>2, <2>2
    <3>2. at'[c] = 1
      BY <2>3
    <3>3. \A n \in 2 .. 10 : 1 \in 0 .. n /\ 1 > 0
      OBVIOUS
    <3> HIDE DEF Shape
    <3> QED
      BY <3>1, <3>2, <3>3
  <2>7. CardOK(c)'
    BY <1>2, <2>1 DEF PackageOK
  <2> QED
    BY <1>1, <2>1, <2>3, <2>5, <2>6, <2>7 DEF PackageOK
<1>6. CASE SendStep(c)
  <2>1. pc[c] = "gates" /\ call[c] = "none" /\ at[c] > 0 /\ Whole(c, at[c] - 1)
    BY <1>6 DEF SendStep, PackageOK
  <2>2. Line(Step(c), Shown(c)) /\ Step(c).op \in RollbackableOps
    BY <2>1, StepOfPlan
  <2>3. Found(acct, Step(c)) /\ FreshStep(Step(c), Shown(c), Snapshot(acct, Step(c)))
    BY <1>6 DEF SendStep, FreshNow
  <2>4. /\ Request(acct, Step(c)).value = Shown(c).after
        /\ Understood(Request(acct, Step(c)))
    BY <2>2, <2>3, SnapshotIsLine, SameOutcome, RequestUnderstood DEF AccountOK
  <2>5. /\ pc'[c] = "call" /\ at'[c] = at[c] /\ status' = status
        /\ call'[c] = "flying" /\ request'[c] = Request(acct, Step(c))
        /\ hits' = hits /\ undos' = undos /\ adrift' = adrift
    BY <1>6 DEF SendStep, Issue, Move, storeVars, packageAccount, packageHistory
  <2>6. Shown(c)' = Shown(c)
    BY <1>1, <2>5 DEF Shown
  <2> QED
    BY <1>1, <1>2, <1>3, <1>4, <2>1, <2>4, <2>5, <2>6 DEF PackageOK
<1>7. CASE StepRefused(c) \/ StepFails(c) \/ StepLost(c) \/ StepUnverified(c)
  <2>1. /\ pc[c] # "idle" /\ at[c] > 0 /\ status' = status
        /\ call'[c] = "none" /\ request'[c] = NoRequest
    BY <1>7 DEF StepRefused, StepFails, StepLost, StepUnverified, NoCall, PackageOK, storeVars
  <2>2. at'[c] \in {at[c], at[c] - 1} /\ pc'[c] = IF at'[c] = 0 THEN "settle" ELSE "rebuild"
    BY <1>7 DEF StepRefused, StepFails, StepLost, StepUnverified, RollBack, Move
  <2> QED
    BY <1>1, <1>2, <2>1, <2>2 DEF PackageOK
<1>8. CASE StepReturns(c)
  <2>1. /\ pc[c] = "call" /\ call[c] = "landed" /\ status' = status
        /\ call'[c] = "none" /\ request'[c] = NoRequest /\ pc'[c] = "verify" /\ at'[c] = at[c]
        /\ hits' = hits /\ undos' = undos /\ adrift' = adrift
    BY <1>8 DEF StepReturns, NoCall, Move, storeVars, packageAccount, packageHistory
  <2> QED
    BY <1>1, <1>2, <1>3, <1>4, <2>1 DEF PackageOK
<1>9. CASE StepVerified(c)
  <2>1. /\ pc[c] = "verify" /\ status' = status /\ call' = call /\ request' = request
        /\ hits' = hits /\ undos' = undos /\ adrift' = adrift
    BY <1>9 DEF StepVerified, storeVars, packageAccount, packageHistory
  <2>2. IF at[c] = Len(Plan(c)) THEN pc'[c] = "finalize" /\ at'[c] = at[c]
                                ELSE pc'[c] = "gates" /\ at'[c] = at[c] + 1
    BY <1>9 DEF StepVerified, Proceed, Move
  <2>3. at[c] \in 1 .. Len(Plan(c)) /\ Len(Plan(c)) \in Nat
    BY <2>1, StepOfPlan DEF PackageOK
  <2> QED
    <3>1. Whole(c, at[c])
      BY <2>1 DEF PackageOK
    <3>2. CASE at[c] = Len(Plan(c))
      <4>1. Whole(c, at[c])'
        BY <1>3, <1>4, <2>1, <2>2, <3>1, <3>2
      <4> QED
        BY <1>1, <1>2, <2>1, <2>2, <2>3, <3>2, <4>1 DEF PackageOK
    <3>3. CASE at[c] # Len(Plan(c))
      <4>0. at'[c] = at[c] + 1
        BY <2>2, <3>3
      <4>1. at'[c] - 1 = at[c] /\ at'[c] \in 1 .. Len(Plan(c))
        BY <2>3, <3>3, <4>0
      <4>2. Whole(c, at[c] - 1)'
        BY <1>3, <1>4, <2>1, <3>1, <4>1
      <4> QED
        BY <1>1, <1>2, <2>1, <2>2, <2>3, <3>3, <4>1, <4>2 DEF PackageOK
    <3> QED
      BY <3>2, <3>3
<1>10. CASE FinalizePackage(c)
  <2>1. /\ pc[c] = "finalize" /\ pc'[c] = "idle" /\ at'[c] = 0
        /\ status'[c] = status[c] \/ status'[c] = "applied"
        /\ call' = call /\ request' = request
        /\ hits' = hits /\ undos' = undos /\ adrift' = adrift
    BY <1>10 DEF FinalizePackage, Finalize, Decide, Move, StoreTypeOK, storeVars, packageAccount,
                 packageHistory
  <2> QED
    BY <1>1, <1>2, <1>3, <1>4, <2>1 DEF PackageOK
<1> QED
  BY <1>5, <1>6, <1>7, <1>8, <1>9, <1>10

\* Backwards.
LEMMA BackwardStepKeeps ==
    ASSUME NEW c \in Proposals, Shape, AccountOK, PackageOK(c),
           \/ SendUndo(c) \/ UndoRefused(c) \/ UndoReturns(c) \/ UndoFails(c) \/ UndoLost(c)
           \/ UndoVerified(c) \/ UndoUnverified(c) \/ SettlePackage(c)
    PROVE  PackageOK(c)'
<1> USE DEF Shape
<1>1. draft' = draft /\ card' = card
  BY DEF SendUndo, UndoRefused, UndoReturns, UndoFails, UndoLost, UndoVerified, UndoUnverified,
         SettlePackage, RecordFailure, MarkNeedsReview, Decide, storeVars, packageAccount
<1>2. Plan(c)' = Plan(c) /\ (CardOK(c) => CardOK(c)')
  BY <1>1, SameDraft DEF CardOK
<1>3. CASE SendUndo(c)
  <2>1. pc[c] = "rebuild" /\ call[c] = "none" /\ at[c] > 0
    BY <1>3 DEF SendUndo, PackageOK
  <2>2. Line(Step(c), Shown(c))
    BY <2>1, StepOfPlan
  <2>3. PICK u \in ReverseSpec(Step(c), Shown(c)) :
          Found(acct, u) /\ Issue(c, Request(acct, u))
    BY <1>3 DEF SendUndo
  <2>4. u.op \in RollbackableOps /\ \A k : Target(k, u) = Shown(c).before
    BY <2>2, UndoAsksForBefore
  <2>5. Understood(Request(acct, u)) /\ Request(acct, u).value = Shown(c).before
    BY <2>3, <2>4, RequestUnderstood DEF Request
  <2>6. /\ pc'[c] = "undo" /\ at'[c] = at[c] /\ status' = status
        /\ call'[c] = "flying" /\ request'[c] = Request(acct, u)
    BY <1>3, <2>3 DEF SendUndo, Issue, Move, storeVars
  <2>7. Shown(c)' = Shown(c)
    BY <1>1, <2>6 DEF Shown
  <2> QED
    BY <1>1, <1>2, <2>1, <2>5, <2>6, <2>7 DEF PackageOK
<1>4. CASE UndoRefused(c) \/ UndoFails(c) \/ UndoLost(c) \/ UndoVerified(c) \/ UndoUnverified(c)
  <2>1. /\ pc[c] \in {"rebuild", "undo", "check"} /\ at[c] > 0 /\ status' = status
        /\ call'[c] = "none" /\ request'[c] = NoRequest
    BY <1>4 DEF UndoRefused, UndoFails, UndoLost, UndoVerified, UndoUnverified, NoCall,
                PackageOK, storeVars
  <2>2. at'[c] = at[c] - 1 /\ pc'[c] = IF at[c] = 1 THEN "settle" ELSE "rebuild"
    BY <1>4 DEF UndoRefused, UndoFails, UndoLost, UndoVerified, UndoUnverified, Onward, Move
  <2> QED
    BY <1>1, <1>2, <2>1, <2>2 DEF PackageOK
<1>5. CASE UndoReturns(c)
  <2>1. /\ pc[c] = "undo" /\ call[c] = "landed" /\ status' = status
        /\ call'[c] = "none" /\ request'[c] = NoRequest /\ pc'[c] = "check" /\ at'[c] = at[c]
    BY <1>5 DEF UndoReturns, NoCall, Move, storeVars
  <2> QED
    BY <1>1, <1>2, <2>1 DEF PackageOK
<1>6. CASE SettlePackage(c)
  <2>1. /\ pc[c] = "settle" /\ pc'[c] = "idle" /\ at'[c] = 0
        /\ status'[c] \in {status[c], "failed", "needs_review"}
        /\ call' = call /\ request' = request
    BY <1>6 DEF SettlePackage, RecordFailure, MarkNeedsReview, Decide, Move, StoreTypeOK,
                storeVars
  <2> QED
    BY <1>1, <1>2, <2>1 DEF PackageOK
<1> QED
  BY <1>3, <1>4, <1>5, <1>6

\* The server, and the end of the process.
LEMMA ServerStepKeeps ==
    ASSUME NEW c \in Proposals, Shape, AccountOK, PackageOK(c),
           \/ ServerApplies(c) \/ ServerRefuses(c) \/ LaunchBreaksOff(c) \/ ExecutorCrashes(c)
    PROVE  PackageOK(c)'
<1> USE DEF Shape
<1>1. draft' = draft /\ card' = card /\ status' = status
  BY DEF ServerApplies, ServerRefuses, LaunchBreaksOff, ExecutorCrashes, storeVars, packageAccount
<1>2. Plan(c)' = Plan(c) /\ (CardOK(c) => CardOK(c)')
  BY <1>1, SameDraft DEF CardOK
<1>3. \A n : Whole(c, n) <=> /\ hits[c] = [i \in 1 .. n |-> i] /\ undos[c] = <<>>
                            /\ \A a \in adrift : a[1] # c
  BY DEF Whole
<1>4. \A n : Whole(c, n)' <=> /\ hits'[c] = [i \in 1 .. n |-> i] /\ undos'[c] = <<>>
                             /\ \A a \in adrift' : a[1] # c
  BY DEF Whole
<1>5. CASE ServerApplies(c)
  <2>1. /\ call[c] = "flying" /\ call'[c] = "landed" /\ request' = request /\ adrift' = adrift
        /\ pc' = pc /\ at' = at
        /\ pc[c] \in {"call", "undo"} /\ at[c] > 0
    BY <1>5 DEF ServerApplies, PackageOK
  <2>2. pc[c] = "call" => Whole(c, at[c])'
    <3>1. SUFFICES ASSUME pc[c] = "call" PROVE Whole(c, at[c])'
      OBVIOUS
    <3>2. Whole(c, at[c] - 1)
      BY <2>1, <3>1 DEF PackageOK
    <3>3. hits'[c] = Append(hits[c], at[c]) /\ undos'[c] = undos[c]
      BY <1>5, <3>1 DEF ServerApplies, Count
    <3>4. Append([i \in 1 .. at[c] - 1 |-> i], at[c]) = [i \in 1 .. at[c] |-> i]
      BY <2>1, AppendNext
    <3> QED
      BY <1>3, <1>4, <2>1, <3>2, <3>3, <3>4
  <2> QED
    BY <1>1, <1>2, <2>1, <2>2 DEF PackageOK
<1>6. CASE ServerRefuses(c) \/ LaunchBreaksOff(c)
  <2>1. /\ call[c] = "flying" /\ call'[c] = "refused" /\ request' = request /\ adrift' = adrift
        /\ pc' = pc /\ at' = at /\ hits' = hits /\ undos' = undos
    BY <1>6 DEF ServerRefuses, LaunchBreaksOff, packageAccount, packageHistory
  <2> QED
    BY <1>1, <1>2, <1>3, <1>4, <2>1 DEF PackageOK
<1>7. CASE ExecutorCrashes(c)
  <2>1. /\ pc[c] # "idle" /\ pc'[c] = "idle" /\ at'[c] = 0
        /\ call'[c] = "none" /\ request'[c] = NoRequest
    BY <1>7 DEF ExecutorCrashes, NoCall, Move
  <2> QED
    BY <1>1, <1>2, <2>1 DEF PackageOK
<1> QED
  BY <1>5, <1>6, <1>7

\* The other proposals notice nothing of it, and neither does a creation of c.
LEMMA CompositeStepElsewhere ==
    ASSUME NEW c \in Proposals, Shape, PackageOK(c), CompositeStep(c), UNCHANGED creationVars
    PROVE  /\ \A x \in Proposals \ {c} : RowDrift(x) /\ SamePackage(x)
           /\ \A x \in Proposals : SameCreation(x)
           /\ draft'[c] = draft[c]
           /\ status'[c] # status[c] => Kind(c) \notin CreateOps
<1> USE DEF Shape
<1>1. \A x \in Proposals : SameCreation(x)
  BY DEF SameCreation, creationVars
<1>2. draft' = draft /\ \A x \in Proposals \ {c} : status'[x] = status[x]
  BY DEF CompositeStep, ClaimPackage, Claim, SendStep, StepRefused, StepReturns, StepFails,
         StepLost, StepVerified, StepUnverified, FinalizePackage, Finalize, SendUndo, UndoRefused,
         UndoReturns, UndoFails, UndoLost, UndoVerified, UndoUnverified, SettlePackage,
         RecordFailure, MarkNeedsReview, ServerApplies, ServerRefuses, LaunchBreaksOff,
         ExecutorCrashes, Decide, storeVars, StoreTypeOK
<1>3. ASSUME NEW x \in Proposals \ {c}
      PROVE  /\ pc'[x] = pc[x] /\ at'[x] = at[x] /\ request'[x] = request[x]
             /\ call'[x] = call[x] /\ card'[x] = card[x]
  BY DEF CompositeStep, ClaimPackage, SendStep, StepRefused, StepReturns, StepFails, StepLost,
         StepVerified, StepUnverified, FinalizePackage, SendUndo, UndoRefused, UndoReturns,
         UndoFails, UndoLost, UndoVerified, UndoUnverified, SettlePackage, ServerApplies,
         ServerRefuses, LaunchBreaksOff, ExecutorCrashes, Move, NoCall, Issue, RollBack, Onward,
         Proceed, packageAccount, packageHistory
<1>4. ASSUME NEW x \in Proposals \ {c}
      PROVE  hits'[x] = hits[x] /\ undos'[x] = undos[x]
  BY DEF CompositeStep, ClaimPackage, SendStep, StepRefused, StepReturns, StepFails, StepLost,
         StepVerified, StepUnverified, FinalizePackage, SendUndo, UndoRefused, UndoReturns,
         UndoFails, UndoLost, UndoVerified, UndoUnverified, SettlePackage, ServerApplies,
         ServerRefuses, LaunchBreaksOff, ExecutorCrashes, Count, packageHistory
<1>5. adrift' = adrift \/ adrift' = adrift \cup LeftBehind(c)
  BY DEF CompositeStep, ClaimPackage, SendStep, StepRefused, StepReturns, StepFails, StepLost,
         StepVerified, StepUnverified, FinalizePackage, SendUndo, UndoRefused, UndoReturns,
         UndoFails, UndoLost, UndoVerified, UndoUnverified, SettlePackage, ServerApplies,
         ServerRefuses, LaunchBreaksOff, ExecutorCrashes, packageAccount
<1>6. \A a \in LeftBehind(c) : a[1] = c
  BY DEF LeftBehind
<1>7. \A x \in Proposals \ {c} : RowDrift(x) /\ SamePackage(x)
  BY <1>2, <1>3, <1>4, <1>5, <1>6 DEF RowDrift, SamePackage
<1>8. status'[c] # status[c] => Kind(c) \notin CreateOps
  <2>1. status' = status \/ ClaimPackage(c) \/ pc[c] # "idle"
    BY DEF CompositeStep, SendStep, StepRefused, StepReturns, StepFails, StepLost,
           StepVerified, StepUnverified, FinalizePackage, SendUndo, UndoRefused, UndoReturns,
           UndoFails, UndoLost, UndoVerified, UndoUnverified, SettlePackage, ServerApplies,
           ServerRefuses, LaunchBreaksOff, ExecutorCrashes, storeVars
  <2>2. ClaimPackage(c) => Kind(c) = "composite"
    BY DEF ClaimPackage, Claim, MatchClaim, Kind
  <2>3. pc[c] # "idle" => Kind(c) = "composite"
    BY DEF PackageOK, Packages, Kind
  <2> QED
    BY <2>1, <2>2, <2>3 DEF CreateOps
<1> QED
  BY <1>1, <1>2, <1>7, <1>8

\* What is sent, adrift or done to the account is understood by it.
LEMMA CompositeKeepsAccount ==
    ASSUME NEW c \in Proposals, Shape, AccountOK, PackageOK(c), CompositeStep(c)
    PROVE  AccountOK'
<1>1. WellFormed(acct)'
  <2>1. \/ acct' = acct
        \/ call[c] = "flying" /\ acct' \in {Applied(acct, request[c])} \cup Launching(acct, request[c])
    BY DEF CompositeStep, ClaimPackage, SendStep, StepRefused, StepReturns, StepFails, StepLost,
           StepVerified, StepUnverified, FinalizePackage, SendUndo, UndoRefused, UndoReturns,
           UndoFails, UndoLost, UndoVerified, UndoUnverified, SettlePackage, ServerApplies,
           ServerRefuses, LaunchBreaksOff, ExecutorCrashes, packageAccount
  <2>2. call[c] = "flying" => Understood(request[c])
    BY DEF PackageOK
  <2> QED
    BY <2>1, <2>2, AccountKeepsForm DEF AccountOK, WellFormed
<1>2. adrift' = adrift \/ adrift' = adrift \cup LeftBehind(c)
  BY DEF CompositeStep, ClaimPackage, SendStep, StepRefused, StepReturns, StepFails, StepLost,
         StepVerified, StepUnverified, FinalizePackage, SendUndo, UndoRefused, UndoReturns,
         UndoFails, UndoLost, UndoVerified, UndoUnverified, SettlePackage, ServerApplies,
         ServerRefuses, LaunchBreaksOff, ExecutorCrashes, packageAccount
<1>3. \A a \in LeftBehind(c) : a[1] \in Proposals /\ Understood(a[2])
  BY DEF LeftBehind, PackageOK
<1> QED
  BY <1>1, <1>2, <1>3 DEF AccountOK

LEMMA CompositeStepKeeps ==
    ASSUME NEW c \in Proposals, Shape, AccountOK, PackageOK(c), CompositeStep(c)
    PROVE  PackageOK(c)'
  BY ForwardStepKeeps, BackwardStepKeeps, ServerStepKeeps DEF CompositeStep

-----------------------------------------------------------------------------
(* Everybody else.                                                          *)

LEMMA NewCardIsDrawn ==
    ASSUME NEW c \in Proposals, NEW d \in Packages, Shape, AccountOK, PackageOK(c),
           ProposePackage(c, d)
    PROVE  PackageOK(c)'
<1> DEFINE plan == Ordered(Normalised(d.steps))
           shown == [i \in DOMAIN plan |-> Snapshot(acct, plan[i])]
<1>1. /\ d \in Drafts /\ status[c] = "absent" /\ status'[c] = "pending" /\ draft'[c] = d
      /\ card'[c] = shown /\ AcceptablePackage(d.steps, plan, shown)
      /\ UNCHANGED <<executorVars, packageAccount, packageHistory>>
  BY DEF ProposePackage, SaveProposal, MatchSave, Shape, StoreTypeOK, Packages
<1>2. Plan(c)' = plan
  BY <1>1 DEF Plan
<1>3. ASSUME NEW i \in DOMAIN plan PROVE Line(plan[i], shown[i])
  <2> HIDE DEF plan
  <2>1. shown[i] = Snapshot(acct, plan[i])
    OBVIOUS
  <2>2. plan[i].op \in RollbackableOps /\ ReverseSpec(plan[i], shown[i]) # {}
    BY <1>1 DEF AcceptablePackage
  <2>3. shown[i].ok
    BY <2>2 DEF ReverseSpec
  <2>4. Found(acct, plan[i])
    BY <2>1, <2>3 DEF Snapshot, Unreadable
  <2> QED
    BY <2>1, <2>2, <2>4, SnapshotIsLine DEF AccountOK
<1>4. CardOK(c)'
  BY <1>1, <1>2, <1>3 DEF CardOK
<1>5. Whole(c, 0) /\ pc[c] = "idle"
  BY <1>1 DEF PackageOK
<1>6. Whole(c, 0)'
  BY <1>1, <1>5 DEF Whole, packageAccount, packageHistory
<1> QED
  BY <1>1, <1>4, <1>5, <1>6 DEF PackageOK, executorVars

LEMMA NewRowKeepsCreation ==
    ASSUME NEW c \in Proposals, NEW d \in Drafts, Shape, CreationOK(c), SameCreation(c),
           SaveProposal(c, d)
    PROVE  CreationOK(c)'
<1>1. status[c] = "absent" /\ status'[c] = "pending"
  BY DEF SaveProposal, MatchSave, Shape, StoreTypeOK
<1>2. worker[c] = "idle" /\ chain[c] = "none"
  BY <1>1 DEF CreationOK, Claimed
<1> QED
  BY <1>1, <1>2 DEF CreationOK, SameCreation, Entities

LEMMA NewCreationKeepsPackage ==
    ASSUME NEW c \in Proposals, NEW d \in Drafts, Shape, PackageOK(c), SamePackage(c),
           ProposeCreation(c, d)
    PROVE  PackageOK(c)'
<1>1. /\ status[c] = "absent" /\ status'[c] = "pending" /\ draft'[c] = d
      /\ d \notin Packages
  BY DEF ProposeCreation, SaveProposal, MatchSave, Shape, StoreTypeOK, Packages, CreateOps
<1>2. pc[c] = "idle" /\ Whole(c, 0)
  BY <1>1 DEF PackageOK
<1>3. Whole(c, 0)'
  BY <1>2, SameWhole
<1> QED
  BY <1>1, <1>2, <1>3 DEF PackageOK, SamePackage

LEMMA RepliesDrift ==
    ASSUME NEW c \in Proposals, Shape,
           \/ Sweep(c)
           \/ status[c] = "pending" /\ ((\E m \in Messages : Reply(c, m)) \/ Cancel(c))
    PROVE  (\A x \in Proposals : RowDrift(x)) /\ StoreMove
<1> USE DEF Shape, StoreTypeOK
<1>1. CASE \E m \in Messages : Reply(c, m) /\ status[c] = "pending"
  BY <1>1 DEF Reply, BindCard, ConfirmByReply, Stamp, Decide, RowDrift, StoreMove, Anchors,
              Decides, MatchBind, MatchConfirmByReply
<1>2. CASE Cancel(c)
  BY <1>2 DEF Cancel, RejectByActor, MatchReject, Decide, RowDrift, StoreMove, Decides
<1>3. CASE Sweep(c)
  BY <1>3 DEF Sweep, CleanupStale, Reject, MatchReject, ReconcileExecuting, MarkNeedsReview,
              MatchNeedsReview, ReconcileConfirmed, MarkConfirmedFailed, MatchConfirmedFailed,
              Decide, RowDrift, StoreMove, Decides
<1> QED
  BY <1>1, <1>2, <1>3

\* A request nobody waits for.
LEMMA AdriftKeepsPackages ==
    ASSUME NEW a \in adrift, NEW c \in Proposals, Shape, PackageOK(c),
           AdriftLands(a) \/ AdriftVanishes(a)
    PROVE  PackageOK(c)'
<1>1. draft' = draft /\ status' = status /\ card' = card /\ UNCHANGED executorVars
  BY DEF AdriftLands, AdriftVanishes, storeVars
<1>2. Plan(c)' = Plan(c) /\ Shown(c)' = Shown(c) /\ (CardOK(c) => CardOK(c)')
  BY <1>1, SameDraft DEF CardOK, Shown, executorVars
<1>3. \A n : Whole(c, n) => Whole(c, n)'
  <2>1. adrift' = adrift \ {a}
    BY DEF AdriftLands, AdriftVanishes
  <2>2. a[1] # c => hits'[c] = hits[c] /\ undos'[c] = undos[c]
    BY DEF AdriftLands, AdriftVanishes, Count, packageHistory, Shape
  <2> QED
    BY <2>1, <2>2 DEF Whole
<1> QED
  BY <1>1, <1>2, <1>3 DEF PackageOK, executorVars

-----------------------------------------------------------------------------
(* The shape.                                                               *)

PackageShape ==
    /\ pc \in [Proposals -> {"idle"} \cup Forwards \cup Backwards]
    /\ at \in [Proposals -> Int]
    /\ clean \in [Proposals -> BOOLEAN]
    /\ call \in [Proposals -> {"none", "flying", "landed", "refused"}]
    /\ DOMAIN request = Proposals /\ DOMAIN card = Proposals
    /\ DOMAIN hits = Proposals /\ DOMAIN undos = Proposals
    /\ edits \in 0 .. MaxEdits

CreationShape ==
    /\ worker \in [Proposals -> {"idle", "gates", "waiting", "finalize"}]
    /\ chain \in [Proposals -> {"none", "finished", "failed", "dead"} \cup Running]
    /\ made \in [Proposals -> SUBSET Entities]
    /\ held \in [Proposals -> SUBSET Entities]
    /\ todo \in [Proposals -> Seq(Entities)]
    /\ tidy \in [Proposals -> BOOLEAN]

LEMMA ShapeParts ==
    /\ Shape <=> StoreTypeOK /\ PackageShape /\ CreationShape
    /\ Shape' <=> StoreTypeOK' /\ PackageShape' /\ CreationShape'
  BY DEF Shape, PackageShape, CreationShape

LEMMA CompositeShape ==
    ASSUME NEW c \in Proposals, Shape, PackageOK(c), CompositeStep(c)
    PROVE  PackageShape'
<1> USE DEF PackageShape, Shape, Forwards, Backwards
<1>1. edits' = edits /\ card' = card
  BY DEF CompositeStep, ClaimPackage, SendStep, StepRefused, StepReturns, StepFails, StepLost,
         StepVerified, StepUnverified, FinalizePackage, SendUndo, UndoRefused, UndoReturns,
         UndoFails, UndoLost, UndoVerified, UndoUnverified, SettlePackage, ServerApplies,
         ServerRefuses, LaunchBreaksOff, ExecutorCrashes, packageAccount
<1>2. /\ DOMAIN hits' = Proposals /\ DOMAIN undos' = Proposals
  BY DEF CompositeStep, ClaimPackage, SendStep, StepRefused, StepReturns, StepFails, StepLost,
         StepVerified, StepUnverified, FinalizePackage, SendUndo, UndoRefused, UndoReturns,
         UndoFails, UndoLost, UndoVerified, UndoUnverified, SettlePackage, ServerApplies,
         ServerRefuses, LaunchBreaksOff, ExecutorCrashes, packageHistory, Count
<1>3. call' \in [Proposals -> {"none", "flying", "landed", "refused"}] /\ DOMAIN request' = Proposals
  BY DEF CompositeStep, ClaimPackage, SendStep, StepRefused, StepReturns, StepFails, StepLost,
         StepVerified, StepUnverified, FinalizePackage, SendUndo, UndoRefused, UndoReturns,
         UndoFails, UndoLost, UndoVerified, UndoUnverified, SettlePackage, ServerApplies,
         ServerRefuses, LaunchBreaksOff, ExecutorCrashes, NoCall, Issue
<1>4. clean' \in [Proposals -> BOOLEAN]
  BY DEF CompositeStep, ClaimPackage, SendStep, StepRefused, StepReturns, StepFails, StepLost,
         StepVerified, StepUnverified, FinalizePackage, SendUndo, UndoRefused, UndoReturns,
         UndoFails, UndoLost, UndoVerified, UndoUnverified, SettlePackage, ServerApplies,
         ServerRefuses, LaunchBreaksOff, ExecutorCrashes, Incomplete
<1>5. /\ pc' \in [Proposals -> {"idle"} \cup Forwards \cup Backwards]
      /\ at' \in [Proposals -> Int]
  <2>1. ASSUME NEW w \in {"idle"} \cup Forwards \cup Backwards, NEW n \in Int, Move(c, w, n)
        PROVE  /\ pc' \in [Proposals -> {"idle"} \cup Forwards \cup Backwards]
               /\ at' \in [Proposals -> Int]
    BY <2>1 DEF Move
  <2>2. CASE ClaimPackage(c) \/ SendStep(c) \/ StepReturns(c) \/ FinalizePackage(c)
             \/ SendUndo(c) \/ UndoReturns(c) \/ SettlePackage(c) \/ ExecutorCrashes(c)
    BY <2>1, <2>2 DEF ClaimPackage, SendStep, StepReturns, FinalizePackage, SendUndo, UndoReturns,
                      SettlePackage, ExecutorCrashes
  <2>3. CASE StepRefused(c) \/ StepFails(c) \/ StepLost(c) \/ StepUnverified(c)
    BY <2>1, <2>3 DEF StepRefused, StepFails, StepLost, StepUnverified, RollBack
  <2>4. CASE StepVerified(c)
    BY <2>1, <2>4 DEF StepVerified, Proceed
  <2>5. CASE UndoRefused(c) \/ UndoFails(c) \/ UndoLost(c) \/ UndoVerified(c) \/ UndoUnverified(c)
    BY <2>1, <2>5 DEF UndoRefused, UndoFails, UndoLost, UndoVerified, UndoUnverified, Onward
  <2>6. CASE ServerApplies(c) \/ ServerRefuses(c) \/ LaunchBreaksOff(c)
    BY <2>6 DEF ServerApplies, ServerRefuses, LaunchBreaksOff
  <2> QED
    BY <2>2, <2>3, <2>4, <2>5, <2>6 DEF CompositeStep
<1> QED
  BY <1>1, <1>2, <1>3, <1>4, <1>5

LEMMA Updated ==
    ASSUME NEW S, NEW T, NEW f \in [S -> T], NEW x \in S, NEW v \in T
    PROVE  [f EXCEPT ![x] = v] \in [S -> T]
OBVIOUS

LEMMA CreationStepShape ==
    ASSUME NEW c \in Proposals, Shape, CreationOK(c), CreationStep(c)
    PROVE  CreationShape'
<1> USE DEF CreationShape, Shape, Running
<1>1. CASE ClaimCreation(c) \/ CreationRefused(c) \/ ChainReturns(c)
           \/ CreationFails(c) \/ FinalizeCreation(c)
  BY <1>1 DEF ClaimCreation, CreationRefused, ChainReturns, CreationFails, FinalizeCreation
<1>2. CASE StartChain(c)
  <2>1. Chain(Kind(c))[1] \in Entities
    BY <1>2, ChainMoves DEF StartChain, CreationOK
  <2> QED
    BY <1>2, <2>1 DEF StartChain
<1>3. CASE Create(c)
  <2>1. After(Kind(c), chain[c]) \in Entities \cup {"finished"}
    BY <1>3, ChainMoves DEF Create, CreationOK, Entities
  <2> QED
    BY <1>3, <2>1 DEF Create
<1>4. CASE CreateFails(c) \/ CreateUnanswered(c)
  <2>1. Kind(c) \in CreateOps /\ chain[c] \in Parts(Kind(c)) /\ held[c] = Preceding(Kind(c), chain[c])
    BY <1>4 DEF CreateFails, CreateUnanswered, CreationOK, Entities
  <2>2. Removals(Kind(c), chain[c], held[c]) \in Seq(Entities)
    BY <2>1, RemovalsTidy
  <2>3. todo' = [todo EXCEPT ![c] = Removals(Kind(c), chain[c], held[c])]
    BY <1>4 DEF CreateFails, CreateUnanswered, Raise
  <2>4. todo' \in [Proposals -> Seq(Entities)]
    BY <2>2, <2>3
  <2>5. chain' = [chain EXCEPT ![c] = "cleanup"] /\ worker' = worker /\ held' = held
    BY <1>4 DEF CreateFails, CreateUnanswered, Raise
  <2>6. made' = made \/ (chain[c] \in Entities /\ made' = [made EXCEPT ![c] = @ \cup {chain[c]}])
    BY <1>4 DEF CreateFails, CreateUnanswered
  <2>7. tidy' = tidy \/ tidy' = [tidy EXCEPT ![c] = FALSE]
    BY <1>4 DEF CreateFails, CreateUnanswered
  <2>8. made' \in [Proposals -> SUBSET Entities]
    <3>1. CASE made' = made
      BY <3>1
    <3>2. CASE chain[c] \in Entities /\ made' = [made EXCEPT ![c] = @ \cup {chain[c]}]
      <4>1. made \in [Proposals -> SUBSET Entities] /\ made[c] \cup {chain[c]} \in SUBSET Entities
        BY <3>2
      <4> QED
        BY <3>2, <4>1, Updated
    <3> QED
      BY <2>6, <3>1, <3>2
  <2>9. tidy' \in [Proposals -> BOOLEAN]
    BY <2>7
  <2>10. chain' \in [Proposals -> {"none", "finished", "failed", "dead"} \cup Running]
    BY <2>5
  <2> QED
    BY <2>4, <2>5, <2>8, <2>9, <2>10
<1>5. CASE Remove(c) \/ RemoveFails(c)
  <2>1. Tail(todo[c]) \in Seq(Entities)
    BY <1>5 DEF Remove, RemoveFails
  <2>2. todo' = [todo EXCEPT ![c] = Tail(todo[c])]
    BY <1>5 DEF Remove, RemoveFails
  <2>3. todo' \in [Proposals -> Seq(Entities)]
    BY <2>1, <2>2
  <2>4. chain' = chain /\ worker' = worker /\ held' = held
    BY <1>5 DEF Remove, RemoveFails
  <2>5. made' = made \/ made' = [made EXCEPT ![c] = @ \ Within(Head(todo[c]))]
    BY <1>5 DEF Remove, RemoveFails
  <2>6. tidy' = tidy \/ tidy' = [tidy EXCEPT ![c] = FALSE]
    BY <1>5 DEF Remove, RemoveFails
  <2>7. made' \in [Proposals -> SUBSET Entities]
    <3>1. CASE made' = made
      BY <3>1
    <3>2. CASE made' = [made EXCEPT ![c] = @ \ Within(Head(todo[c]))]
      <4>1. made \in [Proposals -> SUBSET Entities]
            /\ made[c] \ Within(Head(todo[c])) \in SUBSET Entities
        OBVIOUS
      <4> QED
        BY <3>2, <4>1, Updated
    <3> QED
      BY <2>5, <3>1, <3>2
  <2>8. tidy' \in [Proposals -> BOOLEAN]
    BY <2>6
  <2> QED
    BY <2>3, <2>4, <2>7, <2>8
<1>6. CASE ChainRaises(c)
  BY <1>6 DEF ChainRaises
<1>7. CASE CreationCrashes(c)
  BY <1>7 DEF CreationCrashes
<1> QED
  BY <1>1, <1>2, <1>3, <1>4, <1>5, <1>6, <1>7 DEF CreationStep

\* What the executors do to the table.
LEMMA ExecutorsMove ==
    ASSUME NEW c \in Proposals, Shape, PackageOK(c), CreationOK(c),
           \/ CreationStep(c)
           \/ CompositeStep(c)
    PROVE  StoreMove \/ UNCHANGED storeVars
<1>1. CASE CreationStep(c)
  <2>1. ASSUME NEW op, Claim(c, op) PROVE StoreMove
    BY <2>1 DEF StoreMove, Claim, MatchClaim
  <2>2. Finalize(c) => StoreMove
    BY DEF StoreMove, Decides, Finalize, MatchFinalize
  <2> QED
    BY <1>1, <2>1, <2>2 DEF CreationStep, ClaimCreation, CreationRefused, StartChain, ChainReturns,
         CreationFails, FinalizeCreation, Create, CreateFails, CreateUnanswered, Remove,
         RemoveFails, ChainRaises, CreationCrashes
<1>2. CASE CompositeStep(c)
  <2>1. ASSUME Claim(c, "composite") PROVE StoreMove
    BY <2>1 DEF StoreMove, Claim, MatchClaim
  <2>2. Finalize(c) \/ RecordFailure(c) \/ MarkNeedsReview(c) => StoreMove
    BY DEF StoreMove, Decides, Finalize, MatchFinalize, RecordFailure, MatchRecordFailure,
           MarkNeedsReview, MatchNeedsReview
  <2> QED
    BY <1>2, <2>1, <2>2 DEF CompositeStep, ClaimPackage, SendStep, StepRefused, StepReturns,
         StepFails, StepLost, StepVerified, StepUnverified, FinalizePackage, SendUndo,
         UndoRefused, UndoReturns, UndoFails, UndoLost, UndoVerified, UndoUnverified,
         SettlePackage, ServerApplies, ServerRefuses, LaunchBreaksOff, ExecutorCrashes
<1> QED
  BY <1>1, <1>2

-----------------------------------------------------------------------------
(* The invariant holds.                                                     *)

LEMMA InvInit == Init => IInv
<1> SUFFICES ASSUME Init PROVE IInv
  OBVIOUS
<1> USE DEF Init, StoreInit, CompositeInit, CreationInit
<1>1. StoreTypeOK
  BY StoreTypeInit
<1>2. PackageShape
  BY PackageAssumption DEF PackageShape
<1>3. CreationShape
  BY DEF CreationShape
<1>4. AccountOK
  BY PackageAssumption DEF AccountOK
<1>5. ASSUME NEW c \in Proposals PROVE PackageOK(c)
  <2>1. Whole(c, 0)
    <3>1. <<>> = [i \in 1 .. 0 |-> i]
      OBVIOUS
    <3> QED
      BY <3>1 DEF Whole
  <2> QED
    BY <2>1 DEF PackageOK
<1>6. ASSUME NEW c \in Proposals PROVE CreationOK(c)
  BY DEF CreationOK, Claimed, Entities
<1> QED
  BY <1>1, <1>2, <1>3, <1>4, <1>5, <1>6, ShapeParts DEF IInv

LEMMA InvNext ==
    ASSUME IInv, [Next]_vars
    PROVE  IInv'
<1> USE DEF IInv
<1>1. CASE UNCHANGED vars
  <2>1. ASSUME NEW c \in Proposals PROVE RowDrift(c) /\ SamePackage(c) /\ SameCreation(c)
    BY <1>1 DEF vars, storeVars, compositeVars, executorVars, packageAccount, packageHistory,
                creationVars, RowDrift, SamePackage, SameCreation
  <2>2. Shape' /\ AccountOK'
    BY <1>1 DEF Shape, StoreTypeOK, AccountOK, vars, storeVars, compositeVars, executorVars,
                packageAccount, packageHistory, creationVars
  <2> QED
    BY <2>1, <2>2, DriftKeepsPackage, DriftKeepsCreation
<1>2. ASSUME NEW c \in Proposals, CompositeStep(c), UNCHANGED creationVars PROVE IInv'
  <2>1. \A x \in Proposals \ {c} : PackageOK(x)' /\ CreationOK(x)'
    BY <1>2, CompositeStepElsewhere, DriftKeepsPackage, DriftKeepsCreation
  <2>2. PackageOK(c)' /\ AccountOK'
    BY <1>2, CompositeStepKeeps, CompositeKeepsAccount
  <2>3. CreationOK(c)'
    <3>1. CASE status'[c] = status[c]
      BY <1>2, <3>1, CompositeStepElsewhere, DriftKeepsCreation DEF RowDrift
    <3>2. CASE status'[c] # status[c]
      BY <1>2, <3>2, CompositeStepElsewhere, PackageRowKeepsCreation
    <3> QED
      BY <3>1, <3>2
  <2>4. StoreTypeOK'
    BY <1>2, ExecutorsMove, StoreTypeMove DEF Shape, StoreTypeOK, storeVars
  <2>5. CreationShape'
    BY <1>2, ShapeParts DEF CreationShape, creationVars
  <2> QED
    BY <1>2, <2>1, <2>2, <2>3, <2>4, <2>5, CompositeShape, ShapeParts
<1>3. ASSUME NEW c \in Proposals, CreationStep(c), UNCHANGED compositeVars PROVE IInv'
  <2>1. \A x \in Proposals \ {c} : PackageOK(x)' /\ CreationOK(x)'
    BY <1>3, CreationStepElsewhere, DriftKeepsPackage, DriftKeepsCreation
  <2>2. CreationOK(c)'
    BY <1>3, CreationStepKeeps
  <2>3. PackageOK(c)'
    <3>1. CASE status'[c] = status[c]
      BY <1>3, <3>1, CreationStepElsewhere, DriftKeepsPackage DEF RowDrift
    <3>2. CASE status'[c] # status[c]
      BY <1>3, <3>2, CreationStepElsewhere, CreationRowKeepsPackage
    <3> QED
      BY <3>1, <3>2
  <2>4. StoreTypeOK'
    BY <1>3, ExecutorsMove, StoreTypeMove DEF Shape, StoreTypeOK, storeVars
  <2>5. PackageShape' /\ AccountOK'
    BY <1>3, ShapeParts DEF PackageShape, AccountOK, compositeVars, executorVars, packageAccount,
                            packageHistory
  <2> QED
    BY <1>3, <2>1, <2>2, <2>3, <2>4, <2>5, CreationStepShape, ShapeParts
<1>4. ASSUME NEW c \in Proposals, NEW d \in Packages, ProposePackage(c, d), UNCHANGED creationVars
      PROVE  IInv'
  <2>1. d \in Drafts /\ SaveProposal(c, d)
    BY <1>4 DEF ProposePackage, Packages
  <2>2. \A x \in Proposals : SameCreation(x)
    BY <1>4 DEF SameCreation, creationVars
  <2>3. \A x \in Proposals \ {c} : RowDrift(x) /\ SamePackage(x)
    BY <1>4, <2>1 DEF RowDrift, SamePackage, ProposePackage, SaveProposal, executorVars,
                      packageAccount, packageHistory, Shape, StoreTypeOK
  <2>4. \A x \in Proposals \ {c} : PackageOK(x)' /\ CreationOK(x)'
    BY <2>2, <2>3, DriftKeepsPackage, DriftKeepsCreation
  <2>5. PackageOK(c)' /\ CreationOK(c)'
    BY <1>4, <2>1, <2>2, NewCardIsDrawn, NewRowKeepsCreation
  <2>6. StoreTypeOK'
    BY <2>1, StoreTypeMove DEF Shape, StoreMove
  <2>7. PackageShape' /\ CreationShape' /\ AccountOK'
    BY <1>4, ShapeParts DEF ProposePackage, PackageShape, CreationShape, AccountOK, creationVars,
                            executorVars, packageAccount, packageHistory
  <2> QED
    BY <2>4, <2>5, <2>6, <2>7, ShapeParts
<1>5. ASSUME NEW a \in adrift, AdriftLands(a) \/ AdriftVanishes(a), UNCHANGED creationVars
      PROVE  IInv'
  <2>1. \A x \in Proposals : RowDrift(x) /\ SameCreation(x)
    BY <1>5 DEF RowDrift, SameCreation, AdriftLands, AdriftVanishes, creationVars, storeVars
  <2>2. \A x \in Proposals : PackageOK(x)' /\ CreationOK(x)'
    BY <1>5, <2>1, AdriftKeepsPackages, DriftKeepsCreation
  <2>3. Understood(a[2]) /\ WellFormed(acct)
    BY <1>5 DEF AccountOK
  <2>4. acct' \in {acct, Applied(acct, a[2])} /\ adrift' \subseteq adrift
    BY <1>5 DEF AdriftLands, AdriftVanishes
  <2>5. AccountOK'
    BY <2>3, <2>4, AccountKeepsForm DEF AccountOK, WellFormed
  <2>6. StoreTypeOK' /\ CreationShape'
    BY <1>5, ShapeParts DEF StoreTypeOK, CreationShape, AdriftLands, AdriftVanishes, storeVars,
                            creationVars
  <2>7. PackageShape'
    BY <1>5, ShapeParts DEF PackageShape, AdriftLands, AdriftVanishes, executorVars,
                            packageHistory, Count
  <2> QED
    BY <2>2, <2>5, <2>6, <2>7, ShapeParts
<1>6. ASSUME NEW r \in ForeignEdits, ForeignEdit(r), UNCHANGED creationVars PROVE IInv'
  <2>1. \A x \in Proposals : RowDrift(x) /\ SameCreation(x) /\ SamePackage(x)
    BY <1>6 DEF RowDrift, SameCreation, SamePackage, ForeignEdit, creationVars, storeVars,
                executorVars
  <2>2. Understood(r) /\ acct' = Applied(acct, r) /\ adrift' = adrift
    BY <1>6, PackageAssumption DEF ForeignEdit
  <2>3. AccountOK'
    BY <2>2, AccountKeepsForm DEF AccountOK, WellFormed
  <2>4. StoreTypeOK' /\ CreationShape'
    BY <1>6, ShapeParts DEF StoreTypeOK, CreationShape, ForeignEdit, storeVars, creationVars
  <2>5. PackageShape'
    BY <1>6, ShapeParts, PackageAssumption DEF PackageShape, ForeignEdit, executorVars
  <2> QED
    BY <2>1, <2>3, <2>4, <2>5, ShapeParts, DriftKeepsPackage, DriftKeepsCreation
<1>7. ASSUME NEW c \in Proposals, Table(c) PROVE IInv'
  <2>1. \A x \in Proposals : SamePackage(x) /\ SameCreation(x)
    BY <1>7 DEF Table, SamePackage, SameCreation, compositeVars, executorVars, packageAccount,
                packageHistory, creationVars
  <2>2. PackageShape' /\ CreationShape' /\ AccountOK'
    BY <1>7, ShapeParts DEF Table, PackageShape, CreationShape, AccountOK, compositeVars,
                            executorVars, packageAccount, packageHistory, creationVars
  <2>3. CASE \E d \in Drafts : ProposeCreation(c, d)
    <3>1. PICK d \in Drafts : ProposeCreation(c, d)
      BY <2>3
    <3>2. SaveProposal(c, d)
      BY <3>1 DEF ProposeCreation
    <3>3. \A x \in Proposals \ {c} : RowDrift(x)
      BY <3>2 DEF RowDrift, SaveProposal, Shape, StoreTypeOK
    <3>4. PackageOK(c)' /\ CreationOK(c)'
      BY <2>1, <3>1, <3>2, NewCreationKeepsPackage, NewRowKeepsCreation
    <3>5. StoreTypeOK'
      BY <3>2, StoreTypeMove DEF Shape, StoreMove
    <3> QED
      BY <2>1, <2>2, <3>3, <3>4, <3>5, DriftKeepsPackage, DriftKeepsCreation, ShapeParts
  <2>4. CASE \/ Sweep(c)
             \/ status[c] = "pending" /\ ((\E m \in Messages : Reply(c, m)) \/ Cancel(c))
    <3>1. (\A x \in Proposals : RowDrift(x)) /\ StoreMove
      BY <2>4, RepliesDrift
    <3>2. StoreTypeOK'
      BY <3>1, StoreTypeMove DEF Shape
    <3> QED
      BY <2>1, <2>2, <3>1, <3>2, DriftKeepsPackage, DriftKeepsCreation, ShapeParts
  <2> QED
    BY <1>7, <2>3, <2>4 DEF Table
<1>8. CASE Advance /\ UNCHANGED <<compositeVars, creationVars>>
  <2>1. \A x \in Proposals : RowDrift(x) /\ SamePackage(x) /\ SameCreation(x)
    BY <1>8 DEF Advance, RowDrift, SamePackage, SameCreation, compositeVars, executorVars,
                packageAccount, packageHistory, creationVars
  <2>2. PackageShape' /\ CreationShape' /\ AccountOK'
    BY <1>8, ShapeParts DEF PackageShape, CreationShape, AccountOK, compositeVars, executorVars,
                            packageAccount, packageHistory, creationVars
  <2>3. StoreTypeOK'
    BY <1>8, StoreTypeMove DEF Shape, StoreMove
  <2> QED
    BY <2>1, <2>2, <2>3, DriftKeepsPackage, DriftKeepsCreation, ShapeParts
<1> QED
  BY <1>1, <1>2, <1>3, <1>4, <1>5, <1>6, <1>7, <1>8 DEF Next, CompositeNext

-----------------------------------------------------------------------------
(* The theorems.                                                            *)

\* The invariant: what each place of an executor says about the work done.
THEOREM InvHolds == Spec => []IInv
  BY InvInit, InvNext, PTL DEF Spec

LEMMA InvImpliesType == IInv => TypeOK
<1> SUFFICES ASSUME IInv PROVE TypeOK
  OBVIOUS
<1> USE DEF IInv
<1>1. ASSUME NEW c \in Proposals, pc[c] # "idle"
      PROVE  /\ draft[c] \in Packages /\ at[c] \in 0 .. Len(draft[c].steps) /\ at[c] \in 0 .. 10
             /\ pc[c] \notin {"settle"} => at[c] > 0
  <2>1. draft[c] \in Packages /\ at[c] \in 0 .. Len(Plan(c)) /\ (pc[c] # "settle" => at[c] > 0)
    BY <1>1 DEF PackageOK
  <2>2. Len(Plan(c)) = Len(draft[c].steps) /\ Len(Plan(c)) \in 2 .. 10
    BY <2>1, PlanShape DEF Plan
  <2>3. at[c] \in 0 .. Len(Plan(c))
    BY <2>1
  <2>4. ASSUME NEW n \in 2 .. 10, NEW i \in 0 .. n PROVE i \in 0 .. 10
    BY <2>4
  <2>5. at[c] \in 0 .. 10
    <3> HIDE DEF IInv
    <3> QED
      BY <2>2, <2>3, <2>4
  <2>6. at[c] \in 0 .. Len(draft[c].steps)
    BY <2>2, <2>3
  <2>7. pc[c] # "settle" => at[c] > 0
    BY <2>1
  <2> QED
    BY <2>1, <2>5, <2>6, <2>7
<1>2. at \in [Proposals -> 0 .. 10]
  BY <1>1 DEF Shape, PackageOK
<1>3. CompositeTypeOK
  BY <1>1, <1>2 DEF CompositeTypeOK, Shape, PackageOK
<1>4. ASSUME NEW c \in Proposals
      PROVE  /\ todo[c] # <<>> => chain[c] = "cleanup"
             /\ chain[c] # "none" => draft[c].op \in CreateOps
             /\ chain[c] = "finished" => held[c] \subseteq made[c]
  BY DEF CreationOK, Kind
<1>5. CreationTypeOK
  BY <1>4 DEF CreationTypeOK, Shape
<1> QED
  BY <1>3, <1>5 DEF TypeOK

\* Every variable has its type: an executor never stands at a step its package
\* does not have, and its thread tidies up only after an error.
THEOREM ExecutorsTypeCorrect == Spec => []TypeOK
  BY InvHolds, InvImpliesType, PTL

\* "applied" is written only of the whole: finalize follows the last step of a
\* package, each having landed exactly once, or the last call of a creation.
THEOREM AppliedHolds == Spec => []AppliedIsWhole
<1>1. IInv => AppliedIsWhole
  <2> SUFFICES ASSUME IInv PROVE AppliedIsWhole
    OBVIOUS
  <2>1. ASSUME NEW c \in Proposals, status[c] = "applied", draft[c] \in Packages
        PROVE  hits[c] = [i \in DOMAIN Plan(c) |-> i] /\ undos[c] = <<>>
    <3>1. Whole(c, Len(Plan(c)))
      BY <2>1 DEF IInv, PackageOK
    <3>2. DOMAIN Plan(c) = 1 .. Len(Plan(c))
      BY <2>1, PlanShape DEF Plan
    <3> QED
      BY <3>1, <3>2 DEF Whole
  <2>2. ASSUME NEW c \in Proposals, status[c] = "applied", Kind(c) \in CreateOps
        PROVE  made[c] = Parts(Kind(c))
    <3>1. chain[c] = "finished" /\ made[c] = Preceding(Kind(c), "finished")
      BY <2>2 DEF IInv, CreationOK
    <3> QED
      BY <2>2, <3>1, ChainMoves
  <2> QED
    BY <2>1, <2>2 DEF AppliedIsWhole, PackageIsWhole, AppliedIsComplete
<1> QED
  BY <1>1, InvHolds, PTL

\* A creation that was not claimed or is called failed has made nothing, and the
\* removals of ads/mutations.py after an error leave what they promise.
THEOREM NothingStays == Spec => []NothingIsLeftBehind
<1>1. IInv => NothingIsLeftBehind
  <2> SUFFICES ASSUME IInv PROVE NothingIsLeftBehind
    OBVIOUS
  <2>1. ASSUME NEW c \in Proposals,
               status[c] \in {"absent", "pending", "confirmed", "rejected", "failed"}
        PROVE  made[c] = {} /\ chain[c] \notin Running
    BY <2>1 DEF IInv, CreationOK, Claimed, Running, Entities
  <2>2. ASSUME NEW c \in Proposals, chain[c] = "failed", tidy[c]
        PROVE  Tidied(Kind(c), made[c])
    <3>1. todo[c] = <<>> /\ Tidied(Kind(c), Left(c))
      BY <2>2 DEF IInv, CreationOK
    <3>2. Gone(<<>>) = {}
      BY DEF Gone
    <3> QED
      BY <3>1, <3>2 DEF Left
  <2> QED
    BY <2>1, <2>2 DEF NothingIsLeftBehind, VoidIsUncreated, FailureIsTidy, Tidied
<1> QED
  BY <1>1, InvHolds, PTL

\* A step asks for the value its card showed and its undoing for the value that
\* was there before, whatever others have done to the account meanwhile.
THEOREM SentAsShown == Spec => []SentIsShown
<1>1. IInv => SentIsShown
  BY DEF IInv, PackageOK, SentIsShown
<1> QED
  BY <1>1, InvHolds, PTL

-----------------------------------------------------------------------------
(* What a step changes.                                                     *)

\* What an operation writes: a value of the campaign or of one of its groups.
Field(op) ==
    CASE op = "update_budget" -> "budget"
      [] op = "update_bid" -> "bids"
      [] op = "update_keyword_bid" -> "key"
      [] op = "update_campaign" -> "name"
      [] op = "set_campaign_network" -> "partners"
      [] op \in CampaignStatusOps -> "status"
      [] op \in GroupStatusOps -> "group"
      [] op \in AdStatusOps -> "ad"

Slot(s) == <<Field(s.op), IF s.op \in GroupOps THEN s.group ELSE NoGroup>>

Slots == ({"budget", "bids", "name", "partners", "status"} \X {NoGroup})
         \cup ({"key", "group", "ad"} \X Groups)

At(k, slot) ==
    CASE slot[1] = "budget" -> k.budget
      [] slot[1] = "bids" -> [g \in Groups |-> k.groups[g].bid]
      [] slot[1] = "key" -> k.groups[slot[2]].key
      [] slot[1] = "name" -> k.name
      [] slot[1] = "partners" -> k.partners
      [] slot[1] = "status" -> k.status
      [] slot[1] = "group" -> k.groups[slot[2]].status
      [] slot[1] = "ad" -> k.groups[slot[2]].ad

LEMMA SlotOfStep ==
    ASSUME NEW s, s.op \in RollbackableOps, s.op \in GroupOps => s.group \in Groups
    PROVE  Slot(s) \in Slots
<1> USE DEF Slot, Slots, Field, GroupOps, GroupStatusOps, AdStatusOps, CampaignStatusOps
<1>1. CASE s.op \in GroupOps
  BY <1>1
<1>2. CASE s.op \in {"update_budget", "update_bid", "update_campaign", "set_campaign_network"}
  BY <1>2
<1>3. CASE s.op \in CampaignStatusOps
  BY <1>3
<1> QED
  BY <1>1, <1>2, <1>3 DEF RollbackableOps, StatusOps, MoneyOps

LEMMA SlotKinds ==
    ASSUME NEW s, s.op \in RollbackableOps
    PROVE  /\ Renames(s) <=> Slot(s) = <<"name", NoGroup>>
           /\ s.op = "update_bid" <=> Slot(s)[1] = "bids"
  BY DEF Slot, Field, Renames, RollbackableOps, StatusOps, MoneyOps, GroupOps, GroupStatusOps,
         AdStatusOps, CampaignStatusOps

\* A campaign is what stands in its slots.
LEMMA SlotsDetermine ==
    ASSUME NEW k, WellFormedCampaign(k), NEW l, WellFormedCampaign(l),
           \A slot \in Slots : At(k, slot) = At(l, slot)
    PROVE  k = l
<1>1. /\ <<"name", NoGroup>> \in Slots /\ <<"status", NoGroup>> \in Slots
      /\ <<"partners", NoGroup>> \in Slots /\ <<"budget", NoGroup>> \in Slots
      /\ <<"bids", NoGroup>> \in Slots
      /\ \A g \in Groups : /\ <<"key", g>> \in Slots /\ <<"group", g>> \in Slots
                           /\ <<"ad", g>> \in Slots
  BY DEF Slots
<1>2. k.name = l.name /\ k.status = l.status /\ k.partners = l.partners /\ k.budget = l.budget
  <2>1. \A x : /\ At(x, <<"name", NoGroup>>) = x.name
               /\ At(x, <<"status", NoGroup>>) = x.status
               /\ At(x, <<"partners", NoGroup>>) = x.partners
               /\ At(x, <<"budget", NoGroup>>) = x.budget
    BY DEF At
  <2> QED
    BY <1>1, <2>1
<1>3. ASSUME NEW g \in Groups PROVE k.groups[g] = l.groups[g]
  <2>1. k.groups[g].bid = l.groups[g].bid
    <3>1. [h \in Groups |-> k.groups[h].bid] = [h \in Groups |-> l.groups[h].bid]
      BY <1>1 DEF At
    <3>2. [h \in Groups |-> k.groups[h].bid][g] = [h \in Groups |-> l.groups[h].bid][g]
      BY <3>1
    <3> QED
      BY <3>2
  <2>2. \A x : /\ At(x, <<"key", g>>) = x.groups[g].key
               /\ At(x, <<"group", g>>) = x.groups[g].status
               /\ At(x, <<"ad", g>>) = x.groups[g].ad
    BY DEF At
  <2>3. /\ k.groups[g].key = l.groups[g].key /\ k.groups[g].status = l.groups[g].status
        /\ k.groups[g].ad = l.groups[g].ad
    BY <1>1, <2>2
  <2>4. WellFormedGroup(k.groups[g]) /\ WellFormedGroup(l.groups[g])
    BY DEF WellFormedCampaign
  <2>5. /\ k.groups[g] = GroupOf(k.groups[g].status, k.groups[g].ad, k.groups[g].bid, k.groups[g].key)
        /\ l.groups[g] = GroupOf(l.groups[g].status, l.groups[g].ad, l.groups[g].bid, l.groups[g].key)
    BY <2>4, GroupParts
  <2> QED
    BY <2>1, <2>3, <2>5, Zenon
<1>4. k.groups = l.groups
  BY <1>3, CampaignParts DEF GroupsOK
<1> QED
  BY <1>2, <1>4, CampaignParts

\* What a request makes of the groups, group by group.
GroupAfter(grp, g, r) ==
    GroupOf(IF r.op \in GroupStatusOps /\ g = r.group THEN r.value ELSE grp.status,
            IF r.op \in AdStatusOps /\ g = r.group THEN r.value ELSE grp.ad,
            IF r.op = "update_bid" THEN r.value[g] ELSE grp.bid,
            IF r.op = "update_keyword_bid" /\ g = r.group THEN r.value ELSE grp.key)

LEMMA GroupsAfterIs ==
    ASSUME NEW groups, GroupsOK(groups), NEW r, r.op # "launch_campaign", NEW g \in Groups
    PROVE  GroupsAfter(groups, r)[g] = GroupAfter(groups[g], g, r)
<1> USE DEF GroupStatusOps, AdStatusOps
<1>0. groups = [h \in Groups |-> groups[h]] /\ WellFormedGroup(groups[g])
  BY DEF GroupsOK
<1>1. ASSUME NEW x PROVE [groups EXCEPT ![r.group] = x][g] = IF g = r.group THEN x ELSE groups[g]
  BY <1>0
<1>2. groups[g] = GroupOf(groups[g].status, groups[g].ad, groups[g].bid, groups[g].key)
  BY <1>0, GroupParts
<1>3. CASE r.op = "update_bid"
  <2>1. GroupsAfter(groups, r) = [h \in Groups |-> [groups[h] EXCEPT !.bid = r.value[h]]]
    BY <1>3 DEF GroupsAfter
  <2>2. GroupsAfter(groups, r)[g] = [groups[g] EXCEPT !.bid = r.value[g]]
    BY <2>1
  <2> QED
    BY <1>0, <1>3, <2>2, GroupEdited DEF GroupAfter
<1>4. CASE r.op = "update_keyword_bid"
  <2> DEFINE x == [groups[r.group] EXCEPT !.key = r.value]
  <2>1. GroupsAfter(groups, r) = [groups EXCEPT ![r.group] = x]
    BY <1>4 DEF GroupsAfter
  <2>2. g = r.group => x = GroupOf(groups[g].status, groups[g].ad, groups[g].bid, r.value)
    <3>1. [groups[g] EXCEPT !.key = r.value] = GroupOf(groups[g].status, groups[g].ad, groups[g].bid, r.value)
      BY <1>0, GroupEdited
    <3> QED
      BY <3>1
  <2> HIDE DEF x
  <2>3. GroupsAfter(groups, r)[g] = IF g = r.group THEN x ELSE groups[g]
    BY <1>1, <2>1
  <2> QED
    BY <1>2, <1>4, <2>2, <2>3 DEF GroupAfter
<1>5. CASE r.op \in GroupStatusOps
  <2> DEFINE x == [groups[r.group] EXCEPT !.status = r.value]
  <2>1. GroupsAfter(groups, r) = [groups EXCEPT ![r.group] = x]
    BY <1>5 DEF GroupsAfter
  <2>2. g = r.group => x = GroupOf(r.value, groups[g].ad, groups[g].bid, groups[g].key)
    <3>1. [groups[g] EXCEPT !.status = r.value] = GroupOf(r.value, groups[g].ad, groups[g].bid, groups[g].key)
      BY <1>0, GroupEdited
    <3> QED
      BY <3>1
  <2> HIDE DEF x
  <2>3. GroupsAfter(groups, r)[g] = IF g = r.group THEN x ELSE groups[g]
    BY <1>1, <2>1
  <2> QED
    BY <1>2, <1>5, <2>2, <2>3 DEF GroupAfter
<1>6. CASE r.op \in AdStatusOps
  <2> DEFINE x == [groups[r.group] EXCEPT !.ad = r.value]
  <2>1. GroupsAfter(groups, r) = [groups EXCEPT ![r.group] = x]
    BY <1>6 DEF GroupsAfter
  <2>2. g = r.group => x = GroupOf(groups[g].status, r.value, groups[g].bid, groups[g].key)
    <3>1. [groups[g] EXCEPT !.ad = r.value] = GroupOf(groups[g].status, r.value, groups[g].bid, groups[g].key)
      BY <1>0, GroupEdited
    <3> QED
      BY <3>1
  <2> HIDE DEF x
  <2>3. GroupsAfter(groups, r)[g] = IF g = r.group THEN x ELSE groups[g]
    BY <1>1, <2>1
  <2> QED
    BY <1>2, <1>6, <2>2, <2>3 DEF GroupAfter
<1>7. CASE r.op \notin {"update_bid", "update_keyword_bid"} \cup GroupStatusOps \cup AdStatusOps
  BY <1>2, <1>7 DEF GroupsAfter, GroupAfter
<1> QED
  BY <1>3, <1>4, <1>5, <1>6, <1>7

\* A request that is no launch writes its slot and nothing else.
LEMMA OneSlotChanges ==
    ASSUME NEW k, WellFormedCampaign(k), NEW r, Understood(r), r.op # "launch_campaign",
           r.op \in GroupOps => r.group \in Groups,
           r.op = "update_bid" => r.value = [g \in Groups |-> r.value[g]]
    PROVE  /\ At(Changed(k, r), Slot(r)) = r.value
           /\ \A slot \in Slots : slot # Slot(r) => At(Changed(k, r), slot) = At(k, slot)
<1> DEFINE l == Changed(k, r)
<1>0. r.op \in RollbackableOps
  BY DEF Understood
<1>1. /\ l.name = IF r.op = "update_campaign" THEN r.value ELSE k.name
      /\ l.status = IF r.op \in CampaignStatusOps THEN r.value ELSE k.status
      /\ l.partners = IF r.op = "set_campaign_network" THEN r.value ELSE k.partners
      /\ l.budget = IF r.op = "update_budget" THEN r.value ELSE k.budget
      /\ l.groups = GroupsAfter(k.groups, r)
  <2>1. k = CampaignOf(k.name, k.status, k.partners, k.budget, k.groups)
    BY CampaignParts
  <2>2. l = CampaignOf(IF r.op = "update_campaign" THEN r.value ELSE k.name,
                       IF r.op \in CampaignStatusOps THEN r.value ELSE k.status,
                       IF r.op = "set_campaign_network" THEN r.value ELSE k.partners,
                       IF r.op = "update_budget" THEN r.value ELSE k.budget,
                       GroupsAfter(k.groups, r))
    BY <1>0, <2>1, ChangedIs
  <2> HIDE DEF l
  <2> QED
    BY <2>2 DEF CampaignOf
<1> HIDE DEF l
<1>2. k.groups = [g \in Groups |-> k.groups[g]] /\ \A g \in Groups : WellFormedGroup(k.groups[g])
  BY CampaignParts DEF GroupsOK
<1>3. \A g \in Groups : l.groups[g] = GroupAfter(k.groups[g], g, r)
  BY <1>1, GroupsAfterIs, CampaignParts
<1>4. ASSUME NEW g \in Groups
      PROVE  /\ l.groups[g].status =
                  IF r.op \in GroupStatusOps /\ g = r.group THEN r.value ELSE k.groups[g].status
             /\ l.groups[g].ad =
                  IF r.op \in AdStatusOps /\ g = r.group THEN r.value ELSE k.groups[g].ad
             /\ l.groups[g].bid = IF r.op = "update_bid" THEN r.value[g] ELSE k.groups[g].bid
             /\ l.groups[g].key =
                  IF r.op = "update_keyword_bid" /\ g = r.group THEN r.value ELSE k.groups[g].key
  <2>1. l.groups[g] = GroupAfter(k.groups[g], g, r)
    BY <1>3
  <2>2. \A st, ad, bid, key : /\ GroupOf(st, ad, bid, key).status = st
                              /\ GroupOf(st, ad, bid, key).ad = ad
                              /\ GroupOf(st, ad, bid, key).bid = bid
                              /\ GroupOf(st, ad, bid, key).key = key
    BY DEF GroupOf
  <2> QED
    BY <2>1, <2>2 DEF GroupAfter
<1>5. ASSUME NEW slot \in Slots
      PROVE  At(l, slot) = IF slot = Slot(r) THEN r.value ELSE At(k, slot)
  <2>1. \/ slot[1] \in {"budget", "bids", "name", "partners", "status"} /\ slot[2] = NoGroup
        \/ slot[1] \in {"key", "group", "ad"} /\ slot[2] \in Groups
    BY DEF Slots
  <2>2. slot = <<slot[1], slot[2]>>
    BY DEF Slots
  <2>3. slot = Slot(r) <=> /\ slot[1] = Field(r.op)
                           /\ slot[2] = IF r.op \in GroupOps THEN r.group ELSE NoGroup
    BY <2>2 DEF Slot
  <2> USE DEF Field, CampaignStatusOps, GroupStatusOps, AdStatusOps, GroupOps
  <2>4. CASE slot[1] \in {"budget", "name", "partners", "status"}
    BY <1>0, <1>1, <2>1, <2>3, <2>4 DEF At, RollbackableOps, StatusOps, MoneyOps
  <2>5. CASE slot[1] = "bids"
    <3>1. /\ At(l, slot) = [g \in Groups |-> l.groups[g].bid]
          /\ At(k, slot) = [g \in Groups |-> k.groups[g].bid]
      BY <2>5 DEF At
    <3>2. CASE r.op = "update_bid"
      <4>1. \A g \in Groups : l.groups[g].bid = r.value[g]
        BY <1>4, <3>2
      <4>2. [g \in Groups |-> l.groups[g].bid] = [g \in Groups |-> r.value[g]]
        BY <4>1
      <4>3. r.value = [g \in Groups |-> r.value[g]]
        BY <3>2
      <4>4. slot = Slot(r)
        BY <2>1, <2>3, <2>5, <3>2
      <4> QED
        BY <3>1, <4>2, <4>3, <4>4
    <3>3. CASE r.op # "update_bid"
      <4>1. \A g \in Groups : l.groups[g].bid = k.groups[g].bid
        BY <1>4, <3>3
      <4>2. [g \in Groups |-> l.groups[g].bid] = [g \in Groups |-> k.groups[g].bid]
        BY <4>1
      <4>3. slot # Slot(r)
        BY <1>0, <2>3, <2>5, <3>3 DEF RollbackableOps, StatusOps, MoneyOps
      <4> QED
        BY <3>1, <4>2, <4>3
    <3> QED
      BY <3>2, <3>3
  <2>6. CASE slot[1] \in {"key", "group", "ad"}
    <3>1. slot[2] \in Groups /\ NoGroup \notin Groups
      BY <2>1, <2>6, AccountAssumption
    <3>2. CASE slot[1] = "key"
      BY <1>0, <1>4, <2>3, <3>1, <3>2 DEF At, RollbackableOps, StatusOps, MoneyOps
    <3>3. CASE slot[1] = "group"
      BY <1>0, <1>4, <2>3, <3>1, <3>3 DEF At, RollbackableOps, StatusOps, MoneyOps
    <3>4. CASE slot[1] = "ad"
      BY <1>0, <1>4, <2>3, <3>1, <3>4 DEF At, RollbackableOps, StatusOps, MoneyOps
    <3> QED
      BY <2>6, <3>2, <3>3, <3>4
  <2> QED
    BY <2>1, <2>4, <2>5, <2>6
<1>6. Slot(r) \in Slots
  BY <1>0, SlotOfStep
<1> QED
  BY <1>5, <1>6 DEF l

\* Reading a step's value is reading its slot, if a keyword has its own bid.
LEMMA ReadIsSlot ==
    ASSUME NEW k, NEW s, s.op \in RollbackableOps,
           s.op = "update_keyword_bid" => k.groups[s.group].key # Inherit
    PROVE  Value(k, s) = At(k, Slot(s))
<1> USE DEF Value, At, Slot, Field, GroupOps, GroupStatusOps, AdStatusOps, CampaignStatusOps
<1>1. CASE s.op \in {"update_budget", "update_campaign", "set_campaign_network"}
  BY <1>1
<1>2. CASE s.op = "update_bid"
  BY <1>2
<1>3. CASE s.op = "update_keyword_bid"
  BY <1>3 DEF KeywordBid
<1>4. CASE s.op \in CampaignStatusOps
  BY <1>4
<1>5. CASE s.op \in GroupStatusOps
  BY <1>5
<1>6. CASE s.op \in AdStatusOps
  BY <1>6
<1> QED
  BY <1>1, <1>2, <1>3, <1>4, <1>5, <1>6 DEF RollbackableOps, StatusOps, MoneyOps

\* An undoing writes the slot its step wrote, of the campaign as it is called then.
LEMMA UndoIsAimed ==
    ASSUME NEW s, NEW e, Line(s, e), NEW u \in ReverseSpec(s, e)
    PROVE  /\ u.group = s.group /\ u.camp = (IF Renames(s) THEN s.to ELSE s.camp)
           /\ u.op \in GroupOps <=> s.op \in GroupOps
           /\ Slot(u) = Slot(s) /\ u.op # "launch_campaign"
<1> USE DEF Renames, Slot, Field, GroupOps, GroupStatusOps, AdStatusOps, CampaignStatusOps
<1>0. e.ok
  BY DEF Line
<1>1. CASE s.op = "update_bid"
  <2>1. PICK v : u = Undo(s, s.op, v)
    BY <1>0, <1>1 DEF ReverseSpec
  <2> QED
    BY <1>1, <2>1 DEF Undo
<1>2. CASE s.op \in {"update_budget", "update_keyword_bid", "set_campaign_network"}
  <2>1. u = Undo(s, s.op, e.before)
    BY <1>0, <1>2 DEF ReverseSpec
  <2> QED
    BY <1>2, <2>1 DEF Undo
<1>3. CASE s.op = "update_campaign"
  <2>1. u = [Undo(s, s.op, e.before) EXCEPT !.camp = s.to]
    BY <1>0, <1>3 DEF ReverseSpec
  <2> QED
    BY <1>3, <2>1 DEF Undo
<1>4. CASE s.op \in CampaignStatusOps
  <2>1. u.op \in {"pause_campaign", "resume_campaign"} /\ u.camp = s.camp /\ u.group = s.group
    BY <1>0, <1>4 DEF ReverseSpec, Undo
  <2> QED
    BY <1>4, <2>1
<1>5. CASE s.op \in GroupStatusOps
  <2>1. u.op \in {"pause_ad_group", "resume_ad_group"} /\ u.camp = s.camp /\ u.group = s.group
    BY <1>0, <1>5 DEF ReverseSpec, Undo
  <2> QED
    BY <1>5, <2>1
<1>6. CASE s.op \in AdStatusOps
  <2>1. u.op \in {"pause_ad", "resume_ad"} /\ u.camp = s.camp /\ u.group = s.group
    BY <1>0, <1>6 DEF ReverseSpec, Undo
  <2> QED
    BY <1>6, <2>1
<1> QED
  BY <1>1, <1>2, <1>3, <1>4, <1>5, <1>6 DEF Line, RollbackableOps, StatusOps, MoneyOps

-----------------------------------------------------------------------------
(* The order of the steps is a permutation of them.                         *)

LEMMA BeforeIsOrder ==
    ASSUME NEW steps, NEW n \in Nat, DOMAIN steps = 1 .. n
    PROVE  /\ \A i \in 1 .. n : ~Before(steps, i, i)
           /\ \A i, j \in 1 .. n : i # j => Before(steps, i, j) \/ Before(steps, j, i)
           /\ \A i, j, x \in 1 .. n :
                Before(steps, x, j) /\ Before(steps, j, i) => Before(steps, x, i)
<1> DEFINE R(i) == Renames(steps[i])
<1>0. \A i : R(i) \in BOOLEAN
  BY DEF Renames
<1>1. \A i, j \in 1 .. n : Before(steps, j, i) <=> IF R(i) = R(j) THEN j < i ELSE R(i)
  BY DEF Before
<1> HIDE DEF R
<1>2. \A i, j \in 1 .. n : Before(steps, j, i) <=> (R(i) /\ ~R(j)) \/ ((R(i) <=> R(j)) /\ j < i)
  BY <1>0, <1>1
<1>3. \A i \in 1 .. n : ~Before(steps, i, i)
  BY <1>2
<1>4. \A i, j \in 1 .. n : i # j => Before(steps, i, j) \/ Before(steps, j, i)
  BY <1>2
<1>5. ASSUME NEW i \in 1 .. n, NEW j \in 1 .. n, NEW x \in 1 .. n,
             Before(steps, x, j), Before(steps, j, i)
      PROVE  Before(steps, x, i)
  <2>1. x < j /\ j < i => x < i
    OBVIOUS
  <2> QED
    BY <1>2, <1>5, <2>1
<1> QED
  BY <1>3, <1>4, <1>5

LEMMA PlaceIsMonotone ==
    ASSUME NEW steps, NEW n \in Nat, DOMAIN steps = 1 .. n, NEW i \in 1 .. n, NEW j \in 1 .. n
    PROVE  /\ Place(steps, i) \in 1 .. n
           /\ Before(steps, j, i) => Place(steps, j) < Place(steps, i)
<1> DEFINE Earlier(x) == {y \in DOMAIN steps : Before(steps, y, x)}
<1>1. IsFiniteSet(1 .. n) /\ Cardinality(1 .. n) = n
  BY FS_Interval
<1>2. ASSUME NEW x \in 1 .. n
      PROVE  /\ IsFiniteSet(Earlier(x)) /\ Cardinality(Earlier(x)) \in Nat
             /\ IsFiniteSet(Earlier(x) \cup {x})
             /\ Cardinality(Earlier(x) \cup {x}) = Cardinality(Earlier(x)) + 1
             /\ Earlier(x) \cup {x} \subseteq 1 .. n
  <2>1. Earlier(x) \subseteq 1 .. n
    OBVIOUS
  <2>2. x \notin Earlier(x)
    BY BeforeIsOrder
  <2> HIDE DEF Earlier
  <2>3. IsFiniteSet(Earlier(x))
    BY <1>1, <2>1, FS_Subset
  <2> QED
    BY <2>1, <2>2, <2>3, FS_CardinalityType, FS_AddElement
<1>3. \A x : Place(steps, x) = 1 + Cardinality(Earlier(x))
  BY DEF Place
<1>4. Before(steps, j, i) => Earlier(j) \cup {j} \subseteq Earlier(i)
  BY BeforeIsOrder
<1> HIDE DEF Earlier
<1>5. Cardinality(Earlier(i)) + 1 <= n
  <2>1. Earlier(i) \cup {i} \in SUBSET (1 .. n)
    BY <1>2
  <2>2. Cardinality(Earlier(i) \cup {i}) <= n
    BY <1>1, <2>1, FS_Subset
  <2> QED
    BY <1>2, <2>2
<1>6. Before(steps, j, i) => Cardinality(Earlier(j)) + 1 <= Cardinality(Earlier(i))
  <2>1. SUFFICES ASSUME Before(steps, j, i)
                 PROVE  Cardinality(Earlier(j)) + 1 <= Cardinality(Earlier(i))
    OBVIOUS
  <2>2. Earlier(j) \cup {j} \in SUBSET Earlier(i)
    BY <1>4, <2>1
  <2>3. Cardinality(Earlier(j) \cup {j}) <= Cardinality(Earlier(i))
    BY <1>2, <2>2, FS_Subset
  <2> QED
    BY <1>2, <2>3
<1>7. Cardinality(Earlier(i)) \in Nat /\ Cardinality(Earlier(j)) \in Nat
  BY <1>2
<1> QED
  BY <1>3, <1>5, <1>6, <1>7

\* Every place in the order is the place of one of the steps.
LEMMA OrderedStep ==
    ASSUME NEW steps, NEW n \in Nat, DOMAIN steps = 1 .. n, NEW p \in 1 .. n
    PROVE  \E i \in 1 .. n : Place(steps, i) = p /\ Ordered(steps)[p] = steps[i]
<1> DEFINE f == [i \in 1 .. n |-> Place(steps, i)]
<1>1. f \in [1 .. n -> 1 .. n]
  BY PlaceIsMonotone
<1>2. ASSUME NEW i \in 1 .. n, NEW j \in 1 .. n, i # j PROVE f[i] # f[j]
  <2>1. Before(steps, i, j) \/ Before(steps, j, i)
    BY <1>2, BeforeIsOrder
  <2>2. Place(steps, i) < Place(steps, j) \/ Place(steps, j) < Place(steps, i)
    BY <2>1, PlaceIsMonotone
  <2>3. Place(steps, i) \in 1 .. n /\ Place(steps, j) \in 1 .. n
    BY PlaceIsMonotone
  <2>4. Place(steps, i) # Place(steps, j)
    BY <2>2, <2>3
  <2> QED
    BY <2>4
<1>3. \A i \in 1 .. n : f[i] = Place(steps, i)
  OBVIOUS
<1> HIDE DEF f
<1>4. f \in Injection(1 .. n, 1 .. n)
  BY <1>1, <1>2 DEF Injection, IsInjective
<1>5. IsFiniteSet(1 .. n)
  BY FS_Interval
<1>6. f \in Surjection(1 .. n, 1 .. n)
  BY <1>4, <1>5, FS_Injection
<1>7. \E i \in 1 .. n : Place(steps, i) = p
  BY <1>3, <1>6 DEF Surjection
<1>8. Ordered(steps)[p] = steps[CHOOSE i \in DOMAIN steps : Place(steps, i) = p]
  BY DEF Ordered
<1> QED
  BY <1>7, <1>8

\* Renames come last, and no two touch the same name.
PlanOK(plan, shown) ==
    /\ \A i, j \in DOMAIN plan : i < j /\ Renames(plan[i]) => Renames(plan[j])
    /\ \A i, j \in DOMAIN plan : Renames(plan[i]) /\ Renames(plan[j]) =>
        plan[i].to # plan[j].camp /\ (i # j => plan[i].to # plan[j].to)
    /\ \A i, j \in DOMAIN plan : plan[i].camp = plan[j].camp /\ Slot(plan[i]) = Slot(plan[j]) =>
        shown[i].before = shown[j].before
    /\ \A i \in DOMAIN plan : Renames(plan[i]) => shown[i].before = plan[i].camp
    /\ \A i \in DOMAIN plan : plan[i].op = "update_keyword_bid" => shown[i].own

\* What AcceptablePackage lets pass, drawn from a well-formed account.
LEMMA NewPlanOK ==
    ASSUME NEW d \in Packages, WellFormed(acct), NamesApart(acct)
    PROVE  LET plan == Ordered(Normalised(d.steps))
               shown == [i \in DOMAIN plan |-> Snapshot(acct, plan[i])]
           IN  AcceptablePackage(d.steps, plan, shown) => PlanOK(plan, shown)
<1> DEFINE steps == Normalised(d.steps)
           plan == Ordered(steps)
           shown == [i \in DOMAIN plan |-> Snapshot(acct, plan[i])]
           n == Len(d.steps)
<1> SUFFICES ASSUME AcceptablePackage(d.steps, plan, shown) PROVE PlanOK(plan, shown)
  OBVIOUS
<1>1. DOMAIN d.steps = 1 .. n /\ n \in Nat
  BY PackageAssumption
<1>2. DOMAIN steps = 1 .. n
  BY <1>1 DEF Normalised
<1>3. DOMAIN plan = 1 .. n
  BY <1>1, <1>2, OrderedShape
<1>4. ASSUME NEW i \in 1 .. n
      PROVE  /\ Renames(steps[i]) <=> Renames(d.steps[i])
             /\ Renames(steps[i]) => steps[i] = d.steps[i]
  <2>1. \A x : Renames(d.steps[i]) => Renames(d.steps[i])
    OBVIOUS
  <2>2. CASE Renames(d.steps[i])
    BY <1>1, <2>2 DEF Normalised
  <2>3. CASE ~Renames(d.steps[i])
    <3>1. \/ steps[i] = d.steps[i]
          \/ \E x : steps[i] = [d.steps[i] EXCEPT !.camp = x]
      BY <1>1 DEF Normalised
    <3>2. \A x : [d.steps[i] EXCEPT !.camp = x].op = d.steps[i].op
      OBVIOUS
    <3>3. steps[i].op = d.steps[i].op
      BY <3>1, <3>2
    <3> QED
      BY <2>3, <3>3 DEF Renames
  <2> QED
    BY <2>2, <2>3
<1>5. \A i, j \in 1 .. n : Renames(steps[i]) /\ Renames(steps[j]) =>
        steps[i].to # steps[j].camp /\ (i # j => steps[i].to # steps[j].to)
  BY <1>1, <1>4 DEF AcceptablePackage, ChainedRenames
<1>6. \A i \in 1 .. n : shown[i] = Snapshot(acct, plan[i])
  BY <1>3
<1>7. \A i \in 1 .. n : plan[i].op \in RollbackableOps /\ ReverseSpec(plan[i], shown[i]) # {}
  BY <1>3 DEF AcceptablePackage
<1>8. \A p \in 1 .. n : \E i \in 1 .. n : Place(steps, i) = p /\ plan[p] = steps[i]
  BY <1>1, <1>2, OrderedStep
<1> HIDE DEF plan, shown, steps, n
<1>9. ASSUME NEW p \in 1 .. n, NEW q \in 1 .. n, p < q, Renames(plan[p]) PROVE Renames(plan[q])
  <2>1. PICK i \in 1 .. n : Place(steps, i) = p /\ plan[p] = steps[i]
    BY <1>8
  <2>2. PICK j \in 1 .. n : Place(steps, j) = q /\ plan[q] = steps[j]
    BY <1>8
  <2>3. SUFFICES ASSUME ~Renames(steps[j]) PROVE FALSE
    BY <2>2
  <2>4. Before(steps, j, i)
    BY <1>9, <2>1, <2>3 DEF Before, Renames
  <2>5. q < p
    BY <1>1, <1>2, <2>1, <2>2, <2>4, PlaceIsMonotone
  <2> QED
    BY <1>9, <2>5
<1>10. ASSUME NEW p \in 1 .. n, NEW q \in 1 .. n, Renames(plan[p]), Renames(plan[q])
       PROVE  plan[p].to # plan[q].camp /\ (p # q => plan[p].to # plan[q].to)
  BY <1>5, <1>8, <1>10
<1>11. ASSUME NEW p \in 1 .. n
       PROVE  \E k \in Campaigns :
                /\ acct[k].name = plan[p].camp
                /\ shown[p].before = At(acct[k], Slot(plan[p]))
                /\ shown[p].before = Value(acct[k], plan[p])
                /\ plan[p].op = "update_keyword_bid" => shown[p].own
  <2> DEFINE k == CHOOSE x \in Named(acct, plan[p].camp) : TRUE
  <2>0. shown[p] = Snapshot(acct, plan[p])
    BY <1>6
  <2>1. shown[p].ok
    BY <1>7 DEF ReverseSpec
  <2>2. Found(acct, plan[p])
    BY <2>0, <2>1 DEF Snapshot, Unreadable
  <2>3. k \in Campaigns /\ acct[k].name = plan[p].camp
    BY <2>2 DEF Found, Named
  <2>4. shown[p].before = Value(acct[k], plan[p]) /\ shown[p].own = OwnBid(acct[k], plan[p])
    BY <2>0, <2>2 DEF Snapshot
  <2>5. plan[p].op = "update_keyword_bid" => shown[p].own
    BY <1>7, <2>1 DEF ReverseSpec, CampaignStatusOps, GroupStatusOps, AdStatusOps
  <2> HIDE DEF k
  <2>6. plan[p].op = "update_keyword_bid" => acct[k].groups[plan[p].group].key # Inherit
    BY <2>4, <2>5 DEF OwnBid
  <2>7. Value(acct[k], plan[p]) = At(acct[k], Slot(plan[p]))
    BY <1>7, <2>6, ReadIsSlot
  <2> QED
    BY <2>3, <2>4, <2>5, <2>7
<1>12. ASSUME NEW p \in 1 .. n, NEW q \in 1 .. n, plan[p].camp = plan[q].camp,
              Slot(plan[p]) = Slot(plan[q])
       PROVE  shown[p].before = shown[q].before
  BY <1>11, <1>12 DEF NamesApart
<1>13. ASSUME NEW p \in 1 .. n, Renames(plan[p]) PROVE shown[p].before = plan[p].camp
  BY <1>11, <1>13 DEF Renames, Value, CampaignStatusOps, GroupStatusOps, AdStatusOps
<1> QED
  BY <1>3, <1>9, <1>10, <1>11, <1>12, <1>13 DEF PlanOK

-----------------------------------------------------------------------------
(* The invariant of packages that are brought back.                         *)

\* How many steps of the package are in the account.
Done(c) ==
    IF \/ pc[c] \in {"gates", "check"}
       \/ pc[c] = "call" /\ call[c] # "landed"
       \/ pc[c] = "undo" /\ call[c] = "landed"
    THEN at[c] - 1 ELSE at[c]

\* ... and how many were compared with the account when they were sent.
Compared(c) == IF pc[c] = "call" THEN at[c] ELSE Done(c)

Undisturbed(c) == Alone(c) /\ ~lost[c] /\ (pc[c] \in Backwards => clean[c])
Restorable(c) == Undisturbed(c) /\ ~Launches(c) /\ BasesHeld(c)

\* Step i of c has renamed k.
MovedTo(c, i, k) ==
    /\ Renames(Plan(c)[i])
    /\ origin[c][k].name = Plan(c)[i].camp /\ acct[k].name = Plan(c)[i].to

\* A request in flight is about the campaign its step is about.
Aimed(c) ==
    /\ request[c].id \in Campaigns /\ origin[c][request[c].id].name = Step(c).camp
    /\ Slot(request[c]) = Slot(Step(c)) /\ Slot(Step(c)) \in Slots
    /\ pc[c] = "call" => request[c].op = Step(c).op /\ acct[request[c].id].name = Step(c).camp
    /\ pc[c] = "undo" => /\ request[c].op # "launch_campaign"
                         /\ Renames(Step(c)) => acct[request[c].id].name = Step(c).to

\* The names of the account are those it had at the claim, but for the renames
\* among the first n steps.
NamesAfter(c, n) ==
    /\ \A k \in Campaigns :
        acct[k].name = origin[c][k].name \/ \E i \in 1 .. n : MovedTo(c, i, k)
    /\ \A i \in 1 .. n : Renames(Plan(c)[i]) => \E k \in Campaigns : MovedTo(c, i, k)

\* ... and so are its values, but for those the first n steps are about.
ValuesAfter(c, n) ==
    \A k \in Campaigns, slot \in Slots :
        \/ At(acct[k], slot) = At(origin[c][k], slot)
        \/ \E i \in 1 .. n : Slot(Plan(c)[i]) = slot /\ Plan(c)[i].camp = origin[c][k].name

\* What the card shows as the base of the first n steps was there at the claim.
BasesTrue(c, n) ==
    \A k \in Campaigns, i \in 1 .. n :
        origin[c][k].name = Plan(c)[i].camp =>
            card[c][i].before = At(origin[c][k], Slot(Plan(c)[i]))

HistoryOK(c) ==
    /\ WellFormed(origin[c]) /\ NamesApart(origin[c])
    /\ status[c] \in {"absent", "pending", "confirmed"} \/ pc[c] \in Forwards => ~lost[c]
    /\ (\E a \in adrift : a[1] = c) => lost[c]
    /\ status[c] \in {"absent", "pending", "confirmed"} /\ Alone(c) => acct = origin[c]

FailureOK(c) ==
    /\ status[c] = "failed" /\ draft[c] \in Packages
    /\ Alone(c) /\ ~lost[c] /\ ~Launches(c) /\ BasesHeld(c)
    => acct = origin[c]

RestoreOK(c) ==
    /\ HistoryOK(c)
    /\ status[c] # "absent" /\ draft[c] \in Packages => PlanOK(Plan(c), card[c])
    /\ pc[c] = "settle" => at[c] = 0
    /\ pc[c] # "idle" /\ Undisturbed(c) =>
        NamesAfter(c, Done(c)) /\ (call[c] = "flying" => Aimed(c))
    /\ pc[c] # "idle" /\ Restorable(c) => ValuesAfter(c, Done(c)) /\ BasesTrue(c, Compared(c))
    /\ FailureOK(c)

HistoryShape ==
    /\ DOMAIN origin = Proposals
    /\ touched \in [Proposals -> BOOLEAN] /\ lost \in [Proposals -> BOOLEAN]

RInv == HistoryShape /\ NamesApart(acct) /\ \A c \in Proposals : RestoreOK(c)

-----------------------------------------------------------------------------
(* What leaves the promise to a proposal alone.                             *)

\* Nothing of c has changed but its row.
SameRecord(c) ==
    /\ SamePackage(c)
    /\ clean'[c] = clean[c] /\ origin'[c] = origin[c] /\ lost'[c] = lost[c]

\* While the account is the same, so is what was said of it.
LEMMA SameView ==
    ASSUME NEW c \in Proposals, draft'[c] = draft[c], card'[c] = card[c], origin'[c] = origin[c]
    PROVE  /\ Plan(c)' = Plan(c) /\ (Launches(c)' <=> Launches(c))
           /\ BasesHeld(c)' <=> BasesHeld(c)
           /\ \A n : BasesTrue(c, n) => BasesTrue(c, n)'
           /\ acct' = acct => \A n : /\ NamesAfter(c, n) => NamesAfter(c, n)'
                                     /\ ValuesAfter(c, n) => ValuesAfter(c, n)'
<1>1. Plan(c)' = Plan(c)
  BY SameDraft
<1>2. Launches(c)' <=> Launches(c)
  BY <1>1 DEF Launches
<1>3. BasesHeld(c)' <=> BasesHeld(c)
  BY <1>1 DEF BasesHeld
<1>4. \A n : BasesTrue(c, n) => BasesTrue(c, n)'
  BY <1>1 DEF BasesTrue
<1>5. ASSUME acct' = acct
      PROVE  \A n : /\ NamesAfter(c, n) => NamesAfter(c, n)'
                    /\ ValuesAfter(c, n) => ValuesAfter(c, n)'
  <2>1. \A i, k : MovedTo(c, i, k)' <=> MovedTo(c, i, k)
    BY <1>1, <1>5 DEF MovedTo
  <2>2. \A n : NamesAfter(c, n) => NamesAfter(c, n)'
    BY <1>1, <1>5, <2>1 DEF NamesAfter
  <2>3. \A n : ValuesAfter(c, n) => ValuesAfter(c, n)'
    BY <1>1, <1>5 DEF ValuesAfter
  <2> QED
    BY <2>2, <2>3
<1> QED
  BY <1>1, <1>2, <1>3, <1>4, <1>5

LEMMA SameAim ==
    ASSUME NEW c \in Proposals, SameRecord(c), draft'[c] = draft[c]
    PROVE  /\ Done(c)' = Done(c) /\ Compared(c)' = Compared(c)
           /\ acct' = acct => (Aimed(c) => Aimed(c)')
<1>1. Plan(c)' = Plan(c)
  BY SameDraft
<1>2. Done(c)' = Done(c) /\ Compared(c)' = Compared(c)
  BY DEF Done, Compared, SameRecord, SamePackage
<1>3. Step(c)' = Step(c)
  BY <1>1 DEF Step, SameRecord, SamePackage
<1>4. acct' = acct => (Aimed(c) => Aimed(c)')
  BY <1>3 DEF Aimed, SameRecord, SamePackage
<1> QED
  BY <1>2, <1>4

\* A step of the account that c has not made is marked, or makes no change.
Marked(c) == touched'[c] = TRUE \/ (acct' = acct /\ touched'[c] = touched[c])

LEMMA AsideKeepsRestore ==
    ASSUME NEW c \in Proposals, PackageOK(c), RestoreOK(c), RowDrift(c), SameRecord(c), Marked(c)
    PROVE  RestoreOK(c)'
<1>1. /\ draft'[c] = draft[c] /\ card'[c] = card[c] /\ origin'[c] = origin[c]
      /\ lost'[c] = lost[c] /\ clean'[c] = clean[c] /\ pc'[c] = pc[c] /\ at'[c] = at[c]
      /\ call'[c] = call[c]
      /\ \A a \in adrift' : a[1] = c => a \in adrift
  BY DEF RowDrift, SameRecord, SamePackage
<1>2. /\ status'[c] \in {"absent", "pending", "confirmed"} =>
            status[c] \in {"absent", "pending", "confirmed"}
      /\ status'[c] # "absent" => status[c] # "absent"
      /\ status'[c] = "failed" => status[c] \in {"failed", "confirmed"}
  BY DEF RowDrift
<1>3. Alone(c)' => Alone(c) /\ acct' = acct
  BY DEF Alone, Marked
<1>4. HistoryOK(c)'
  BY <1>1, <1>2, <1>3 DEF RestoreOK, HistoryOK, NamesApart, WellFormed
<1>5. status'[c] # "absent" /\ draft'[c] \in Packages => PlanOK(Plan(c), card[c])'
  <2>1. Plan(c)' = Plan(c)
    BY <1>1, SameDraft
  <2> QED
    BY <1>1, <1>2, <2>1 DEF RestoreOK
<1>6. pc'[c] = "settle" => at'[c] = 0
  BY <1>1 DEF RestoreOK
<1>7. Undisturbed(c)' => Undisturbed(c) /\ acct' = acct
  BY <1>1, <1>3 DEF Undisturbed
<1>8. (Launches(c)' <=> Launches(c)) /\ (BasesHeld(c)' <=> BasesHeld(c))
  BY <1>1, SameView
<1>9. pc'[c] # "idle" /\ Undisturbed(c)' =>
        NamesAfter(c, Done(c))' /\ (call'[c] = "flying" => Aimed(c)')
  BY <1>1, <1>7, SameView, SameAim DEF RestoreOK
<1>10. pc'[c] # "idle" /\ Restorable(c)' =>
         ValuesAfter(c, Done(c))' /\ BasesTrue(c, Compared(c))'
  BY <1>1, <1>7, <1>8, SameView, SameAim DEF RestoreOK, Restorable
<1>11. FailureOK(c)'
  BY <1>1, <1>2, <1>3, <1>8 DEF RestoreOK, FailureOK, HistoryOK
<1> QED
  BY <1>4, <1>5, <1>6, <1>9, <1>10, <1>11 DEF RestoreOK

\* The row of a creation, while its executor works.
LEMMA CreationRowKeepsRestore ==
    ASSUME NEW c \in Proposals, RestoreOK(c), SameRecord(c), Marked(c), acct' = acct,
           draft'[c] = draft[c], draft[c] \notin Packages, pc[c] = "idle",
           status[c] # "absent", status'[c] \in Claimed
    PROVE  RestoreOK(c)'
<1>1. HistoryOK(c)'
  BY DEF RestoreOK, HistoryOK, SameRecord, SamePackage, Claimed, Marked, WellFormed, NamesApart,
         Forwards
<1> QED
  BY <1>1 DEF RestoreOK, SameRecord, SamePackage, FailureOK

\* A new row.
LEMMA NewRowKeepsRestore ==
    ASSUME NEW c \in Proposals, RestoreOK(c), pc[c] = "idle", pc'[c] = "idle",
           status[c] = "absent", status'[c] = "pending",
           adrift' = adrift, acct' = acct, UNCHANGED packageHistory,
           draft'[c] \in Packages => PlanOK(Plan(c), card[c])'
    PROVE  RestoreOK(c)'
<1>1. HistoryOK(c)'
  BY DEF RestoreOK, HistoryOK, packageHistory, WellFormed, NamesApart, Forwards, Alone
<1> QED
  BY <1>1 DEF RestoreOK, FailureOK

-----------------------------------------------------------------------------
(* What a package does to the promises of the others.                       *)

LEMMA CompositeMarks ==
    ASSUME NEW c \in Proposals, HistoryShape, Shape, CompositeStep(c), NEW x \in Proposals \ {c}
    PROVE  /\ Marked(x)
           /\ clean'[x] = clean[x] /\ origin'[x] = origin[x] /\ lost'[x] = lost[x]
<1> USE DEF HistoryShape, Shape
<1>1. clean'[x] = clean[x] /\ origin'[x] = origin[x] /\ lost'[x] = lost[x]
  BY DEF CompositeStep, ClaimPackage, SendStep, StepRefused, StepReturns, StepFails, StepLost,
         StepVerified, StepUnverified, FinalizePackage, SendUndo, UndoRefused, UndoReturns,
         UndoFails, UndoLost, UndoVerified, UndoUnverified, SettlePackage, ServerApplies,
         ServerRefuses, LaunchBreaksOff, ExecutorCrashes, Incomplete, packageHistory
<1>2. CASE ServerApplies(c) \/ LaunchBreaksOff(c)
  <2>1. touched'[x] = (touched[x] \/ x # c)
    BY <1>2 DEF ServerApplies, LaunchBreaksOff, Count, ByOne
  <2> QED
    BY <1>1, <2>1 DEF Marked
<1>3. CASE ~(ServerApplies(c) \/ LaunchBreaksOff(c))
  <2>1. acct' = acct /\ touched'[x] = touched[x]
    BY <1>3 DEF CompositeStep, ClaimPackage, SendStep, StepRefused, StepReturns, StepFails,
         StepLost, StepVerified, StepUnverified, FinalizePackage, SendUndo, UndoRefused,
         UndoReturns, UndoFails, UndoLost, UndoVerified, UndoUnverified, SettlePackage,
         ServerRefuses, ExecutorCrashes, packageAccount, packageHistory
  <2> QED
    BY <1>1, <2>1 DEF Marked
<1> QED
  BY <1>2, <1>3

LEMMA CompositeHistoryShape ==
    ASSUME NEW c \in Proposals, HistoryShape, Shape, CompositeStep(c)
    PROVE  HistoryShape'
<1> USE DEF HistoryShape, Shape
<1>1. DOMAIN origin' = Proposals /\ lost' \in [Proposals -> BOOLEAN]
  BY DEF CompositeStep, ClaimPackage, SendStep, StepRefused, StepReturns, StepFails, StepLost,
         StepVerified, StepUnverified, FinalizePackage, SendUndo, UndoRefused, UndoReturns,
         UndoFails, UndoLost, UndoVerified, UndoUnverified, SettlePackage, ServerApplies,
         ServerRefuses, LaunchBreaksOff, ExecutorCrashes, packageHistory
<1>2. touched' \in [Proposals -> BOOLEAN]
  BY DEF CompositeStep, ClaimPackage, SendStep, StepRefused, StepReturns, StepFails, StepLost,
         StepVerified, StepUnverified, FinalizePackage, SendUndo, UndoRefused, UndoReturns,
         UndoFails, UndoLost, UndoVerified, UndoUnverified, SettlePackage, ServerApplies,
         ServerRefuses, LaunchBreaksOff, ExecutorCrashes, packageHistory, Count, ByOne
<1> QED
  BY <1>1, <1>2

\* Google refuses a name that is taken.
LEMMA NamesAfterChange ==
    ASSUME NEW k, WellFormedCampaign(k), NEW r, r.op \in RollbackableOps
    PROVE  Changed(k, r).name = IF r.op = "update_campaign" THEN r.value ELSE k.name
<1>1. k = CampaignOf(k.name, k.status, k.partners, k.budget, k.groups)
  BY CampaignParts
<1>2. PICK st, partners, budget, groups :
        Changed(k, r) = CampaignOf(IF r.op = "update_campaign" THEN r.value ELSE k.name,
                                   st, partners, budget, groups)
  BY <1>1, ChangedIs
<1> QED
  BY <1>2 DEF CampaignOf

LEMMA AppliedParts ==
    ASSUME NEW a, WellFormed(a), NEW r, Understood(r)
    PROVE  /\ \A k \in Campaigns : k # r.id => Applied(a, r)[k] = a[k]
           /\ Applied(a, r)[r.id] = Changed(a[r.id], r)
           /\ Applied(a, r)[r.id].name =
                IF r.op = "update_campaign" THEN r.value ELSE a[r.id].name
<1>1. r.id \in Campaigns /\ a = [k \in Campaigns |-> a[k]] /\ WellFormedCampaign(a[r.id])
  BY DEF WellFormed, Understood
<1>2. /\ \A k \in Campaigns : k # r.id => Applied(a, r)[k] = a[k]
      /\ Applied(a, r)[r.id] = Changed(a[r.id], r)
  BY <1>1 DEF Applied
<1> QED
  BY <1>1, <1>2, NamesAfterChange DEF Understood

LEMMA LaunchingParts ==
    ASSUME NEW a, WellFormed(a), NEW r, Understood(r), NEW b \in Launching(a, r)
    PROVE  \A k \in Campaigns : b[k].name = a[k].name
<1> DEFINE begun == [a EXCEPT ![r.id].status = "ENABLED"]
           groups == [g \in Groups |-> [begun[r.id].groups[g] EXCEPT !.status = "ENABLED"]]
<1>1. r.id \in Campaigns /\ a = [k \in Campaigns |-> a[k]] /\ WellFormedCampaign(a[r.id])
  BY DEF WellFormed, Understood
<1>2. a[r.id] = CampaignOf(a[r.id].name, a[r.id].status, a[r.id].partners, a[r.id].budget,
                           a[r.id].groups)
  BY <1>1, CampaignParts
<1>3. begun[r.id] = CampaignOf(a[r.id].name, "ENABLED", a[r.id].partners, a[r.id].budget,
                               a[r.id].groups)
  BY <1>1, <1>2 DEF CampaignOf
<1>4. begun = [k \in Campaigns |-> begun[k]] /\ \A k \in Campaigns : k # r.id => begun[k] = a[k]
  BY <1>1
<1>5. b \in {begun, [begun EXCEPT ![r.id].groups = groups]}
  BY DEF Launching
<1> HIDE DEF begun, groups
<1>6. CASE b = begun
  BY <1>3, <1>4, <1>6 DEF CampaignOf
<1>7. CASE b = [begun EXCEPT ![r.id].groups = groups]
  <2>1. b[r.id] = [begun[r.id] EXCEPT !.groups = groups]
    BY <1>1, <1>4, <1>7
  <2>2. b[r.id].name = a[r.id].name
    BY <1>3, <2>1 DEF CampaignOf
  <2>3. \A k \in Campaigns : k # r.id => b[k] = a[k]
    BY <1>4, <1>7
  <2> QED
    BY <2>2, <2>3
<1> QED
  BY <1>5, <1>6, <1>7

LEMMA NamesStayApart ==
    ASSUME NEW a, WellFormed(a), NamesApart(a), NEW r, Understood(r)
    PROVE  /\ Acceptable(a, r) => NamesApart(Applied(a, r))
           /\ \A b \in Launching(a, r) : NamesApart(b)
<1>1. ASSUME Acceptable(a, r), NEW k \in Campaigns, NEW l \in Campaigns,
             Applied(a, r)[k].name = Applied(a, r)[l].name
      PROVE  k = l
  <2>1. r.op = "update_campaign" => \A x \in Campaigns : a[x].name = r.value => x = r.id
    BY <1>1 DEF Acceptable, Named
  <2> QED
    BY <1>1, <2>1, AppliedParts DEF NamesApart
<1> QED
  BY <1>1, LaunchingParts DEF NamesApart

LEMMA CompositeKeepsApart ==
    ASSUME NEW c \in Proposals, AccountOK, PackageOK(c), NamesApart(acct), CompositeStep(c)
    PROVE  NamesApart(acct')
<1>1. \/ acct' = acct
      \/ call[c] = "flying" /\ Acceptable(acct, request[c]) /\ acct' = Applied(acct, request[c])
      \/ call[c] = "flying" /\ acct' \in Launching(acct, request[c])
  BY DEF CompositeStep, ClaimPackage, SendStep, StepRefused, StepReturns, StepFails, StepLost,
         StepVerified, StepUnverified, FinalizePackage, SendUndo, UndoRefused, UndoReturns,
         UndoFails, UndoLost, UndoVerified, UndoUnverified, SettlePackage, ServerApplies,
         ServerRefuses, LaunchBreaksOff, ExecutorCrashes, packageAccount
<1>2. call[c] = "flying" => Understood(request[c])
  BY DEF PackageOK
<1> QED
  BY <1>1, <1>2, NamesStayApart DEF AccountOK

-----------------------------------------------------------------------------
(* What a package does to the promise of its own.                           *)

\* A step of the executor that changes nothing and takes nothing for granted.
LEMMA QuietKeepsRestore ==
    ASSUME NEW c \in Proposals, RestoreOK(c),
           status[c] \in Claimed, status'[c] \in Claimed, pc[c] # "idle",
           draft'[c] = draft[c], card'[c] = card[c], origin'[c] = origin[c],
           touched'[c] = touched[c], acct' = acct,
           lost'[c] = lost[c] \/ (lost'[c] = TRUE /\ pc'[c] \notin Forwards),
           \A a \in adrift' : a[1] = c => a \in adrift \/ lost'[c],
           pc'[c] \in Forwards => pc[c] \in Forwards,
           pc'[c] # "idle" => call'[c] # "flying",
           pc'[c] = "settle" => at'[c] = 0,
           pc'[c] # "idle" /\ Undisturbed(c)' =>
             /\ Undisturbed(c) /\ Done(c)' = Done(c)
             /\ Compared(c) \in Int /\ Compared(c)' \in Int /\ Compared(c)' <= Compared(c)
    PROVE  RestoreOK(c)'
<1>1. /\ Plan(c)' = Plan(c) /\ (Launches(c)' <=> Launches(c)) /\ (BasesHeld(c)' <=> BasesHeld(c))
      /\ \A n : BasesTrue(c, n) => BasesTrue(c, n)'
      /\ \A n : /\ NamesAfter(c, n) => NamesAfter(c, n)'
                /\ ValuesAfter(c, n) => ValuesAfter(c, n)'
  BY SameView
<1>2. HistoryOK(c)'
  BY DEF RestoreOK, HistoryOK, Claimed, WellFormed, NamesApart
<1>3. status'[c] # "absent" /\ draft'[c] \in Packages => PlanOK(Plan(c), card[c])'
  BY <1>1 DEF RestoreOK, Claimed
<1>4. pc'[c] # "idle" /\ Undisturbed(c)' => NamesAfter(c, Done(c))'
  BY <1>1 DEF RestoreOK
<1>5. ASSUME pc'[c] # "idle", Restorable(c)'
      PROVE  ValuesAfter(c, Done(c))' /\ BasesTrue(c, Compared(c))'
  <2>1. Restorable(c) /\ Undisturbed(c)'
    BY <1>1, <1>5 DEF Restorable
  <2>2. ValuesAfter(c, Done(c)) /\ BasesTrue(c, Compared(c))
    BY <2>1 DEF RestoreOK
  <2>3. ASSUME NEW n \in Int, NEW m \in Int, m <= n, BasesTrue(c, n) PROVE BasesTrue(c, m)
    BY <2>3 DEF BasesTrue
  <2>4. BasesTrue(c, Compared(c)')
    BY <1>5, <2>1, <2>2, <2>3
  <2> QED
    BY <1>1, <1>5, <2>1, <2>2, <2>4
<1>6. FailureOK(c)'
  BY DEF FailureOK, Claimed
<1> QED
  BY <1>2, <1>3, <1>4, <1>5, <1>6 DEF RestoreOK

LEMMA QuietSteps ==
    ASSUME NEW c \in Proposals, HistoryShape, Shape, PackageOK(c), RestoreOK(c),
           \/ StepRefused(c) \/ StepReturns(c) \/ StepFails(c) \/ StepLost(c) \/ StepVerified(c)
           \/ StepUnverified(c) \/ FinalizePackage(c)
           \/ UndoRefused(c) \/ UndoReturns(c) \/ UndoFails(c) \/ UndoLost(c) \/ UndoVerified(c)
           \/ UndoUnverified(c) \/ ServerRefuses(c) \/ ExecutorCrashes(c)
    PROVE  RestoreOK(c)'
<1> USE DEF HistoryShape, Shape
<1>1. pc[c] # "idle" /\ status[c] \in Claimed
  BY DEF StepRefused, StepReturns, StepFails, StepLost, StepVerified, StepUnverified,
         FinalizePackage, UndoRefused, UndoReturns, UndoFails, UndoLost, UndoVerified,
         UndoUnverified, ServerRefuses, ExecutorCrashes, PackageOK, Claimed
<1>2. /\ draft' = draft /\ card' = card /\ origin' = origin /\ touched' = touched /\ acct' = acct
      /\ status'[c] \in {status[c], "applied"}
  BY DEF StepRefused, StepReturns, StepFails, StepLost, StepVerified, StepUnverified,
         FinalizePackage, UndoRefused, UndoReturns, UndoFails, UndoLost, UndoVerified,
         UndoUnverified, ServerRefuses, ExecutorCrashes, Finalize, Decide, StoreTypeOK, storeVars,
         packageAccount, packageHistory
<1>3. at[c] \in Int /\ (pc[c] # "settle" => at[c] > 0)
  BY <1>1 DEF PackageOK
<1>4. call[c] # "none" <=> pc[c] \in {"call", "undo"}
  BY DEF PackageOK
<1>5. ASSUME /\ lost'[c] = lost[c] \/ (lost'[c] = TRUE /\ pc'[c] \notin Forwards)
             /\ \A a \in adrift' : a[1] = c => a \in adrift \/ lost'[c]
             /\ pc'[c] \in Forwards => pc[c] \in Forwards
             /\ pc'[c] # "idle" => call'[c] # "flying"
             /\ pc'[c] = "settle" => at'[c] = 0
             /\ pc'[c] # "idle" /\ Undisturbed(c)' =>
                  /\ Undisturbed(c) /\ Done(c)' = Done(c)
                  /\ Compared(c) \in Int /\ Compared(c)' \in Int /\ Compared(c)' <= Compared(c)
      PROVE  RestoreOK(c)'
  <2>1. status'[c] \in Claimed
    BY <1>1, <1>2 DEF Claimed
  <2> QED
    BY <1>1, <1>2, <1>5, <2>1, QuietKeepsRestore
<1> USE DEF Done, Compared, Undisturbed, Alone, Forwards, Backwards
<1>6. CASE StepRefused(c) \/ StepFails(c)
  <2>1. /\ pc[c] = "gates" \/ (pc[c] = "call" /\ call[c] = "refused")
        /\ call'[c] = "none" /\ lost' = lost /\ adrift' = adrift
        /\ at'[c] = at[c] - 1 /\ pc'[c] = IF at[c] - 1 = 0 THEN "settle" ELSE "rebuild"
    BY <1>4, <1>6 DEF StepRefused, StepFails, NoCall, RollBack, Move, packageAccount, packageHistory
  <2> QED
    BY <1>2, <1>3, <1>5, <2>1
<1>7. CASE StepReturns(c)
  <2>1. /\ pc[c] = "call" /\ call[c] = "landed" /\ call'[c] = "none" /\ pc'[c] = "verify"
        /\ at'[c] = at[c] /\ lost' = lost /\ adrift' = adrift
    BY <1>7 DEF StepReturns, NoCall, Move, packageAccount, packageHistory
  <2> QED
    BY <1>2, <1>3, <1>5, <2>1
<1>8. CASE StepVerified(c)
  <2>1. /\ pc[c] = "verify" /\ call'[c] = "none" /\ lost' = lost /\ adrift' = adrift
        /\ \/ pc'[c] = "finalize" /\ at'[c] = at[c]
           \/ pc'[c] = "gates" /\ at'[c] = at[c] + 1
    BY <1>4, <1>8 DEF StepVerified, Proceed, Move, packageAccount, packageHistory
  <2>2. Undisturbed(c)' => Undisturbed(c)
    BY <1>2, <2>1
  <2>3. Done(c) = at[c] /\ Compared(c) = at[c]
    BY <2>1
  <2>4. Done(c)' = at[c] /\ Compared(c)' = at[c]
    <3>1. CASE pc'[c] = "finalize" /\ at'[c] = at[c]
      BY <3>1
    <3>2. CASE pc'[c] = "gates" /\ at'[c] = at[c] + 1
      <4>1. Done(c)' = at'[c] - 1 /\ Compared(c)' = Done(c)'
        BY <3>2
      <4>2. (at[c] + 1) - 1 = at[c]
        BY <1>3
      <4> QED
        BY <3>2, <4>1, <4>2
    <3> QED
      BY <2>1, <3>1, <3>2
  <2> HIDE DEF Done, Compared, Undisturbed
  <2> QED
    BY <1>2, <1>3, <1>5, <2>1, <2>2, <2>3, <2>4
<1>9. CASE StepUnverified(c)
  <2>1. /\ pc[c] = "verify" /\ call'[c] = "none" /\ lost' = lost /\ adrift' = adrift
        /\ pc'[c] = "rebuild" /\ at'[c] = at[c]
    BY <1>3, <1>4, <1>9 DEF StepUnverified, RollBack, Move, packageAccount, packageHistory
  <2> QED
    BY <1>2, <1>3, <1>5, <2>1
<1>10. CASE StepLost(c) \/ UndoLost(c)
  <2>1. /\ lost'[c] = TRUE /\ call'[c] = "none" /\ at'[c] = at[c] - 1
        /\ pc'[c] = IF at[c] - 1 = 0 THEN "settle" ELSE "rebuild"
    BY <1>3, <1>10 DEF StepLost, UndoLost, NoCall, RollBack, Onward, Move
  <2>2. ~Undisturbed(c)' /\ pc'[c] \notin Forwards
    BY <2>1
  <2> QED
    BY <1>5, <2>1, <2>2
<1>11. CASE ExecutorCrashes(c)
  <2>1. pc'[c] = "idle" /\ lost'[c] = (lost[c] \/ call[c] # "none")
    BY <1>11 DEF ExecutorCrashes, Move
  <2>2. ASSUME NEW a \in adrift', a \notin adrift PROVE lost'[c]
    <3>1. call[c] # "none"
      BY <1>11, <2>2 DEF ExecutorCrashes, LeftBehind
    <3> QED
      BY <2>1, <3>1
  <2>3. lost'[c] = lost[c] \/ lost'[c] = TRUE
    BY <2>1
  <2> QED
    BY <1>5, <2>1, <2>2, <2>3
<1>12. CASE FinalizePackage(c)
  <2>1. pc'[c] = "idle" /\ lost' = lost /\ adrift' = adrift
    BY <1>12 DEF FinalizePackage, Move, packageAccount, packageHistory
  <2> QED
    BY <1>5, <2>1
<1>13. CASE UndoRefused(c) \/ UndoFails(c) \/ UndoUnverified(c)
  <2>1. /\ lost' = lost /\ adrift' = adrift /\ call'[c] = "none" /\ clean'[c] = FALSE
        /\ at'[c] = at[c] - 1 /\ pc'[c] = IF at[c] - 1 = 0 THEN "settle" ELSE "rebuild"
    BY <1>3, <1>4, <1>13 DEF UndoRefused, UndoFails, UndoUnverified, NoCall, Onward, Move, Incomplete,
                             packageAccount, packageHistory
  <2>2. ~Undisturbed(c)' /\ pc'[c] \notin Forwards
    BY <2>1
  <2> QED
    BY <1>5, <2>1, <2>2
<1>14. CASE UndoReturns(c)
  <2>1. /\ pc[c] = "undo" /\ call[c] = "landed" /\ call'[c] = "none" /\ pc'[c] = "check"
        /\ at'[c] = at[c] /\ lost' = lost /\ adrift' = adrift /\ clean' = clean
    BY <1>14 DEF UndoReturns, NoCall, Move, packageAccount, packageHistory
  <2> QED
    BY <1>2, <1>3, <1>5, <2>1
<1>15. CASE UndoVerified(c)
  <2>1. /\ pc[c] = "check" /\ call'[c] = "none" /\ lost' = lost /\ adrift' = adrift
        /\ clean' = clean
        /\ at'[c] = at[c] - 1 /\ pc'[c] = IF at[c] - 1 = 0 THEN "settle" ELSE "rebuild"
    BY <1>3, <1>4, <1>15 DEF UndoVerified, Onward, Move, packageAccount, packageHistory
  <2> QED
    BY <1>2, <1>3, <1>5, <2>1
<1>16. CASE ServerRefuses(c)
  <2>1. /\ call[c] = "flying" /\ call'[c] = "refused" /\ pc' = pc /\ at' = at
        /\ lost' = lost /\ adrift' = adrift /\ clean' = clean
    BY <1>16 DEF ServerRefuses, packageAccount, packageHistory
  <2>2. pc[c] \in {"call", "undo"}
    BY <1>4, <2>1
  <2> QED
    BY <1>2, <1>3, <1>5, <2>1, <2>2
<1> QED
  BY <1>6, <1>7, <1>8, <1>9, <1>10, <1>11, <1>12, <1>13, <1>14, <1>15, <1>16

\* The claim: from here on the promise is about the account as it is now.
LEMMA ClaimStartsAfresh ==
    ASSUME NEW c \in Proposals, HistoryShape, Shape, AccountOK, NamesApart(acct), PackageOK(c),
           RestoreOK(c), ClaimPackage(c)
    PROVE  RestoreOK(c)'
<1> USE DEF HistoryShape, Shape
<1>1. /\ status[c] = "confirmed" /\ draft[c] \in Packages /\ pc[c] = "idle" /\ call[c] = "none"
      /\ ~lost[c]
  BY DEF ClaimPackage, Claim, MatchClaim, PackageOK, Packages, RestoreOK, HistoryOK
<1>2. /\ status'[c] = "executing" /\ draft' = draft /\ card' = card /\ acct' = acct
      /\ origin'[c] = acct /\ lost' = lost /\ adrift' = adrift
      /\ pc'[c] = "gates" /\ at'[c] = 1 /\ call'[c] = "none"
  BY <1>1 DEF ClaimPackage, Claim, Move, StoreTypeOK, packageAccount
<1>3. Done(c)' = 0 /\ Compared(c)' = 0
  <2>1. Done(c)' = at'[c] - 1 /\ Compared(c)' = Done(c)'
    BY <1>2 DEF Done, Compared
  <2> QED
    BY <1>2, <2>1
<1>4. HistoryOK(c)'
  BY <1>1, <1>2 DEF RestoreOK, HistoryOK, AccountOK, WellFormed, NamesApart
<1>5. PlanOK(Plan(c), card[c])'
  <2>1. Plan(c)' = Plan(c)
    BY <1>2, SameDraft
  <2> QED
    BY <1>1, <1>2, <2>1 DEF RestoreOK
<1>6. NamesAfter(c, 0)' /\ ValuesAfter(c, 0)' /\ BasesTrue(c, 0)'
  <2>1. ~\E i \in 1 .. 0 : TRUE
    OBVIOUS
  <2> QED
    BY <1>2, <2>1 DEF NamesAfter, ValuesAfter, BasesTrue
<1>7. FailureOK(c)'
  BY <1>2 DEF FailureOK
<1> QED
  BY <1>2, <1>3, <1>4, <1>5, <1>6, <1>7 DEF RestoreOK

\* The verdict: nothing is left to undo, so the account is as it was.
LEMMA SettlingRestores ==
    ASSUME NEW c \in Proposals, HistoryShape, Shape, AccountOK, PackageOK(c), RestoreOK(c),
           SettlePackage(c)
    PROVE  RestoreOK(c)'
<1> USE DEF HistoryShape, Shape
<1>1. /\ pc[c] = "settle" /\ at[c] = 0 /\ draft[c] \in Packages /\ status[c] \in Claimed
      /\ pc'[c] = "idle"
  BY DEF SettlePackage, PackageOK, RestoreOK, Claimed, Move
<1>2. /\ draft' = draft /\ card' = card /\ acct' = acct /\ origin' = origin /\ touched' = touched
      /\ lost' = lost /\ adrift' = adrift
      /\ \/ status'[c] \in Claimed
         \/ status'[c] = "failed" /\ clean[c]
  BY <1>1 DEF SettlePackage, RecordFailure, MarkNeedsReview, Decide, StoreTypeOK, Claimed, storeVars,
              packageAccount, packageHistory
<1>3. CASE status'[c] \in Claimed
  BY <1>1, <1>2, <1>3, QuietKeepsRestore DEF Forwards
<1>4. CASE status'[c] = "failed" /\ clean[c]
  <2>1. HistoryOK(c)'
    BY <1>1, <1>2, <1>4 DEF RestoreOK, HistoryOK, WellFormed, NamesApart, Forwards, Claimed
  <2>2. /\ Plan(c)' = Plan(c) /\ (Launches(c)' <=> Launches(c))
        /\ BasesHeld(c)' <=> BasesHeld(c)
    BY <1>2, SameView
  <2>3. PlanOK(Plan(c), card[c])'
    BY <1>1, <1>2, <2>2 DEF RestoreOK, Claimed
  <2>4. ASSUME Alone(c), ~lost[c], ~Launches(c), BasesHeld(c) PROVE acct = origin[c]
    <3>1. Restorable(c)
      BY <1>4, <2>4 DEF Restorable, Undisturbed
    <3>2. ValuesAfter(c, 0)
      BY <1>1, <3>1 DEF RestoreOK, Done
    <3>3. ~\E i \in 1 .. 0 : TRUE
      OBVIOUS
    <3>4. \A k \in Campaigns, slot \in Slots : At(acct[k], slot) = At(origin[c][k], slot)
      BY <3>2, <3>3 DEF ValuesAfter
    <3>5. WellFormed(acct) /\ WellFormed(origin[c])
      BY DEF AccountOK, RestoreOK, HistoryOK
    <3>6. \A k \in Campaigns : acct[k] = origin[c][k]
      BY <3>4, <3>5, SlotsDetermine DEF WellFormed
    <3> QED
      BY <3>5, <3>6 DEF WellFormed
  <2>5. FailureOK(c)'
    BY <1>2, <2>2, <2>4 DEF FailureOK, Alone
  <2> QED
    BY <1>1, <1>2, <2>1, <2>3, <2>5 DEF RestoreOK
<1> QED
  BY <1>2, <1>3, <1>4

\* A campaign that a step names is the one it named at the claim.
LEMMA StepFindsItsOwn ==
    ASSUME NEW c \in Proposals, HistoryOK(c), PlanOK(Plan(c), card[c]),
           NEW n \in Nat, DOMAIN Plan(c) = 1 .. n, at[c] \in 1 .. n,
           NamesAfter(c, at[c] - 1),
           NEW k \in Campaigns, acct[k].name = Step(c).camp
    PROVE  origin[c][k].name = Step(c).camp
<1>1. SUFFICES ASSUME NEW i \in 1 .. at[c] - 1, MovedTo(c, i, k) PROVE FALSE
  BY DEF NamesAfter
<1>2. i \in 1 .. n /\ i < at[c]
  BY <1>1
<1>3. Renames(Plan(c)[i]) /\ Plan(c)[i].to = Plan(c)[at[c]].camp
  BY <1>1 DEF MovedTo, Step
<1>4. Renames(Plan(c)[at[c]])
  BY <1>2, <1>3 DEF PlanOK
<1> QED
  BY <1>2, <1>3, <1>4 DEF PlanOK

\* What a snapshot reads, in an account whose names are apart.
LEMMA SnapshotReads ==
    ASSUME NEW a, NamesApart(a), NEW k \in Campaigns, NEW s, a[k].name = s.camp,
           s.op \in GroupOps => s.group \in Groups
    PROVE  /\ Found(a, s) /\ Snapshot(a, s).ok
           /\ Snapshot(a, s).before = Value(a[k], s) /\ Snapshot(a, s).own = OwnBid(a[k], s)
           /\ Request(a, s).id = k
<1> DEFINE id == CHOOSE x \in Named(a, s.camp) : TRUE
<1>1. k \in Named(a, s.camp)
  BY DEF Named
<1>2. id \in Named(a, s.camp)
  BY <1>1
<1>3. id = k
  BY <1>2 DEF Named, NamesApart
<1>4. Found(a, s)
  BY <1>1 DEF Found
<1>5. Request(a, s).id = id
  BY DEF Request
<1>6. /\ Snapshot(a, s).ok /\ Snapshot(a, s).before = Value(a[id], s)
      /\ Snapshot(a, s).own = OwnBid(a[id], s)
  BY <1>4 DEF Snapshot
<1> HIDE DEF id
<1> QED
  BY <1>3, <1>4, <1>5, <1>6

\* The base of the step that is sent was there at the claim.
LEMMA SentBaseIsTrue ==
    ASSUME NEW c \in Proposals, HistoryOK(c), NamesApart(acct), PlanOK(Plan(c), card[c]),
           BasesHeld(c), at[c] \in DOMAIN Plan(c), Line(Step(c), Shown(c)), FreshNow(c),
           Step(c).op \in GroupOps => Step(c).group \in Groups,
           NEW k \in Campaigns, acct[k].name = Step(c).camp, origin[c][k].name = Step(c).camp,
           At(acct[k], Slot(Step(c))) = At(origin[c][k], Slot(Step(c)))
    PROVE  Shown(c).before = At(origin[c][k], Slot(Step(c)))
<1> DEFINE s == Step(c)
           live == Snapshot(acct, s)
           then == Snapshot(origin[c], s)
<1>1. NamesApart(origin[c])
  BY DEF HistoryOK
<1>2. live.ok /\ live.before = Value(acct[k], s)
  BY SnapshotReads
<1>3. then.ok /\ then.before = Value(origin[c][k], s) /\ then.own = OwnBid(origin[c][k], s)
  BY <1>1, SnapshotReads
<1>4. s.op \in MoneyOps => /\ s.mode = "set_to" => then.before = Shown(c).before
                           /\ then.own = Shown(c).own
  BY <1>3 DEF BasesHeld, Step, Shown
<1>5. s.op = "update_keyword_bid" => Shown(c).own
  BY DEF PlanOK, Step, Shown
<1>6. s.op \in RollbackableOps /\ Shown(c).ok
  BY DEF Line
<1>7. SameBase(s, Shown(c), live)
  BY <1>2, <1>6 DEF FreshNow, FreshStep
<1> HIDE DEF s, live, then
<1>8. s.op = "update_keyword_bid" => origin[c][k].groups[s.group].key # Inherit
  BY <1>3, <1>4, <1>5 DEF MoneyOps, OwnBid
<1>9. s.op = "update_keyword_bid" => acct[k].groups[s.group].key # Inherit
  <2>1. SUFFICES ASSUME s.op = "update_keyword_bid" PROVE acct[k].groups[s.group].key # Inherit
    OBVIOUS
  <2>2. Slot(s) = <<"key", s.group>>
    BY <2>1 DEF Slot, Field, GroupOps, CampaignStatusOps, GroupStatusOps, AdStatusOps
  <2>3. \A x : At(x, <<"key", s.group>>) = x.groups[s.group].key
    BY DEF At
  <2>4. At(acct[k], Slot(s)) = At(origin[c][k], Slot(s))
    BY DEF s
  <2> QED
    BY <1>8, <2>1, <2>2, <2>3, <2>4
<1>10. Value(acct[k], s) = At(acct[k], Slot(s)) /\ Value(origin[c][k], s) = At(origin[c][k], Slot(s))
  BY <1>6, <1>8, <1>9, ReadIsSlot
<1>11. Shown(c).before = live.before \/ Shown(c).before = then.before
  BY <1>4, <1>7 DEF SameBase
<1> QED
  BY <1>2, <1>3, <1>10, <1>11 DEF s

LEMMA SendStepRestores ==
    ASSUME NEW c \in Proposals, HistoryShape, Shape, AccountOK, NamesApart(acct), PackageOK(c),
           RestoreOK(c), SendStep(c)
    PROVE  RestoreOK(c)'
<1> DEFINE n == Len(Plan(c))
           s == Step(c)
           k == CHOOSE x \in Named(acct, s.camp) : TRUE
<1>1. /\ pc[c] = "gates" /\ call[c] = "none" /\ at[c] > 0 /\ draft[c] \in Packages
      /\ status[c] \in Claimed /\ Found(acct, s) /\ FreshNow(c)
  BY DEF SendStep, PackageOK, Claimed
<1>2. /\ pc'[c] = "call" /\ at'[c] = at[c] /\ call'[c] = "flying"
      /\ request'[c] = Request(acct, s)
      /\ draft' = draft /\ status' = status /\ card' = card /\ acct' = acct /\ origin' = origin
      /\ touched' = touched /\ lost' = lost /\ adrift' = adrift /\ clean' = clean
  BY DEF SendStep, Issue, Move, Shape, storeVars, packageAccount, packageHistory
<1>3. /\ Line(s, Shown(c)) /\ s.op \in RollbackableOps
      /\ at[c] \in 1 .. n /\ n \in Nat
  BY <1>1, StepOfPlan
<1>4. DOMAIN Plan(c) = 1 .. n
  BY <1>1, PlanShape DEF Plan
<1>5. k \in Campaigns /\ acct[k].name = s.camp /\ (s.op \in GroupOps => s.group \in Groups)
  BY <1>1 DEF Found, Named
<1>6. /\ Request(acct, s).id = k /\ Request(acct, s).op = s.op /\ Request(acct, s).group = s.group
  BY DEF Request
<1>7. HistoryOK(c) /\ PlanOK(Plan(c), card[c])
  BY <1>1 DEF RestoreOK, Claimed
<1> HIDE DEF k
<1>8. /\ Plan(c)' = Plan(c) /\ (Launches(c)' <=> Launches(c)) /\ (BasesHeld(c)' <=> BasesHeld(c))
      /\ \A m : /\ BasesTrue(c, m) => BasesTrue(c, m)'
                /\ NamesAfter(c, m) => NamesAfter(c, m)'
                /\ ValuesAfter(c, m) => ValuesAfter(c, m)'
  BY <1>2, SameView
<1>9. Step(c)' = s
  BY <1>2, <1>8 DEF Step
<1>10. Done(c) = at[c] - 1 /\ Compared(c) = at[c] - 1 /\ Done(c)' = at[c] - 1 /\ Compared(c)' = at[c]
  BY <1>1, <1>2 DEF Done, Compared
<1>11. Undisturbed(c)' => Undisturbed(c)
  BY <1>1, <1>2 DEF Undisturbed, Alone, Backwards
<1>12. HistoryOK(c)'
  BY <1>2, <1>1, <1>7 DEF HistoryOK, WellFormed, NamesApart, Alone, Forwards
<1>13. ASSUME Undisturbed(c)'
       PROVE  origin[c][k].name = s.camp /\ NamesAfter(c, Done(c))' /\ Aimed(c)'
  <2>1. NamesAfter(c, at[c] - 1)
    BY <1>1, <1>10, <1>11, <1>13 DEF RestoreOK
  <2>2. origin[c][k].name = s.camp
    BY <1>3, <1>4, <1>5, <1>7, <2>1, StepFindsItsOwn
  <2>3. Slot(Request(acct, s)) = Slot(s)
    BY <1>6 DEF Slot
  <2>4. Slot(s) \in Slots
    BY <1>3, <1>5, SlotOfStep
  <2> HIDE DEF s
  <2>5. Aimed(c)'
    BY <1>2, <1>5, <1>6, <1>9, <2>2, <2>3, <2>4 DEF Aimed
  <2> QED
    BY <1>8, <1>10, <2>1, <2>2, <2>5
<1>14. ASSUME Restorable(c)'
       PROVE  ValuesAfter(c, Done(c))' /\ BasesTrue(c, Compared(c))'
  <2>1. Restorable(c) /\ Undisturbed(c)' /\ BasesHeld(c)
    BY <1>8, <1>11, <1>14 DEF Restorable
  <2>2. ValuesAfter(c, at[c] - 1) /\ BasesTrue(c, at[c] - 1)
    BY <1>1, <1>10, <2>1 DEF RestoreOK
  <2>3. origin[c][k].name = s.camp
    BY <1>13, <2>1
  <2>4. Shown(c).before = At(origin[c][k], Slot(s))
    <3>1. CASE \E j \in 1 .. at[c] - 1 : Slot(Plan(c)[j]) = Slot(s) /\ Plan(c)[j].camp = s.camp
      <4>1. PICK j \in 1 .. at[c] - 1 : Slot(Plan(c)[j]) = Slot(s) /\ Plan(c)[j].camp = s.camp
        BY <3>1
      <4>2. j \in 1 .. n
        BY <1>3, <4>1
      <4>3. card[c][j].before = Shown(c).before
        BY <1>3, <1>4, <1>7, <4>1, <4>2 DEF PlanOK, Step, Shown
      <4>4. card[c][j].before = At(origin[c][k], Slot(s))
        BY <1>5, <2>2, <2>3, <4>1 DEF BasesTrue
      <4> QED
        BY <4>3, <4>4
    <3>2. CASE ~\E j \in 1 .. at[c] - 1 : Slot(Plan(c)[j]) = Slot(s) /\ Plan(c)[j].camp = s.camp
      <4>1. Slot(s) \in Slots
        BY <1>3, <1>5, SlotOfStep
      <4>2. At(acct[k], Slot(s)) = At(origin[c][k], Slot(s))
        BY <1>5, <2>2, <2>3, <3>2, <4>1 DEF ValuesAfter
      <4> QED
        BY <1>1, <1>3, <1>4, <1>5, <1>7, <2>1, <2>3, <4>2, SentBaseIsTrue
    <3> QED
      BY <3>1, <3>2
  <2>5. ASSUME NEW l \in Campaigns, NEW i \in 1 .. at[c], origin[c][l].name = Plan(c)[i].camp
        PROVE  card[c][i].before = At(origin[c][l], Slot(Plan(c)[i]))
    <3>1. CASE i = at[c]
      <4>1. l = k
        BY <1>5, <1>7, <2>3, <2>5, <3>1 DEF HistoryOK, NamesApart, Step
      <4> QED
        BY <2>4, <3>1, <4>1 DEF Step, Shown
    <3>2. CASE i # at[c]
      <4>1. i \in 1 .. at[c] - 1
        BY <1>3, <2>5, <3>2
      <4> QED
        BY <2>2, <2>5, <4>1 DEF BasesTrue
    <3> QED
      BY <3>1, <3>2
  <2>6. BasesTrue(c, at[c])
    BY <2>5 DEF BasesTrue
  <2> QED
    BY <1>8, <1>10, <2>2, <2>6
<1>15. PlanOK(Plan(c), card[c])'
  BY <1>2, <1>7, <1>8
<1>16. FailureOK(c)'
  BY <1>1, <1>2 DEF FailureOK, Claimed
<1> QED
  BY <1>2, <1>12, <1>13, <1>14, <1>15, <1>16 DEF RestoreOK, Restorable

LEMMA SendUndoRestores ==
    ASSUME NEW c \in Proposals, HistoryShape, Shape, AccountOK, NamesApart(acct), PackageOK(c),
           RestoreOK(c), SendUndo(c)
    PROVE  RestoreOK(c)'
<1> DEFINE n == Len(Plan(c))
           s == Step(c)
<1>1. /\ pc[c] = "rebuild" /\ call[c] = "none" /\ at[c] > 0 /\ draft[c] \in Packages
      /\ status[c] \in Claimed
  BY DEF SendUndo, PackageOK, Claimed
<1>2. PICK u \in ReverseSpec(s, Shown(c)) : Found(acct, u) /\ Issue(c, Request(acct, u))
  BY DEF SendUndo
<1> DEFINE k == CHOOSE x \in Named(acct, u.camp) : TRUE
<1>3. /\ pc'[c] = "undo" /\ at'[c] = at[c] /\ call'[c] = "flying"
      /\ request'[c] = Request(acct, u)
      /\ draft' = draft /\ status' = status /\ card' = card /\ acct' = acct /\ origin' = origin
      /\ touched' = touched /\ lost' = lost /\ adrift' = adrift /\ clean' = clean
  BY <1>2 DEF SendUndo, Issue, Move, Shape, storeVars, packageAccount, packageHistory
<1>4. /\ Line(s, Shown(c)) /\ s.op \in RollbackableOps
      /\ at[c] \in 1 .. n /\ n \in Nat
  BY <1>1, StepOfPlan
<1>5. DOMAIN Plan(c) = 1 .. n
  BY <1>1, PlanShape DEF Plan
<1>6. /\ u.group = s.group /\ u.camp = (IF Renames(s) THEN s.to ELSE s.camp)
      /\ u.op \in GroupOps <=> s.op \in GroupOps
      /\ Slot(u) = Slot(s) /\ u.op # "launch_campaign"
  BY <1>2, <1>4, UndoIsAimed
<1>7. k \in Campaigns /\ acct[k].name = u.camp /\ (s.op \in GroupOps => s.group \in Groups)
  BY <1>2, <1>6 DEF Found, Named
<1>8. /\ Request(acct, u).id = k /\ Request(acct, u).op = u.op /\ Request(acct, u).group = u.group
  BY DEF Request
<1>9. HistoryOK(c) /\ PlanOK(Plan(c), card[c])
  BY <1>1 DEF RestoreOK, Claimed
<1> HIDE DEF k
<1>10. /\ Plan(c)' = Plan(c) /\ (Launches(c)' <=> Launches(c)) /\ (BasesHeld(c)' <=> BasesHeld(c))
       /\ \A m : /\ BasesTrue(c, m) => BasesTrue(c, m)'
                 /\ NamesAfter(c, m) => NamesAfter(c, m)'
                 /\ ValuesAfter(c, m) => ValuesAfter(c, m)'
  BY <1>3, SameView
<1>11. Step(c)' = s
  BY <1>3, <1>10 DEF Step
<1>12. Done(c) = at[c] /\ Compared(c) = at[c] /\ Done(c)' = at[c] /\ Compared(c)' = at[c]
  BY <1>1, <1>3 DEF Done, Compared
<1>13. Undisturbed(c)' => Undisturbed(c)
  BY <1>1, <1>3 DEF Undisturbed, Alone, Backwards
<1>14. HistoryOK(c)'
  BY <1>3, <1>1, <1>9 DEF HistoryOK, WellFormed, NamesApart, Alone, Forwards, Claimed
<1>15. ASSUME Undisturbed(c)'
       PROVE  NamesAfter(c, Done(c))' /\ Aimed(c)'
  <2>1. NamesAfter(c, at[c])
    BY <1>1, <1>12, <1>13, <1>15 DEF RestoreOK
  <2>2. origin[c][k].name = s.camp
    <3>1. CASE Renames(s)
      <4>1. PICK l \in Campaigns : MovedTo(c, at[c], l)
        BY <1>4, <2>1, <3>1 DEF NamesAfter, Step
      <4>2. acct[l].name = acct[k].name /\ origin[c][l].name = s.camp
        BY <1>6, <1>7, <3>1, <4>1 DEF MovedTo, Step
      <4> QED
        BY <1>7, <4>2 DEF NamesApart
    <3>2. CASE ~Renames(s)
      <4>1. ASSUME NEW i \in 1 .. at[c], MovedTo(c, i, k) PROVE FALSE
        <5>1. i \in 1 .. n /\ Renames(Plan(c)[i]) /\ (i < at[c] \/ i = at[c])
          BY <1>4, <4>1 DEF MovedTo
        <5> QED
          BY <1>4, <1>5, <1>9, <3>2, <5>1 DEF PlanOK, Step
      <4> QED
        BY <1>6, <1>7, <2>1, <3>2, <4>1 DEF NamesAfter
    <3> QED
      BY <3>1, <3>2
  <2>3. Slot(Request(acct, u)) = Slot(s)
    BY <1>6, <1>8 DEF Slot
  <2>4. Slot(s) \in Slots
    BY <1>4, <1>7, SlotOfStep
  <2> HIDE DEF s
  <2>5. Aimed(c)'
    BY <1>3, <1>6, <1>7, <1>8, <1>11, <2>2, <2>3, <2>4 DEF Aimed
  <2> QED
    BY <1>10, <1>12, <2>1, <2>5
<1>16. ASSUME Restorable(c)'
       PROVE  ValuesAfter(c, Done(c))' /\ BasesTrue(c, Compared(c))'
  <2>1. Restorable(c)
    BY <1>10, <1>13, <1>16 DEF Restorable
  <2>2. ValuesAfter(c, at[c]) /\ BasesTrue(c, at[c])
    BY <1>1, <1>12, <2>1 DEF RestoreOK
  <2> QED
    BY <1>10, <1>12, <2>2
<1>17. PlanOK(Plan(c), card[c])'
  BY <1>3, <1>9, <1>10
<1>18. FailureOK(c)'
  BY <1>1, <1>3 DEF FailureOK, Claimed
<1> QED
  BY <1>3, <1>14, <1>15, <1>16, <1>17, <1>18 DEF RestoreOK, Restorable

\* What is read in the account when a call of the package has landed.
LEMMA LandingReads ==
    ASSUME NEW c \in Proposals, AccountOK, Understood(request[c]), Aimed(c),
           acct' = Applied(acct, request[c]), Line(Step(c), Shown(c)),
           Step(c).op \in RollbackableOps,
           request[c].value \in {Shown(c).before, Shown(c).after}
    PROVE  /\ \A k \in Campaigns : k # request[c].id => acct'[k] = acct[k]
           /\ acct'[request[c].id].name =
                IF Renames(Step(c)) THEN request[c].value ELSE acct[request[c].id].name
           /\ request[c].op # "launch_campaign" => \A slot \in Slots :
                At(acct'[request[c].id], slot) =
                    IF slot = Slot(Step(c)) THEN request[c].value
                    ELSE At(acct[request[c].id], slot)
<1> DEFINE r == request[c]
           s == Step(c)
<1>1. /\ WellFormed(acct) /\ r.id \in Campaigns /\ r.op \in RollbackableOps
      /\ Slot(r) = Slot(s) /\ Slot(r) \in Slots
  BY DEF AccountOK, Aimed, Understood
<1>2. /\ \A k \in Campaigns : k # r.id => acct'[k] = acct[k]
      /\ acct'[r.id] = Changed(acct[r.id], r)
      /\ acct'[r.id].name = IF r.op = "update_campaign" THEN r.value ELSE acct[r.id].name
  BY <1>1, AppliedParts
<1>3. /\ Renames(s) <=> r.op = "update_campaign"
      /\ s.op = "update_bid" <=> r.op = "update_bid"
  BY <1>1, SlotKinds DEF Renames
<1>4. r.op \in GroupOps => r.group \in Groups
  <2>1. SUFFICES ASSUME r.op \in GroupOps PROVE r.group \in Groups
    OBVIOUS
  <2>2. Slot(r) = <<Field(r.op), r.group>>
    BY <2>1 DEF Slot
  <2>3. Field(r.op) \in {"key", "group", "ad"}
    BY <2>1 DEF Field, GroupOps, CampaignStatusOps, GroupStatusOps, AdStatusOps
  <2>4. \A x, y : <<x, y>> \in Slots /\ x \in {"key", "group", "ad"} => y \in Groups
    BY DEF Slots
  <2> HIDE DEF r, s
  <2> QED
    BY <1>1, <2>2, <2>3, <2>4
<1>5. r.op = "update_bid" => r.value = [g \in Groups |-> r.value[g]]
  <2>1. SUFFICES ASSUME r.op = "update_bid" PROVE r.value = [g \in Groups |-> r.value[g]]
    OBVIOUS
  <2>2. Shown(c).before = [g \in Groups |-> Shown(c).before[g]]
    BY <1>3, <2>1 DEF Line
  <2>3. Shown(c).after = [g \in Groups |-> Shown(c).after[g]]
    BY <1>3, <2>1 DEF Line, From
  <2> QED
    BY <2>2, <2>3
<1>6. WellFormedCampaign(acct[r.id])
  BY <1>1 DEF WellFormed
<1>7. ASSUME r.op # "launch_campaign", NEW slot \in Slots
      PROVE  At(acct'[r.id], slot) = IF slot = Slot(s) THEN r.value ELSE At(acct[r.id], slot)
  BY <1>1, <1>2, <1>4, <1>5, <1>6, <1>7, OneSlotChanges
<1> QED
  BY <1>2, <1>3, <1>7

\* Step p of the plan has reached the campaign x it is about.
LEMMA NamesAfterStep ==
    ASSUME NEW c \in Proposals, NEW n \in Nat, DOMAIN Plan(c) = 1 .. n, NEW p \in 1 .. n,
           PlanOK(Plan(c), card[c]), Plan(c)' = Plan(c), origin'[c] = origin[c],
           NEW x \in Campaigns, origin[c][x].name = Plan(c)[p].camp,
           acct[x].name = Plan(c)[p].camp,
           \A k \in Campaigns : k # x => acct'[k] = acct[k],
           acct'[x].name = IF Renames(Plan(c)[p]) THEN Plan(c)[p].to ELSE acct[x].name,
           NamesAfter(c, p - 1)
    PROVE  NamesAfter(c, p)'
<1> DEFINE plan == Plan(c)
<1>1. \A i \in 1 .. p : i = p \/ i \in 1 .. p - 1
  OBVIOUS
<1>2. \A i \in 1 .. p - 1 : i \in 1 .. p /\ i \in 1 .. n /\ i # p
  OBVIOUS
<1>3. p \in 1 .. p
  OBVIOUS
<1>4. ASSUME NEW i, NEW k
      PROVE  MovedTo(c, i, k)' <=> /\ Renames(plan[i]) /\ origin[c][k].name = plan[i].camp
                                   /\ acct'[k].name = plan[i].to
  BY DEF MovedTo
<1>5. ASSUME NEW i \in 1 .. p - 1, NEW k \in Campaigns, MovedTo(c, i, k)
      PROVE  MovedTo(c, i, k)'
  <2>1. CASE k # x \/ ~Renames(plan[p])
    <3>1. acct'[k].name = acct[k].name
      BY <2>1
    <3> QED
      BY <1>4, <1>5, <3>1 DEF MovedTo
  <2>2. CASE k = x /\ Renames(plan[p])
    <3>1. Renames(plan[i]) /\ plan[i].to = plan[p].camp
      BY <1>5, <2>2 DEF MovedTo
    <3> QED
      BY <1>2, <2>2, <3>1 DEF PlanOK
  <2> QED
    BY <2>1, <2>2
<1>6. Renames(plan[p]) => MovedTo(c, p, x)'
  BY <1>4
<1>7. ASSUME NEW k \in Campaigns
      PROVE  acct'[k].name = origin[c][k].name \/ \E i \in 1 .. p : MovedTo(c, i, k)'
  <2>1. CASE k = x /\ Renames(plan[p])
    BY <1>3, <1>6, <2>1
  <2>2. CASE k # x \/ ~Renames(plan[p])
    <3>1. acct'[k].name = acct[k].name
      BY <2>2
    <3>2. acct[k].name = origin[c][k].name \/ \E i \in 1 .. p - 1 : MovedTo(c, i, k)
      BY DEF NamesAfter
    <3> QED
      BY <1>2, <1>5, <3>1, <3>2
  <2> QED
    BY <2>1, <2>2
<1>8. ASSUME NEW i \in 1 .. p, Renames(plan[i])
      PROVE  \E k \in Campaigns : MovedTo(c, i, k)'
  <2>1. CASE i = p
    BY <1>6, <1>8, <2>1
  <2>2. CASE i \in 1 .. p - 1
    BY <1>5, <1>8, <2>2 DEF NamesAfter
  <2> QED
    BY <1>1, <2>1, <2>2
<1> QED
  BY <1>7, <1>8 DEF NamesAfter

\* ... or has been taken back from it.
LEMMA NamesAfterUndo ==
    ASSUME NEW c \in Proposals, NEW n \in Nat, DOMAIN Plan(c) = 1 .. n, NEW p \in 1 .. n,
           PlanOK(Plan(c), card[c]), Plan(c)' = Plan(c), origin'[c] = origin[c],
           NamesApart(acct),
           NEW x \in Campaigns, origin[c][x].name = Plan(c)[p].camp,
           Renames(Plan(c)[p]) => acct[x].name = Plan(c)[p].to,
           \A k \in Campaigns : k # x => acct'[k] = acct[k],
           acct'[x].name = IF Renames(Plan(c)[p]) THEN Plan(c)[p].camp ELSE acct[x].name,
           NamesAfter(c, p)
    PROVE  NamesAfter(c, p - 1)'
<1> DEFINE plan == Plan(c)
<1>1. \A i \in 1 .. p : i = p \/ i \in 1 .. p - 1
  OBVIOUS
<1>2. \A i \in 1 .. p - 1 : i \in 1 .. p /\ i \in 1 .. n /\ i < p /\ i # p
  OBVIOUS
<1>3. ASSUME NEW i, NEW k
      PROVE  MovedTo(c, i, k)' <=> /\ Renames(plan[i]) /\ origin[c][k].name = plan[i].camp
                                   /\ acct'[k].name = plan[i].to
  BY DEF MovedTo
<1>4. ASSUME NEW i \in 1 .. p - 1, NEW k \in Campaigns, MovedTo(c, i, k)
      PROVE  MovedTo(c, i, k)'
  <2>1. Renames(plan[i]) /\ Renames(plan[p])
    BY <1>2, <1>4 DEF MovedTo, PlanOK
  <2>2. CASE k # x
    BY <1>3, <1>4, <2>2 DEF MovedTo
  <2>3. CASE k = x
    <3>1. plan[i].to = plan[p].to
      BY <1>4, <2>1, <2>3 DEF MovedTo
    <3> QED
      BY <1>2, <2>1, <3>1 DEF PlanOK
  <2> QED
    BY <2>2, <2>3
<1>5. ASSUME NEW k \in Campaigns
      PROVE  acct'[k].name = origin[c][k].name \/ \E i \in 1 .. p - 1 : MovedTo(c, i, k)'
  <2>1. CASE k = x /\ Renames(plan[p])
    BY <2>1
  <2>2. CASE k # x \/ ~Renames(plan[p])
    <3>1. acct'[k].name = acct[k].name
      BY <2>2
    <3>2. acct[k].name = origin[c][k].name \/ \E i \in 1 .. p : MovedTo(c, i, k)
      BY DEF NamesAfter
    <3>3. ~MovedTo(c, p, k)
      BY <2>2 DEF MovedTo, NamesApart
    <3> QED
      BY <1>1, <1>4, <3>1, <3>2, <3>3
  <2> QED
    BY <2>1, <2>2
<1>6. ASSUME NEW i \in 1 .. p - 1, Renames(plan[i])
      PROVE  \E k \in Campaigns : MovedTo(c, i, k)'
  BY <1>2, <1>4, <1>6 DEF NamesAfter
<1> QED
  BY <1>5, <1>6 DEF NamesAfter

LEMMA ValuesAfterStep ==
    ASSUME NEW c \in Proposals, NEW p \in Nat \ {0},
           Plan(c)' = Plan(c), origin'[c] = origin[c],
           NEW x \in Campaigns, origin[c][x].name = Plan(c)[p].camp,
           \A k \in Campaigns : k # x => acct'[k] = acct[k],
           \A slot \in Slots : slot # Slot(Plan(c)[p]) => At(acct'[x], slot) = At(acct[x], slot),
           ValuesAfter(c, p - 1)
    PROVE  ValuesAfter(c, p)'
<1>1. p \in 1 .. p /\ \A i \in 1 .. p - 1 : i \in 1 .. p
  OBVIOUS
<1>2. ASSUME NEW k \in Campaigns, NEW slot \in Slots
      PROVE  \/ At(acct'[k], slot) = At(origin[c][k], slot)
             \/ \E i \in 1 .. p : Slot(Plan(c)[i]) = slot /\ Plan(c)[i].camp = origin[c][k].name
  <2>1. CASE k = x /\ slot = Slot(Plan(c)[p])
    BY <1>1, <2>1
  <2>2. CASE k # x \/ slot # Slot(Plan(c)[p])
    <3>1. At(acct'[k], slot) = At(acct[k], slot)
      BY <2>2
    <3> QED
      BY <1>1, <3>1 DEF ValuesAfter
  <2> QED
    BY <2>1, <2>2
<1> QED
  BY <1>2 DEF ValuesAfter

LEMMA ValuesAfterUndo ==
    ASSUME NEW c \in Proposals, NEW p \in Nat \ {0}, NamesApart(origin[c]),
           Plan(c)' = Plan(c), origin'[c] = origin[c],
           NEW x \in Campaigns, origin[c][x].name = Plan(c)[p].camp,
           \A k \in Campaigns : k # x => acct'[k] = acct[k],
           \A slot \in Slots : slot # Slot(Plan(c)[p]) => At(acct'[x], slot) = At(acct[x], slot),
           Slot(Plan(c)[p]) \in Slots,
           At(acct'[x], Slot(Plan(c)[p])) = At(origin[c][x], Slot(Plan(c)[p])),
           ValuesAfter(c, p)
    PROVE  ValuesAfter(c, p - 1)'
<1>1. \A i \in 1 .. p : i = p \/ i \in 1 .. p - 1
  OBVIOUS
<1>2. ASSUME NEW k \in Campaigns, NEW slot \in Slots
      PROVE  \/ At(acct'[k], slot) = At(origin[c][k], slot)
             \/ \E i \in 1 .. p - 1 :
                    Slot(Plan(c)[i]) = slot /\ Plan(c)[i].camp = origin[c][k].name
  <2>1. CASE k = x /\ slot = Slot(Plan(c)[p])
    BY <2>1
  <2>2. CASE k # x \/ slot # Slot(Plan(c)[p])
    <3>1. At(acct'[k], slot) = At(acct[k], slot)
      BY <2>2
    <3>2. ~(Slot(Plan(c)[p]) = slot /\ Plan(c)[p].camp = origin[c][k].name)
      BY <2>2 DEF NamesApart
    <3> QED
      BY <1>1, <3>1, <3>2 DEF ValuesAfter
  <2> QED
    BY <2>1, <2>2
<1> QED
  BY <1>2 DEF ValuesAfter

LEMMA LandingRestores ==
    ASSUME NEW c \in Proposals, HistoryShape, Shape, AccountOK, NamesApart(acct), PackageOK(c),
           RestoreOK(c), ServerApplies(c)
    PROVE  RestoreOK(c)'
<1> PICK n, p, r, s : n = Len(Plan(c)) /\ p = at[c] /\ r = request[c] /\ s = Step(c)
  OBVIOUS
<1> DEFINE x == r.id
<1>1. /\ call[c] = "flying" /\ pc[c] \in {"call", "undo"} /\ at[c] > 0 /\ draft[c] \in Packages
      /\ status[c] \in Claimed /\ Understood(r)
      /\ pc[c] = "call" => r.value = Shown(c).after
      /\ pc[c] = "undo" => r.value = Shown(c).before
  BY DEF ServerApplies, PackageOK, Claimed
<1>2. /\ pc' = pc /\ at' = at /\ call'[c] = "landed" /\ acct' = Applied(acct, r)
      /\ draft' = draft /\ status' = status /\ card' = card /\ origin' = origin
      /\ lost' = lost /\ adrift' = adrift /\ clean' = clean /\ touched'[c] = touched[c]
  BY DEF ServerApplies, Count, ByOne, Shape, HistoryShape, storeVars
<1>3. /\ Line(s, Shown(c)) /\ s.op \in RollbackableOps
      /\ p \in 1 .. n /\ n \in Nat
  BY <1>1, StepOfPlan
<1>4. DOMAIN Plan(c) = 1 .. n
  BY <1>1, PlanShape DEF Plan
<1>5. HistoryOK(c) /\ PlanOK(Plan(c), card[c])
  BY <1>1 DEF RestoreOK, Claimed
<1>6. /\ Plan(c)' = Plan(c) /\ (Launches(c)' <=> Launches(c)) /\ (BasesHeld(c)' <=> BasesHeld(c))
      /\ \A m : BasesTrue(c, m) => BasesTrue(c, m)'
  BY <1>2, SameView
<1>7. Undisturbed(c)' => Undisturbed(c)
  BY <1>2 DEF Undisturbed, Alone
<1>8. /\ pc[c] = "call" => /\ Done(c) = p - 1 /\ Done(c)' = p /\ Compared(c) = p /\ Compared(c)' = p
      /\ pc[c] = "undo" => /\ Done(c) = p /\ Done(c)' = p - 1 /\ Compared(c) = p
                           /\ Compared(c)' = p - 1
  BY <1>1, <1>2 DEF Done, Compared
<1>9. HistoryOK(c)'
  BY <1>1, <1>2, <1>5 DEF HistoryOK, WellFormed, NamesApart, Claimed
<1>10. s = Plan(c)[p] /\ Shown(c) = card[c][p]
  BY DEF Step, Shown
<1>11. Undisturbed(c) => Aimed(c) /\ NamesAfter(c, Done(c))
  BY <1>1 DEF RestoreOK
<1>12. Aimed(c) =>
         /\ x \in Campaigns /\ origin[c][x].name = s.camp /\ Slot(s) \in Slots
         /\ pc[c] = "call" => acct[x].name = s.camp /\ r.op = s.op
         /\ pc[c] = "undo" => r.op # "launch_campaign" /\ (Renames(s) => acct[x].name = s.to)
  BY DEF Aimed
<1>13. Aimed(c) =>
         /\ \A k \in Campaigns : k # x => acct'[k] = acct[k]
         /\ acct'[x].name = IF Renames(s) THEN r.value ELSE acct[x].name
         /\ r.op # "launch_campaign" => \A slot \in Slots :
              At(acct'[x], slot) = IF slot = Slot(s) THEN r.value ELSE At(acct[x], slot)
  BY <1>1, <1>2, <1>3, LandingReads
<1> HIDE DEF x
<1>14. Renames(s) => Shown(c).after = s.to /\ Shown(c).before = s.camp
  BY <1>3, <1>4, <1>5, <1>10 DEF Line, From, Renames, MoneyOps, PlanOK
<1>15. ASSUME Undisturbed(c) PROVE NamesAfter(c, Done(c))'
  <2>1. CASE pc[c] = "call"
    <3>1. acct'[x].name = IF Renames(s) THEN s.to ELSE acct[x].name
      BY <1>1, <1>11, <1>13, <1>14, <1>15, <2>1
    <3>2. NamesAfter(c, p - 1)
      BY <1>8, <1>11, <1>15, <2>1
    <3>3. /\ x \in Campaigns /\ origin[c][x].name = s.camp /\ acct[x].name = s.camp
          /\ \A k \in Campaigns : k # x => acct'[k] = acct[k]
      BY <1>11, <1>12, <1>13, <1>15, <2>1
    <3>4. NamesAfter(c, p)'
      BY <1>2, <1>3, <1>4, <1>5, <1>6, <1>10, <3>1, <3>2, <3>3, NamesAfterStep
    <3> QED
      BY <1>8, <2>1, <3>4
  <2>2. CASE pc[c] = "undo"
    <3>1. acct'[x].name = IF Renames(s) THEN s.camp ELSE acct[x].name
      BY <1>1, <1>11, <1>13, <1>14, <1>15, <2>2
    <3>2. NamesAfter(c, p)
      BY <1>8, <1>11, <1>15, <2>2
    <3>3. /\ x \in Campaigns /\ origin[c][x].name = s.camp
          /\ Renames(s) => acct[x].name = s.to
          /\ \A k \in Campaigns : k # x => acct'[k] = acct[k]
      BY <1>11, <1>12, <1>13, <1>15, <2>2
    <3>4. NamesAfter(c, p - 1)'
      BY <1>2, <1>3, <1>4, <1>5, <1>6, <1>10, <3>1, <3>2, <3>3, NamesAfterUndo
    <3> QED
      BY <1>8, <2>2, <3>4
  <2> QED
    BY <1>1, <2>1, <2>2
<1>16. ASSUME Restorable(c) PROVE ValuesAfter(c, Done(c))' /\ BasesTrue(c, Compared(c))'
  <2>1. Undisturbed(c) /\ Aimed(c) /\ ~Launches(c)
    BY <1>11, <1>16 DEF Restorable
  <2>2. ValuesAfter(c, Done(c)) /\ BasesTrue(c, Compared(c))
    BY <1>1, <1>16 DEF RestoreOK
  <2>3. s.op # "launch_campaign"
    BY <1>3, <1>4, <1>10, <2>1 DEF Launches
  <2>4. r.op # "launch_campaign"
    BY <1>1, <1>12, <2>1, <2>3
  <2>5. /\ x \in Campaigns /\ origin[c][x].name = s.camp /\ Slot(s) \in Slots
        /\ \A k \in Campaigns : k # x => acct'[k] = acct[k]
        /\ \A slot \in Slots : slot # Slot(s) => At(acct'[x], slot) = At(acct[x], slot)
        /\ At(acct'[x], Slot(s)) = r.value
    BY <1>12, <1>13, <2>1, <2>4
  <2>6. p \in Nat \ {0}
    BY <1>3
  <2>7. CASE pc[c] = "call"
    <3>1. ValuesAfter(c, p - 1) /\ BasesTrue(c, p)
      BY <1>8, <2>2, <2>7
    <3>2. BasesTrue(c, p)'
      BY <1>6, <3>1
    <3>3. ValuesAfter(c, p)'
      BY <1>2, <1>6, <1>10, <2>5, <2>6, <3>1, ValuesAfterStep
    <3> QED
      BY <1>8, <2>7, <3>2, <3>3
  <2>8. CASE pc[c] = "undo"
    <3>1. ValuesAfter(c, p) /\ BasesTrue(c, p)
      BY <1>8, <2>2, <2>8
    <3>2. BasesTrue(c, p - 1)
      BY <2>6, <3>1 DEF BasesTrue
    <3>3. BasesTrue(c, p - 1)'
      BY <1>6, <3>2
    <3>4. p \in 1 .. p
      BY <2>6
    <3>5. r.value = At(origin[c][x], Slot(s))
      BY <1>1, <1>10, <2>5, <2>8, <3>1, <3>4 DEF BasesTrue
    <3>6. NamesApart(origin[c])
      BY <1>5 DEF HistoryOK
    <3>7. ValuesAfter(c, p - 1)'
      BY <1>2, <1>6, <1>10, <2>5, <2>6, <3>1, <3>5, <3>6, ValuesAfterUndo
    <3> QED
      BY <1>8, <2>8, <3>3, <3>7
  <2> QED
    BY <1>1, <2>7, <2>8
<1>17. PlanOK(Plan(c), card[c])'
  BY <1>2, <1>5, <1>6
<1>18. FailureOK(c)'
  BY <1>1, <1>2 DEF FailureOK, Claimed
<1>19. Restorable(c)' => Restorable(c)
  BY <1>6, <1>7 DEF Restorable
<1> QED
  BY <1>1, <1>2, <1>7, <1>9, <1>15, <1>16, <1>17, <1>18, <1>19 DEF RestoreOK

\* A launch that breaks off renames nothing, and is none that could be restored.
LEMMA BreakingOffRestores ==
    ASSUME NEW c \in Proposals, HistoryShape, Shape, AccountOK, NamesApart(acct), PackageOK(c),
           RestoreOK(c), LaunchBreaksOff(c)
    PROVE  RestoreOK(c)'
<1>1. /\ call[c] = "flying" /\ pc[c] \in {"call", "undo"} /\ at[c] > 0 /\ draft[c] \in Packages
      /\ status[c] \in Claimed /\ Understood(request[c]) /\ request[c].op = "launch_campaign"
  BY DEF LaunchBreaksOff, PackageOK, Claimed
<1>2. /\ pc' = pc /\ at' = at /\ call'[c] = "refused" /\ acct' \in Launching(acct, request[c])
      /\ draft' = draft /\ status' = status /\ card' = card /\ origin' = origin
      /\ lost' = lost /\ adrift' = adrift /\ clean' = clean /\ touched'[c] = touched[c]
  BY DEF LaunchBreaksOff, ByOne, Shape, HistoryShape, storeVars
<1>3. at[c] \in 1 .. Len(Plan(c)) /\ DOMAIN Plan(c) = 1 .. Len(Plan(c))
  BY <1>1, StepOfPlan, PlanShape DEF Plan
<1>4. HistoryOK(c) /\ PlanOK(Plan(c), card[c])
  BY <1>1 DEF RestoreOK, Claimed
<1>5. Plan(c)' = Plan(c) /\ (Launches(c)' <=> Launches(c))
  BY <1>2, SameView
<1>6. Undisturbed(c)' => Undisturbed(c)
  BY <1>2 DEF Undisturbed, Alone
<1>7. Done(c)' = Done(c)
  BY <1>1, <1>2 DEF Done
<1>8. HistoryOK(c)'
  BY <1>1, <1>2, <1>4 DEF HistoryOK, WellFormed, NamesApart, Claimed
<1>9. Undisturbed(c) => Aimed(c) /\ NamesAfter(c, Done(c))
  BY <1>1 DEF RestoreOK
<1>10. Undisturbed(c) => NamesAfter(c, Done(c))'
  <2>1. \A k \in Campaigns : acct'[k].name = acct[k].name
    BY <1>1, <1>2, LaunchingParts DEF AccountOK
  <2>2. \A i : \A k \in Campaigns : MovedTo(c, i, k)' <=> MovedTo(c, i, k)
    BY <1>2, <1>5, <2>1 DEF MovedTo
  <2>3. \A m : NamesAfter(c, m) => NamesAfter(c, m)'
    BY <1>2, <1>5, <2>1, <2>2 DEF NamesAfter
  <2> QED
    BY <1>7, <1>9, <2>3
<1>11. ~Restorable(c)'
  <2>1. Undisturbed(c) => Step(c).op = "launch_campaign"
    BY <1>1, <1>9 DEF Aimed
  <2>2. Undisturbed(c) => Launches(c)
    BY <1>3, <2>1 DEF Launches, Step
  <2> QED
    BY <1>5, <1>6, <2>2 DEF Restorable
<1>12. PlanOK(Plan(c), card[c])'
  BY <1>2, <1>4, <1>5
<1>13. FailureOK(c)'
  BY <1>1, <1>2 DEF FailureOK, Claimed
<1> QED
  BY <1>1, <1>2, <1>6, <1>8, <1>10, <1>11, <1>12, <1>13 DEF RestoreOK

LEMMA CompositeStepRestores ==
    ASSUME NEW c \in Proposals, HistoryShape, Shape, AccountOK, NamesApart(acct), PackageOK(c),
           RestoreOK(c), CompositeStep(c)
    PROVE  RestoreOK(c)'
  BY QuietSteps, ClaimStartsAfresh, SettlingRestores, SendStepRestores, SendUndoRestores,
     LandingRestores, BreakingOffRestores DEF CompositeStep

-----------------------------------------------------------------------------
(* What everybody else does to it.                                          *)

\* A call nobody waits for: its package has an unknown outcome, and for the
\* others it is somebody else.
LEMMA AdriftKeepsRestore ==
    ASSUME NEW a \in adrift, NEW c \in Proposals, HistoryShape, Shape, PackageOK(c),
           RestoreOK(c),
           AdriftLands(a) \/ AdriftVanishes(a)
    PROVE  RestoreOK(c)'
<1>1. /\ draft' = draft /\ status' = status /\ card' = card /\ origin' = origin /\ lost' = lost
      /\ UNCHANGED executorVars /\ adrift' \subseteq adrift
      /\ \/ touched'[c] = touched[c] /\ acct' = acct
         \/ touched'[c] = (touched[c] \/ c # a[1])
  BY DEF AdriftLands, AdriftVanishes, storeVars, packageHistory, Count, ByOne
<1>2. HistoryOK(c)
  BY DEF RestoreOK
<1>3. CASE lost[c]
  <2>1. Plan(c)' = Plan(c)
    BY <1>1, SameDraft
  <2>2. HistoryOK(c)'
    BY <1>1, <1>2, <1>3 DEF HistoryOK, WellFormed, NamesApart, executorVars, Forwards
  <2>3. ~Undisturbed(c)' /\ ~Restorable(c)' /\ FailureOK(c)'
    BY <1>1, <1>3 DEF Undisturbed, Restorable, FailureOK
  <2> QED
    BY <1>1, <2>1, <2>2, <2>3 DEF RestoreOK, executorVars
<1>4. CASE ~lost[c]
  <2>1. a[1] # c
    BY <1>2, <1>4 DEF HistoryOK
  <2>2. hits'[c] = hits[c] /\ undos'[c] = undos[c]
    BY <2>1 DEF AdriftLands, AdriftVanishes, Count, packageHistory, Shape
  <2>3. RowDrift(c) /\ SameRecord(c) /\ Marked(c)
    BY <1>1, <2>1, <2>2 DEF RowDrift, SameRecord, SamePackage, Marked, executorVars
  <2> QED
    BY <2>3, AsideKeepsRestore
<1> QED
  BY <1>3, <1>4

\* A package's row, drawn from the account as it is.
LEMMA NewPackageKeepsRestore ==
    ASSUME NEW c \in Proposals, NEW d \in Packages, Shape, AccountOK, NamesApart(acct),
           PackageOK(c), RestoreOK(c), ProposePackage(c, d)
    PROVE  RestoreOK(c)'
<1> DEFINE plan == Ordered(Normalised(d.steps))
           shown == [i \in DOMAIN plan |-> Snapshot(acct, plan[i])]
<1>1. /\ status[c] = "absent" /\ status'[c] = "pending" /\ draft'[c] = d
      /\ card'[c] = shown /\ AcceptablePackage(d.steps, plan, shown)
      /\ UNCHANGED <<executorVars, packageAccount, packageHistory>>
  BY DEF ProposePackage, SaveProposal, MatchSave, Shape, StoreTypeOK
<1>2. PlanOK(plan, shown)
  BY <1>1, NewPlanOK DEF AccountOK
<1>3. Plan(c)' = plan
  BY <1>1 DEF Plan
<1>4. pc[c] = "idle"
  BY <1>1 DEF PackageOK
<1> HIDE DEF plan, shown
<1>5. PlanOK(Plan(c), card[c])'
  BY <1>1, <1>2, <1>3
<1> QED
  BY <1>1, <1>4, <1>5, NewRowKeepsRestore DEF executorVars, packageAccount

-----------------------------------------------------------------------------
(* The theorems about failed packages.                                      *)

LEMMA RestoreInit == Init => RInv
<1> SUFFICES ASSUME Init PROVE RInv
  OBVIOUS
<1> USE DEF Init, StoreInit, CompositeInit
<1>1. WellFormed(FirstAccount) /\ NamesApart(FirstAccount)
  BY PackageAssumption
<1>2. HistoryShape /\ NamesApart(acct)
  BY <1>1 DEF HistoryShape
<1>3. ASSUME NEW c \in Proposals PROVE RestoreOK(c)
  <2>1. HistoryOK(c)
    BY <1>1 DEF HistoryOK, Forwards
  <2> QED
    BY <2>1 DEF RestoreOK, FailureOK
<1> QED
  BY <1>2, <1>3 DEF RInv

LEMMA RestoreNext ==
    ASSUME IInv, RInv, [Next]_vars
    PROVE  RInv'
<1> USE DEF RInv
<1>0. Shape /\ AccountOK /\ \A c \in Proposals : PackageOK(c) /\ CreationOK(c)
  BY DEF IInv
<1>1. ASSUME UNCHANGED compositeVars
      PROVE  /\ \A x \in Proposals : SameRecord(x) /\ Marked(x) /\ acct' = acct
             /\ HistoryShape' /\ NamesApart(acct)'
  BY <1>1 DEF compositeVars, executorVars, packageAccount, packageHistory, SameRecord,
              SamePackage, Marked, HistoryShape
<1>2. ASSUME NEW c \in Proposals, CompositeStep(c), UNCHANGED creationVars PROVE RInv'
  <2>1. \A x \in Proposals \ {c} : RowDrift(x) /\ SamePackage(x)
    BY <1>0, <1>2, CompositeStepElsewhere
  <2>2. \A x \in Proposals \ {c} : SameRecord(x) /\ Marked(x)
    BY <1>0, <1>2, <2>1, CompositeMarks DEF SameRecord
  <2>3. \A x \in Proposals \ {c} : RestoreOK(x)'
    BY <1>0, <2>1, <2>2, AsideKeepsRestore
  <2>4. RestoreOK(c)'
    BY <1>0, <1>2, CompositeStepRestores
  <2>5. HistoryShape' /\ NamesApart(acct)'
    BY <1>0, <1>2, CompositeHistoryShape, CompositeKeepsApart DEF NamesApart
  <2> QED
    BY <2>3, <2>4, <2>5
<1>3. ASSUME NEW c \in Proposals, CreationStep(c), UNCHANGED compositeVars PROVE RInv'
  <2>1. \A x \in Proposals \ {c} : RowDrift(x)
    BY <1>0, <1>3, CreationStepElsewhere
  <2>2. \A x \in Proposals \ {c} : RestoreOK(x)'
    BY <1>0, <1>1, <1>3, <2>1, AsideKeepsRestore
  <2>3. RestoreOK(c)'
    <3>1. CASE status'[c] = status[c]
      BY <1>0, <1>1, <1>3, <3>1, CreationStepElsewhere, AsideKeepsRestore DEF RowDrift
    <3>2. CASE status'[c] # status[c]
      <4>1. /\ draft'[c] = draft[c] /\ draft[c] \notin Packages
            /\ status[c] # "absent" /\ status'[c] \in Claimed
        BY <1>0, <1>3, <3>2, CreationStepElsewhere
      <4>2. pc[c] = "idle"
        BY <1>0, <4>1 DEF PackageOK
      <4> QED
        BY <1>1, <1>3, <4>1, <4>2, CreationRowKeepsRestore
    <3> QED
      BY <3>1, <3>2
  <2> QED
    BY <1>1, <1>3, <2>2, <2>3
<1>4. ASSUME NEW c \in Proposals, NEW d \in Packages, ProposePackage(c, d), UNCHANGED creationVars
      PROVE  RInv'
  <2>1. \A x \in Proposals \ {c} : RowDrift(x) /\ SameRecord(x) /\ Marked(x)
    BY <1>0, <1>4 DEF RowDrift, SameRecord, SamePackage, Marked, ProposePackage, SaveProposal,
                      executorVars, packageAccount, packageHistory, Shape, StoreTypeOK
  <2>2. \A x \in Proposals \ {c} : RestoreOK(x)'
    BY <1>0, <2>1, AsideKeepsRestore
  <2>3. RestoreOK(c)'
    BY <1>0, <1>4, NewPackageKeepsRestore
  <2>4. HistoryShape' /\ NamesApart(acct)'
    BY <1>4 DEF ProposePackage, packageAccount, packageHistory, HistoryShape, NamesApart
  <2> QED
    BY <2>2, <2>3, <2>4
<1>5. ASSUME NEW a \in adrift, AdriftLands(a) \/ AdriftVanishes(a), UNCHANGED creationVars
      PROVE  RInv'
  <2>1. \A x \in Proposals : RestoreOK(x)'
    BY <1>0, <1>5, AdriftKeepsRestore
  <2>2. HistoryShape'
    BY <1>5 DEF AdriftLands, AdriftVanishes, HistoryShape, packageHistory, Count, ByOne
  <2>3. Understood(a[2]) /\ WellFormed(acct)
    BY <1>0, <1>5 DEF AccountOK
  <2>4. acct' = acct \/ (Acceptable(acct, a[2]) /\ acct' = Applied(acct, a[2]))
    BY <1>5 DEF AdriftLands, AdriftVanishes
  <2>5. NamesApart(acct)'
    BY <2>3, <2>4, NamesStayApart DEF NamesApart
  <2> QED
    BY <2>1, <2>2, <2>5
<1>6. ASSUME NEW r \in ForeignEdits, ForeignEdit(r), UNCHANGED creationVars PROVE RInv'
  <2>1. \A x \in Proposals : RowDrift(x) /\ SameRecord(x) /\ Marked(x)
    BY <1>6 DEF RowDrift, SameRecord, SamePackage, Marked, ForeignEdit, storeVars, executorVars
  <2>2. \A x \in Proposals : RestoreOK(x)'
    BY <1>0, <2>1, AsideKeepsRestore
  <2>3. HistoryShape'
    BY <1>6 DEF ForeignEdit, HistoryShape
  <2>4. Understood(r) /\ WellFormed(acct)
    BY <1>0, <1>6, PackageAssumption DEF AccountOK
  <2>5. NamesApart(acct)'
    BY <1>6, <2>4, NamesStayApart DEF NamesApart, ForeignEdit
  <2> QED
    BY <2>2, <2>3, <2>5
<1>7. ASSUME NEW c \in Proposals, Table(c) PROVE RInv'
  <2>0. UNCHANGED compositeVars
    BY <1>7 DEF Table
  <2>1. CASE \E d \in Drafts : ProposeCreation(c, d)
    <3>1. PICK d \in Drafts : ProposeCreation(c, d)
      BY <2>1
    <3>2. /\ status[c] = "absent" /\ status'[c] = "pending" /\ draft'[c] = d /\ d \notin Packages
          /\ \A x \in Proposals \ {c} : RowDrift(x)
      BY <1>0, <3>1 DEF ProposeCreation, SaveProposal, MatchSave, RowDrift, Shape, StoreTypeOK,
                        Packages, CreateOps
    <3>3. pc[c] = "idle" /\ pc'[c] = "idle"
      BY <1>0, <2>0, <3>2 DEF PackageOK, compositeVars, executorVars
    <3>4. adrift' = adrift /\ acct' = acct /\ UNCHANGED packageHistory
      BY <2>0 DEF compositeVars, packageAccount
    <3>5. RestoreOK(c)'
      BY <3>2, <3>3, <3>4, NewRowKeepsRestore
    <3> QED
      BY <1>0, <1>1, <2>0, <3>2, <3>5, AsideKeepsRestore
  <2>2. CASE \/ Sweep(c)
             \/ status[c] = "pending" /\ ((\E m \in Messages : Reply(c, m)) \/ Cancel(c))
    BY <1>0, <1>1, <2>0, <2>2, RepliesDrift, AsideKeepsRestore
  <2> QED
    BY <1>7, <2>1, <2>2 DEF Table
<1>8. CASE Advance /\ UNCHANGED <<compositeVars, creationVars>>
  <2>1. \A x \in Proposals : RowDrift(x)
    BY <1>8 DEF Advance, RowDrift
  <2> QED
    BY <1>0, <1>1, <1>8, <2>1, AsideKeepsRestore
<1>9. CASE UNCHANGED vars
  <2>1. \A x \in Proposals : RowDrift(x)
    BY <1>9 DEF vars, storeVars, RowDrift
  <2> QED
    BY <1>0, <1>1, <1>9, <2>1, AsideKeepsRestore DEF vars
<1> QED
  BY <1>2, <1>3, <1>4, <1>5, <1>6, <1>7, <1>8, <1>9 DEF Next, CompositeNext

\* What a package has in the account at every point of its way forwards and
\* back: the names and values it has changed, and the bases it took them from.
THEOREM RestoreInvariant == Spec => []RInv
<1>1. IInv /\ RInv /\ [Next]_vars => RInv'
  BY RestoreNext
<1> QED
  BY <1>1, InvHolds, RestoreInit, PTL DEF Spec

\* "failed" is written of a package whose steps were brought back: the account
\* is the one it was claimed on.
THEOREM FailedPackagesAreRestored == Spec => []FailedIsRestored
<1>1. RInv => FailedIsRestored
  BY DEF RInv, RestoreOK, FailureOK, FailedIsRestored
<1> QED
  BY <1>1, RestoreInvariant, PTL

\* The order of the steps, renames last, keeps a package from renaming a
\* campaign that one of its steps still has to find.
THEOREM OwnRenamesDoNotHide == Spec => []OwnRenameNeverHides
<1>1. IInv /\ RInv => OwnRenameNeverHides
  <2> SUFFICES ASSUME IInv, RInv, NEW c \in Proposals, pc[c] = "gates", Alone(c),
                      Found(origin[c], Step(c)), ~RenamedAgain(c)
               PROVE  Found(acct, Step(c))
    BY DEF OwnRenameNeverHides
  <2>1. /\ Shape /\ PackageOK(c) /\ RestoreOK(c) /\ HistoryOK(c)
        /\ draft[c] \in Packages /\ status[c] # "absent" /\ at[c] > 0
    BY DEF IInv, RInv, RestoreOK, PackageOK
  <2>2. PlanOK(Plan(c), card[c]) /\ NamesAfter(c, at[c] - 1)
    BY <2>1 DEF RestoreOK, HistoryOK, Undisturbed, Done, Forwards, Backwards
  <2>3. at[c] \in 1 .. Len(Plan(c)) /\ DOMAIN Plan(c) = 1 .. Len(Plan(c))
    BY <2>1, StepOfPlan, PlanShape DEF Plan
  <2>4. PICK k \in Campaigns : origin[c][k].name = Step(c).camp
    BY DEF Found, Named
  <2>5. ASSUME NEW i \in 1 .. at[c] - 1, MovedTo(c, i, k) PROVE FALSE
    <3>1. Renames(Plan(c)[i]) /\ Plan(c)[i].camp = Step(c).camp
      BY <2>4, <2>5 DEF MovedTo
    <3>2. i \in DOMAIN Plan(c) /\ i < at[c]
      BY <2>3
    <3>3. Renames(Step(c))
      BY <2>2, <2>3, <3>1, <3>2 DEF PlanOK, Step
    <3> QED
      BY <3>1, <3>3 DEF RenamedAgain
  <2>6. acct[k].name = Step(c).camp
    BY <2>2, <2>4, <2>5 DEF NamesAfter
  <2> QED
    BY <2>6 DEF Found, Named
<1> QED
  BY <1>1, InvHolds, RestoreInvariant, PTL

-----------------------------------------------------------------------------
(* What the order of the steps and their undoing are, for any package and   *)
(* any account: no state is involved.                                       *)

\* _ordered_steps: the plan is the steps of the user, each once; a rename comes
\* after every step that is none, and otherwise the order is the user's.
THEOREM OrderIsStable ==
    ASSUME NEW steps, NEW n \in Nat, DOMAIN steps = 1 .. n
    PROVE  \E f \in Bijection(1 .. n, 1 .. n) :
              /\ \A i \in 1 .. n : Ordered(steps)[f[i]] = steps[i]
              /\ \A i, j \in 1 .. n :
                    f[i] < f[j] <=> IF Renames(steps[i]) = Renames(steps[j]) THEN i < j
                                    ELSE Renames(steps[j])
<1> DEFINE f == [i \in 1 .. n |-> Place(steps, i)]
<1>1. f \in [1 .. n -> 1 .. n]
  BY PlaceIsMonotone
<1>2. \A i \in 1 .. n : f[i] = Place(steps, i) /\ f[i] \in 1 .. n
  BY PlaceIsMonotone
<1> HIDE DEF f
<1>3. ASSUME NEW i \in 1 .. n, NEW j \in 1 .. n
      PROVE  f[i] < f[j] <=> Before(steps, i, j)
  <2>1. Before(steps, i, j) => f[i] < f[j]
    BY <1>2, PlaceIsMonotone
  <2>2. Before(steps, j, i) => f[j] < f[i]
    BY <1>2, PlaceIsMonotone
  <2>3. f[i] \in Nat /\ f[j] \in Nat
    BY <1>2
  <2>4. i = j \/ Before(steps, i, j) \/ Before(steps, j, i)
    BY BeforeIsOrder
  <2> QED
    BY <2>1, <2>2, <2>3, <2>4
<1>4. \A i, j \in 1 .. n : f[i] = f[j] => i = j
  <2>1. SUFFICES ASSUME NEW i \in 1 .. n, NEW j \in 1 .. n, i # j PROVE f[i] # f[j]
    OBVIOUS
  <2>2. f[i] \in Nat /\ f[j] \in Nat
    BY <1>2
  <2>3. Before(steps, i, j) \/ Before(steps, j, i)
    BY <2>1, BeforeIsOrder
  <2> QED
    BY <1>3, <2>2, <2>3
<1>5. f \in Surjection(1 .. n, 1 .. n)
  <2>1. ASSUME NEW p \in 1 .. n PROVE \E i \in 1 .. n : f[i] = p
    <3>1. PICK i \in 1 .. n : Place(steps, i) = p
      BY OrderedStep
    <3> QED
      BY <1>2, <3>1
  <2> QED
    BY <1>1, <2>1 DEF Surjection
<1>6. f \in Bijection(1 .. n, 1 .. n)
  BY <1>1, <1>4, <1>5 DEF Bijection, Injection, IsInjective
<1>7. ASSUME NEW i \in 1 .. n PROVE Ordered(steps)[f[i]] = steps[i]
  <2>1. PICK x \in 1 .. n : Place(steps, x) = f[i] /\ Ordered(steps)[f[i]] = steps[x]
    BY <1>2, OrderedStep
  <2>2. x = i
    BY <1>2, <1>4, <2>1
  <2> QED
    BY <2>1, <2>2
<1>8. \A i, j \in 1 .. n :
        f[i] < f[j] <=> IF Renames(steps[i]) = Renames(steps[j]) THEN i < j
                        ELSE Renames(steps[j])
  BY <1>3 DEF Before
<1> QED
  BY <1>6, <1>7, <1>8

\* reverse_spec inverts every operation but launch_campaign: what it answers for
\* a step the account has just taken is found, is accepted, and brings back the
\* account as it was before the step, to the last field.
THEOREM UndoIsInverse ==
    ASSUME NEW a, WellFormed(a), NamesApart(a),
           NEW s, s.op \in RollbackableOps \ {"launch_campaign"}, Found(a, s),
           Acceptable(a, Request(a, s)),
           NEW u \in ReverseSpec(s, Snapshot(a, s)), NEW b, b = Applied(a, Request(a, s))
    PROVE  Found(b, u) /\ Acceptable(b, Request(b, u)) /\ Applied(b, Request(b, u)) = a
<1> DEFINE k == CHOOSE x \in Named(a, s.camp) : TRUE
           r == Request(a, s)
           e == Snapshot(a, s)
           q == Request(b, u)
<1>1. k \in Campaigns /\ a[k].name = s.camp /\ r.id = k
  BY DEF Found, Named, Request
<1>2. /\ r.op = s.op /\ r.group = s.group /\ r.value = Target(a[k], s)
      /\ s.op \in GroupOps => s.group \in Groups
  BY DEF Request, Found
<1>3. Understood(r) /\ Line(s, e) /\ r.value = e.after
  BY RequestUnderstood, SnapshotIsLine
<1> HIDE DEF k, r
<1>4. e.before = Value(a[k], s) /\ e.own = OwnBid(a[k], s)
  BY <1>1, <1>2, SnapshotReads
<1> HIDE DEF e
<1>5. /\ u.group = s.group /\ u.camp = (IF Renames(s) THEN s.to ELSE s.camp)
      /\ u.op \in GroupOps <=> s.op \in GroupOps
      /\ Slot(u) = Slot(s) /\ u.op # "launch_campaign"
      /\ u.op \in RollbackableOps /\ \A c : Target(c, u) = e.before
  BY <1>3, UndoIsAimed, UndoAsksForBefore DEF e
<1>6. /\ WellFormed(b) /\ NamesApart(b)
      /\ \A c \in Campaigns : c # k => b[c] = a[c]
      /\ b[k] = Changed(a[k], r)
      /\ b[k].name = IF s.op = "update_campaign" THEN r.value ELSE a[k].name
  BY <1>1, <1>2, <1>3, AccountKeepsForm, AppliedParts, NamesStayApart DEF r
<1>7. b[k].name = u.camp
  BY <1>1, <1>2, <1>5, <1>6 DEF Renames, Target
<1>8. Found(b, u) /\ q.id = k
  BY <1>1, <1>2, <1>5, <1>6, <1>7, SnapshotReads
<1>9. /\ q.op = u.op /\ q.group = u.group /\ q.value = e.before
      /\ Understood(q)
  BY <1>5, <1>8, RequestUnderstood DEF Request
<1> HIDE DEF q
<1>10. /\ u.op = "update_campaign" <=> s.op = "update_campaign"
       /\ u.op = "update_bid" <=> s.op = "update_bid"
  <2>1. Field(u.op) = Field(s.op) /\ u.op \in RollbackableOps /\ s.op \in RollbackableOps
    BY <1>5 DEF Slot
  <2>2. \A x \in RollbackableOps : (Field(x) = "name" <=> x = "update_campaign")
                                 /\ (Field(x) = "bids" <=> x = "update_bid")
    BY DEF Field, RollbackableOps, StatusOps, MoneyOps, CampaignStatusOps, GroupStatusOps,
       AdStatusOps
  <2> QED
    BY <2>1, <2>2
<1>11. Acceptable(b, q)
  <2>1. SUFFICES ASSUME u.op = "update_campaign", NEW c \in Campaigns, b[c].name = q.value
                 PROVE  c = k
    BY <1>8, <1>9 DEF Acceptable, Named
  <2>0. s.op = "update_campaign"
    BY <1>10, <2>1
  <2>2. Value(a[k], s) = a[k].name
    BY <2>0 DEF Value, CampaignStatusOps, GroupStatusOps, AdStatusOps
  <2>3. c # k => a[c].name = a[k].name
    BY <1>4, <1>6, <1>9, <2>1, <2>2
  <2> QED
    BY <1>1, <2>3 DEF NamesApart
<1>12. WellFormed(Applied(b, q))
  BY <1>6, <1>9, AccountKeepsForm
<1>13. \A c \in Campaigns : c # k => Applied(b, q)[c] = a[c]
  BY <1>6, <1>8, <1>9, AppliedParts
<1>14. Applied(b, q)[k] = Changed(b[k], q)
  BY <1>6, <1>8, <1>9, AppliedParts
<1>15. /\ WellFormedCampaign(a[k]) /\ WellFormedCampaign(b[k])
       /\ WellFormedCampaign(Changed(b[k], q))
  BY <1>1, <1>6, <1>12, <1>14 DEF WellFormed
<1>16. /\ Slot(r) = Slot(s) /\ Slot(q) = Slot(s)
       /\ r.op # "launch_campaign" /\ q.op # "launch_campaign"
       /\ r.op \in GroupOps => r.group \in Groups
       /\ q.op \in GroupOps => q.group \in Groups
  BY <1>2, <1>5, <1>9 DEF Slot
<1>17. /\ r.op = "update_bid" => r.value = [g \in Groups |-> r.value[g]]
       /\ q.op = "update_bid" => q.value = [g \in Groups |-> q.value[g]]
  <2>1. r.op = "update_bid" => r.value = [g \in Groups |-> r.value[g]]
    BY <1>2 DEF Target
  <2> QED
    BY <1>3, <1>9, <1>10, <2>1 DEF Line
<1>18. s.op = "update_keyword_bid" => a[k].groups[s.group].key # Inherit
  <2>1. SUFFICES ASSUME s.op = "update_keyword_bid" PROVE e.own
    BY <1>4 DEF OwnBid
  <2> QED
    BY <2>1 DEF ReverseSpec, e, StatusOps, CampaignStatusOps, GroupStatusOps, AdStatusOps
<1>19. ASSUME NEW slot \in Slots PROVE At(Changed(b[k], q), slot) = At(a[k], slot)
  <2>1. CASE slot = Slot(s)
    <3>1. At(Changed(b[k], q), slot) = e.before
      BY <1>9, <1>15, <1>16, <1>17, <2>1, OneSlotChanges
    <3>2. At(a[k], slot) = Value(a[k], s)
      BY <1>18, <2>1, ReadIsSlot
    <3> QED
      BY <1>4, <3>1, <3>2
  <2>2. CASE slot # Slot(s)
    <3>1. At(Changed(b[k], q), slot) = At(b[k], slot)
      BY <1>9, <1>15, <1>16, <1>17, <2>2, OneSlotChanges
    <3>2. At(b[k], slot) = At(a[k], slot)
      BY <1>3, <1>6, <1>15, <1>16, <1>17, <2>2, OneSlotChanges
    <3> QED
      BY <3>1, <3>2
  <2> QED
    BY <2>1, <2>2
<1>20. Changed(b[k], q) = a[k]
  BY <1>15, <1>19, SlotsDetermine
<1>21. Applied(b, q) = a
  <2>1. \A c \in Campaigns : Applied(b, q)[c] = a[c]
    BY <1>13, <1>14, <1>20
  <2> QED
    BY <1>12, <2>1 DEF WellFormed
<1> QED
  BY <1>8, <1>11, <1>21 DEF q
=============================================================================
