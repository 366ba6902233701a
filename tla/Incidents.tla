----------------------------- MODULE Incidents -----------------------------
(***************************************************************************)
(* operations/incidents.py: the rows of ops_incidents.  Events with the    *)
(* fingerprint of an incident fold into its row; operators acknowledge,     *)
(* snooze, resolve and reopen it.  Both are single UPDATEs, so each is a    *)
(* step.  What a transition does to the notifications of the incident, in   *)
(* the same transaction, is in NotificationOutbox.                          *)
(*                                                                         *)
(* Times are kept relative to now: seen and notified are ages, snooze is    *)
(* the time left until snoozed_until.                                      *)
(***************************************************************************)
EXTENDS Integers

CONSTANTS
    Incidents,      \* fingerprints
    SNOOZE,         \* for how long an operator snoozes
    HORIZON,        \* ages above every threshold are not told apart
    MaxOccurrences  \* bound: events folded into one incident

ASSUME IncidentAssumption ==
    /\ {SNOOZE, HORIZON} \subseteq Nat
    /\ MaxOccurrences \in Nat \ {0}

VARIABLE incident

Null == -1
Age == 0 .. HORIZON

IncidentStatuses == {"none", "open", "acknowledged", "snoozed", "resolved"}

IncidentTypeOK ==
    incident \in [Incidents ->
        [status : IncidentStatuses, count : 0 .. MaxOccurrences, level : Nat,
         seen : Age, notified : Age \cup {Null}, snooze : 0 .. SNOOZE]]

NoIncident ==
    [status |-> "none", count |-> 0, level |-> 0, seen |-> 0, notified |-> Null, snooze |-> 0]

IncidentInit == incident = [i \in Incidents |-> NoIncident]

Active(i) == incident[i].status \in {"open", "acknowledged"}

-----------------------------------------------------------------------------
(* record_incident.                                                        *)

FirstEvent(i) ==
    /\ incident[i] = NoIncident
    /\ incident' = [incident EXCEPT ![i] = [NoIncident EXCEPT !.status = "open", !.count = 1]]

\* One more event reopens a resolved incident and one whose snooze is over;
\* only the resolved one escalates from the beginning again.
Folded(x) ==
    IF x.status = "resolved"
    THEN [x EXCEPT !.count = @ + 1, !.status = "open", !.level = 0, !.notified = Null,
                   !.snooze = 0]
    ELSE IF x.status = "snoozed" /\ x.snooze = 0
    THEN [x EXCEPT !.count = @ + 1, !.status = "open"]
    ELSE [x EXCEPT !.count = @ + 1]

AnotherEvent(i) ==
    /\ incident[i] # NoIncident
    /\ incident[i].count < MaxOccurrences
    /\ incident' = [incident EXCEPT ![i] = Folded(@)]

RecordIncident(i) == FirstEvent(i) \/ AnotherEvent(i)

-----------------------------------------------------------------------------
(* transition_incident.                                                    *)

From(target) ==
    CASE target = "acknowledged" -> {"open", "snoozed"}
      [] target = "snoozed" -> {"open", "acknowledged"}
      [] target = "resolved" -> {"open", "acknowledged", "snoozed"}
      [] target = "open" -> {"snoozed", "resolved"}

Targets == {"acknowledged", "snoozed", "resolved", "open"}

\* The cursor of the escalation stays, even when a resolved incident is opened.
\* acknowledging leaves snoozed_until behind, which nothing reads then.
Transition(i, target) ==
    /\ incident[i].status \in From(target)
    /\ incident' = [incident EXCEPT ![i].status = target,
                                    ![i].snooze = IF target = "snoozed" THEN SNOOZE
                                                  ELSE IF target = "acknowledged" THEN @ ELSE 0]

-----------------------------------------------------------------------------
Older(a) == IF a \in 0 .. HORIZON - 1 THEN a + 1 ELSE a
Sooner(a) == IF a > 0 THEN a - 1 ELSE a

IncidentsAge ==
    incident' = [i \in Incidents |->
                    IF incident[i] = NoIncident THEN NoIncident
                    ELSE [incident[i] EXCEPT !.seen = Older(@), !.notified = Older(@),
                                             !.snooze = Sooner(@)]]
=============================================================================
