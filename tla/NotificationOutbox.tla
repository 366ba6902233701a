------------------------- MODULE NotificationOutbox -------------------------
(***************************************************************************)
(* operations/outbox.py and scheduler/ops_delivery.py: escalations of       *)
(* incidents, delivered through a table of leased rows.  A run of the job   *)
(*     enqueue -> sweep -> lease -> look -> send -> mark                    *)
(* writes the rows that are due, one for each route, with the incident's    *)
(* cursor; cancels or buries the rows that can wait no more; leases a batch *)
(* and delivers it row by row.  Each step is a transaction (send is the     *)
(* call of Telegram), so that incidents change, leases run out and other    *)
(* schedulers run in between.                                               *)
(*                                                                         *)
(* A row is known by the parts of its dedup_key.  Tokens of leases are      *)
(* random; a scheduler holds at most one of a row, so the row records the   *)
(* scheduler.  available_at and lease_expires_at are kept as the time that  *)
(* is left, negative when it has passed.  lag[s] is the age of the "point"  *)
(* in time that a run of s compares with.                                  *)
(*                                                                         *)
(* The severity of an incident deserves delivery and has at least one       *)
(* route; one of the two delays before the first escalation stands for     *)
(* both.                                                                   *)
(***************************************************************************)
EXTENDS Incidents, FiniteSets

CONSTANTS
    Schedulers,
    Routes,
    Nobody,      \* lease_token IS NULL
    Nothing,     \* no row
    DELAY,       \* incident_critical_escalation_minutes
    COOLDOWN,    \* incident_escalation_cooldown_minutes
    LEASE,       \* notification_outbox_lease_seconds
    BASE,        \* notification_outbox_base_retry_seconds
    MaxDelay,    \* the longest delay of a retry
    MaxAttempts, \* notification_outbox_max_attempts
    MaxLevel     \* bound: escalations of one incident

ASSUME OutboxAssumption ==
    /\ {DELAY, COOLDOWN} \subseteq 0 .. HORIZON
    /\ {LEASE, BASE, MaxAttempts} \subseteq Nat \ {0} /\ LEASE <= HORIZON
    /\ MaxDelay \in Nat /\ BASE <= MaxDelay
    /\ MaxLevel \in Nat
    /\ Routes # {}
    /\ Nobody \notin Schedulers

Keys == [incident : Incidents, count : 1 .. MaxOccurrences, level : 1 .. MaxLevel,
         route : Routes]

VARIABLES
    outbox,  \* outbox[k]: the row of key k
    pc,      \* pc[s]: what the job of scheduler s does next
    todo,    \* todo[s]: the candidates it has selected
    view,    \* view[s]: the incident it has read
    held,    \* held[s]: the rows it has leased and not delivered
    cur,     \* cur[s]: the row it delivers
    lag,
    read,    \* read[s]: the attempts it has read of it
    sent,    \* rows whose message has reached the route (history)
    robbed   \* rows whose lease a late retry has ended (history)

jobVars == <<pc, todo, view, held, cur, lag, read>>
history == <<sent, robbed>>
vars == <<incident, outbox, jobVars, history>>

Ends == {"delivered", "dead", "cancelled"}
Rest == -HORIZON .. LEASE + MaxDelay

TypeOK ==
    /\ IncidentTypeOK
    /\ outbox \in [Keys ->
            [state : {"none", "pending", "leased"} \cup Ends, attempts : 0 .. MaxAttempts,
             holder : Schedulers \cup {Nobody}, wait : Rest]]
    /\ \A k \in Keys : outbox[k].holder # Nobody <=> outbox[k].state = "leased"
    /\ pc \in [Schedulers -> {"idle", "enqueue", "insert", "sweep", "lease", "look", "send",
                              "cancel", "sent", "failed", "release"}]
    /\ todo \in [Schedulers -> (SUBSET Incidents) \cup (SUBSET Keys)]
    /\ view \in [Schedulers -> [status : IncidentStatuses, count : Nat, level : Nat]]
    /\ held \in [Schedulers -> SUBSET Keys]
    /\ cur \in [Schedulers -> Incidents \cup Keys \cup {Nothing}]
    /\ \A s \in Schedulers :
        /\ pc[s] \in {"enqueue", "insert"} => todo[s] \subseteq Incidents
        /\ pc[s] = "lease" => todo[s] \subseteq Keys
        /\ pc[s] \in {"send", "cancel", "sent", "failed", "release"} => cur[s] \in held[s]
        /\ pc[s] = "insert" => cur[s] \in Incidents
    /\ lag \in [Schedulers -> Age]
    /\ read \in [Schedulers -> 0 .. MaxAttempts]
    /\ sent \subseteq Keys
    /\ robbed \subseteq Keys

\* What is used later of an incident that was read.
Read(x) == [status |-> x.status, count |-> x.count, level |-> x.level]

NoRow == [state |-> "none", attempts |-> 0, holder |-> Nobody, wait |-> 0]

Init ==
    /\ IncidentInit
    /\ outbox = [k \in Keys |-> NoRow]
    /\ pc = [s \in Schedulers |-> "idle"]
    /\ todo = [s \in Schedulers |-> {}]
    /\ view = [s \in Schedulers |-> Read(NoIncident)]
    /\ held = [s \in Schedulers |-> {}]
    /\ cur = [s \in Schedulers |-> Nothing]
    /\ lag = [s \in Schedulers |-> 0]
    /\ read = [s \in Schedulers |-> 0]
    /\ sent = {}
    /\ robbed = {}

Goto(s, step) == pc' = [pc EXCEPT ![s] = step]

-----------------------------------------------------------------------------
(* Incidents and their operators.                                          *)

Event(i) == RecordIncident(i) /\ UNCHANGED <<outbox, jobVars, history>>

Ended(row, state) == [row EXCEPT !.state = state, !.holder = Nobody, !.wait = 0]

\* Rows that wait are cancelled with their incident, leased ones are not.
Operate(i, target) ==
    /\ Transition(i, target)
    /\ outbox' = [k \in Keys |->
                     IF /\ target \in {"resolved", "snoozed"}
                        /\ k.incident = i /\ outbox[k].state = "pending"
                     THEN Ended(outbox[k], "cancelled") ELSE outbox[k]]
    /\ UNCHANGED <<jobVars, history>>

-----------------------------------------------------------------------------
(* enqueue_due_escalations.                                                *)

JobStarts(s) ==
    /\ pc[s] = "idle"
    /\ todo' = [todo EXCEPT ![s] = {i \in Incidents : Active(i) /\ incident[i].seen >= DELAY}]
    /\ Goto(s, "enqueue")
    /\ UNCHANGED <<incident, outbox, view, held, cur, lag, read, history>>

\* _due, at the point in time of the run.
EscalationIsDue(s, i) ==
    /\ Active(i)
    /\ incident[i].seen - lag[s] >= DELAY
    /\ incident[i].notified # Null => incident[i].notified - lag[s] >= COOLDOWN

Pass(s, i) ==
    /\ pc[s] = "enqueue" /\ i \in todo[s]
    /\ ~EscalationIsDue(s, i) \/ incident[i].level >= MaxLevel
    /\ todo' = [todo EXCEPT ![s] = @ \ {i}]
    /\ UNCHANGED <<incident, outbox, pc, view, held, cur, lag, read, history>>

ReadIncident(s, i) ==
    /\ pc[s] = "enqueue" /\ i \in todo[s]
    /\ EscalationIsDue(s, i) /\ incident[i].level < MaxLevel
    /\ cur' = [cur EXCEPT ![s] = i]
    /\ view' = [view EXCEPT ![s] = Read(incident[i])]
    /\ todo' = [todo EXCEPT ![s] = @ \ {i}]
    /\ Goto(s, "insert")
    /\ UNCHANGED <<incident, outbox, held, lag, read, history>>

\* The rows of the next escalation of the incident as it was read.
NextRows(s) ==
    {k \in Keys : k.incident = cur[s] /\ k.count = view[s].count /\ k.level = view[s].level + 1}

CursorStands(s) ==
    incident[cur[s]].status = view[s].status /\ incident[cur[s]].level = view[s].level

\* A dedup_key that is taken raises.
DedupKeysAreFree(s) == \A k \in NextRows(s) : outbox[k] = NoRow

NextIncident(s) ==
    /\ cur' = [cur EXCEPT ![s] = Nothing]
    /\ view' = [view EXCEPT ![s] = Read(NoIncident)]
    /\ Goto(s, "enqueue")

Inserted(s) ==
    [k \in Keys |->
        IF k \in NextRows(s) THEN [NoRow EXCEPT !.state = "pending", !.wait = -lag[s]]
        ELSE outbox[k]]

Escalated(s) ==
    [incident EXCEPT ![cur[s]].level = view[s].level + 1, ![cur[s]].notified = lag[s]]

\* The cursor committed before the rows.
SlipEnqueue(s) ==
    /\ pc[s] = "insert" /\ CursorStands(s)
    /\ incident' = Escalated(s)
    /\ outbox' \in {outbox, Inserted(s)}
    /\ NextIncident(s)
    /\ UNCHANGED <<todo, held, lag, read, history>>

\* The cursor moves and the rows are written, or neither.
Enqueue(s) ==
    /\ pc[s] = "insert"
    /\ IF CursorStands(s) /\ DedupKeysAreFree(s)
       THEN incident' = Escalated(s) /\ outbox' = Inserted(s)
       ELSE UNCHANGED <<incident, outbox>>
    /\ NextIncident(s)
    /\ UNCHANGED <<todo, held, lag, read, history>>

EnqueueEnds(s) ==
    /\ pc[s] = "enqueue" /\ todo[s] = {}
    /\ Goto(s, "sweep")
    /\ UNCHANGED <<incident, outbox, todo, view, held, cur, lag, read, history>>

-----------------------------------------------------------------------------
(* claim_delivery_batch.                                                   *)

\* Due since the given time, waiting or under a lease that ran out.
Due(k, since) == outbox[k].state \in {"pending", "leased"} /\ outbox[k].wait + since <= 0

Sweep(s) ==
    /\ pc[s] = "sweep"
    /\ outbox' = [k \in Keys |->
                     IF ~Due(k, 0) THEN outbox[k]
                     ELSE IF ~Active(k.incident) THEN Ended(outbox[k], "cancelled")
                     ELSE IF outbox[k].attempts >= MaxAttempts THEN Ended(outbox[k], "dead")
                     ELSE outbox[k]]
    /\ todo' = [todo EXCEPT ![s] = {k \in Keys : Due(k, 0) /\ Active(k.incident)
                                                    /\ outbox[k].attempts < MaxAttempts}]
    /\ lag' = [lag EXCEPT ![s] = 0]
    /\ Goto(s, "lease")
    /\ UNCHANGED <<incident, view, held, cur, read, history>>

\* Leasing every candidate, as if nobody else had selected it.
SlipLeasable(s, k) == Active(k.incident)

Leasable(s, k) ==
    Due(k, lag[s]) /\ Active(k.incident) /\ outbox[k].attempts < MaxAttempts

Lease(s, k) ==
    /\ pc[s] = "lease" /\ k \in todo[s]
    /\ todo' = [todo EXCEPT ![s] = @ \ {k}]
    /\ IF Leasable(s, k)
       THEN /\ outbox' = [outbox EXCEPT ![k] = [state |-> "leased", attempts |-> @.attempts + 1,
                                                holder |-> s, wait |-> LEASE - lag[s]]]
            /\ held' = [held EXCEPT ![s] = @ \cup {k}]
       ELSE UNCHANGED <<outbox, held>>
    /\ UNCHANGED <<incident, pc, view, cur, lag, read, history>>

LeaseEnds(s) ==
    /\ pc[s] = "lease" /\ todo[s] = {}
    /\ Goto(s, "look")
    /\ UNCHANGED <<incident, outbox, todo, view, held, cur, lag, read, history>>

-----------------------------------------------------------------------------
(* deliver_outbox.                                                         *)

Look(s, k) ==
    /\ pc[s] = "look" /\ k \in held[s]
    /\ cur' = [cur EXCEPT ![s] = k]
    /\ Goto(s, IF Active(k.incident) THEN "send" ELSE "cancel")
    /\ UNCHANGED <<incident, outbox, todo, view, held, lag, read, history>>

JobEnds(s) ==
    /\ pc[s] = "look" /\ held[s] = {}
    /\ Goto(s, "idle")
    /\ lag' = [lag EXCEPT ![s] = 0]
    /\ UNCHANGED <<incident, outbox, todo, view, held, cur, read, history>>

NextRow(s) ==
    /\ cur' = [cur EXCEPT ![s] = Nothing]
    /\ read' = [read EXCEPT ![s] = 0]
    /\ held' = [held EXCEPT ![s] = @ \ {cur[s]}]
    /\ Goto(s, "look")

\* An exception does not say whether the message has arrived.
Send(s) ==
    /\ pc[s] = "send"
    /\ \/ Goto(s, "sent") /\ sent' = sent \cup {cur[s]}
       \/ Goto(s, "failed") /\ sent' \in {sent, sent \cup {cur[s]}}
    /\ UNCHANGED <<incident, outbox, todo, view, held, cur, lag, read, robbed>>

\* The marks by id alone.
SlipStillLeased(s) == outbox[cur[s]].state # "none"

StillLeased(s) == outbox[cur[s]].state = "leased" /\ outbox[cur[s]].holder = s

Mark(s, state) ==
    /\ outbox' = IF StillLeased(s) THEN [outbox EXCEPT ![cur[s]] = Ended(@, state)] ELSE outbox
    /\ NextRow(s)
    /\ UNCHANGED <<incident, todo, view, lag, history>>

MarkDeliveryCancelled(s) == pc[s] = "cancel" /\ Mark(s, "cancelled")
MarkDeliverySucceeded(s) == pc[s] = "sent" /\ Mark(s, "delivered")

\* mark_delivery_failed reads the row under its lease ...
ReadFailed(s) ==
    /\ pc[s] = "failed"
    /\ IF StillLeased(s)
       THEN /\ Goto(s, "release")
            /\ read' = [read EXCEPT ![s] = outbox[cur[s]].attempts]
            /\ UNCHANGED <<cur, held>>
       ELSE NextRow(s)
    /\ UNCHANGED <<incident, outbox, todo, view, lag, history>>

RetryDelay(attempts) ==
    LET delay == BASE * 2^(attempts - 1) IN IF delay < MaxDelay THEN delay ELSE MaxDelay

\* ... and writes it by its id, whatever the row has become.
Release(s) ==
    /\ pc[s] = "release"
    /\ outbox' = [outbox EXCEPT ![cur[s]] =
                     IF read[s] >= MaxAttempts THEN Ended(@, "dead")
                     ELSE [@ EXCEPT !.state = "pending", !.holder = Nobody,
                                    !.wait = RetryDelay(read[s])]]
    /\ robbed' = IF StillLeased(s) THEN robbed ELSE robbed \cup {cur[s]}
    /\ NextRow(s)
    /\ UNCHANGED <<incident, todo, view, lag, sent>>

\* The process dies; what it has leased waits for the leases to run out.
Crash(s) ==
    /\ pc[s] # "idle"
    /\ Goto(s, "idle")
    /\ todo' = [todo EXCEPT ![s] = {}]
    /\ view' = [view EXCEPT ![s] = Read(NoIncident)]
    /\ held' = [held EXCEPT ![s] = {}]
    /\ cur' = [cur EXCEPT ![s] = Nothing]
    /\ lag' = [lag EXCEPT ![s] = 0]
    /\ read' = [read EXCEPT ![s] = 0]
    /\ UNCHANGED <<incident, outbox, history>>

Job(s) ==
    \/ JobStarts(s) \/ EnqueueEnds(s) \/ Enqueue(s)
    \/ \E i \in Incidents : Pass(s, i) \/ ReadIncident(s, i)
    \/ Sweep(s) \/ LeaseEnds(s)
    \/ \E k \in Keys : Lease(s, k) \/ Look(s, k)
    \/ Send(s) \/ MarkDeliveryCancelled(s) \/ MarkDeliverySucceeded(s)
    \/ ReadFailed(s) \/ Release(s) \/ JobEnds(s)
    \/ Crash(s)

-----------------------------------------------------------------------------
Waited(row) ==
    IF row.state \in {"pending", "leased"} /\ row.wait > -HORIZON
    THEN [row EXCEPT !.wait = @ - 1] ELSE row

Advance ==
    /\ IncidentsAge
    /\ outbox' = [k \in Keys |-> Waited(outbox[k])]
    /\ lag' = [s \in Schedulers |-> IF pc[s] = "idle" THEN lag[s] ELSE Older(lag[s])]
    /\ UNCHANGED <<pc, todo, view, held, cur, read, history>>

Next ==
    \/ \E i \in Incidents : Event(i) \/ \E target \in Targets : Operate(i, target)
    \/ \E s \in Schedulers : Job(s)
    \/ Advance

Spec == Init /\ [][Next]_vars

-----------------------------------------------------------------------------
(* Correctness of the deliveries.                                          *)

\* "Cannot silently lose it": a row is called delivered only when its message
\* has been sent, is given up only after all its attempts, and an escalation
\* that the incident's cursor counts has a row for every route.
NothingIsLost ==
    /\ \A k \in Keys :
        /\ outbox[k].state = "delivered" => k \in sent
        /\ outbox[k].state = "dead" => outbox[k].attempts = MaxAttempts
    /\ \A i \in Incidents : \A n \in 1 .. incident[i].level :
        \E m \in 1 .. incident[i].count : \A r \in Routes :
            outbox[[incident |-> i, count |-> m, level |-> n, route |-> r]] # NoRow

\* Two schedulers whose leases have not run out never send the message of the
\* same row, unless a late retry has handed the lease of one of them away.
WithinLease(s) == pc[s] = "send" /\ lag[s] < LEASE

LeaseIsExclusive ==
    \A s, t \in Schedulers :
        s # t /\ WithinLease(s) /\ WithinLease(t) /\ cur[s] = cur[t] => cur[s] \in robbed

\* A row that has ended is never changed again, except by the retry of a sender
\* that had read it before.
EndIsKept ==
    \A k \in Keys :
        outbox[k].state \in Ends /\ outbox'[k] # outbox[k] =>
            \E s \in Schedulers : pc[s] = "release" /\ cur[s] = k /\ pc'[s] = "look"

EndsAreFinal == [][EndIsKept]_vars
=============================================================================
