---------------------- MODULE NotificationOutboxProofs ----------------------
(***************************************************************************)
(* Theorems about the escalations of incidents and their outbox, for any    *)
(* number of incidents, routes, schedulers and crashes, and for any delays. *)
(*                                                                         *)
(* The heart is HoldersFit: a row a scheduler holds, unless a late retry    *)
(* has touched it, is under its lease for as long as the age of the run is  *)
(* below LEASE, since the lease runs out no sooner than that.  Whoever else *)
(* wants it finds it not due.  CursorsFit ties the cursor of an incident to *)
(* the rows, JobFits and RowsFit what a run has read and sent to the row it *)
(* is about to mark.                                                        *)
(***************************************************************************)
EXTENDS NotificationOutbox, FiniteSetTheorems, TLAPS

OutboxRow ==
    [state : {"none", "pending", "leased"} \cup Ends, attempts : 0 .. MaxAttempts,
     holder : Schedulers \cup {Nobody}, wait : Rest]

IncidentRow ==
    [status : IncidentStatuses, count : 0 .. MaxOccurrences, level : Nat,
     seen : Age, notified : Age \cup {Null}, snooze : 0 .. SNOOZE]

JobFits ==
    \A s \in Schedulers :
        /\ held[s] # {} =>
            pc[s] \in {"lease", "look", "send", "cancel", "sent", "failed", "release"}
        /\ pc[s] = "sent" => cur[s] \in sent
        /\ pc[s] = "insert" =>
            view[s].level < MaxLevel /\ view[s].count \in 1 .. incident[cur[s]].count
        /\ pc[s] = "release" => read[s] \in 1 .. outbox[cur[s]].attempts

RowsFit ==
    \A k \in Keys :
        /\ outbox[k].state = "leased" => outbox[k].attempts > 0
        /\ outbox[k].state = "delivered" => k \in sent
        /\ outbox[k].state = "dead" => outbox[k].attempts = MaxAttempts

Key(i, m, n, r) == [incident |-> i, count |-> m, level |-> n, route |-> r]

CursorsFit ==
    \A i \in Incidents :
        /\ incident[i].level <= MaxLevel
        /\ incident[i].status # "none" => incident[i].count > 0
        /\ \A n \in 1 .. incident[i].level : \E m \in 1 .. incident[i].count :
            \A r \in Routes : outbox[Key(i, m, n, r)].state # "none"

HoldersFit ==
    \A s \in Schedulers : lag[s] < LEASE => \A k \in held[s] \ robbed :
        /\ outbox[k].state = "leased" /\ outbox[k].holder = s
        /\ outbox[k].wait >= LEASE - lag[s]

OutboxInv == TypeOK /\ JobFits /\ RowsFit /\ CursorsFit /\ HoldersFit

-----------------------------------------------------------------------------
(* What the operators do to a row.                                          *)

LEMMA EndedRow ==
    ASSUME NEW x \in OutboxRow, NEW e \in Ends
    PROVE  /\ Ended(x, e) \in OutboxRow
           /\ Ended(x, e).state = e /\ Ended(x, e).attempts = x.attempts
           /\ Ended(x, e).holder = Nobody
<1>1. 0 \in Rest
  BY IncidentAssumption, OutboxAssumption DEF Rest
<1> QED
  BY <1>1 DEF OutboxRow, Ended

LEMMA WaitedRow ==
    ASSUME NEW x \in OutboxRow
    PROVE  /\ Waited(x) \in OutboxRow
           /\ Waited(x).state = x.state /\ Waited(x).attempts = x.attempts
           /\ Waited(x).holder = x.holder
           /\ Waited(x).wait >= x.wait - 1
<1>1. x.wait \in Rest /\ HORIZON \in Nat
  BY IncidentAssumption DEF OutboxRow
<1>2. CASE x.state \in {"pending", "leased"} /\ x.wait > -HORIZON
  <2>1. x.wait - 1 \in Rest
    BY <1>1, <1>2, OutboxAssumption DEF Rest
  <2> QED
    BY <1>1, <1>2, <2>1 DEF OutboxRow, Waited, Rest
<1>3. CASE ~(x.state \in {"pending", "leased"} /\ x.wait > -HORIZON)
  BY <1>1, <1>3, OutboxAssumption DEF Waited, Rest
<1> QED
  BY <1>2, <1>3

LEMMA NewRow ==
    ASSUME NEW w \in Rest
    PROVE  LET x == [NoRow EXCEPT !.state = "pending", !.wait = w]
           IN  /\ x \in OutboxRow
               /\ x.state = "pending" /\ x.holder = Nobody /\ x.attempts = 0
<1>1. NoRow \in OutboxRow /\ NoRow.holder = Nobody /\ NoRow.attempts = 0
  BY IncidentAssumption, OutboxAssumption DEF NoRow, OutboxRow, Rest
<1> QED
  BY <1>1 DEF OutboxRow

LEMMA FirstEventRow ==
    LET x == [NoIncident EXCEPT !.status = "open", !.count = 1]
    IN  x \in IncidentRow /\ x.count = 1 /\ x.level = 0
<1>1. NoIncident \in IncidentRow /\ NoIncident.level = 0
  <2>1. 0 \in Age /\ 0 \in 0 .. MaxOccurrences /\ 0 \in 0 .. SNOOZE /\ 0 \in Nat
        /\ "none" \in IncidentStatuses
    BY IncidentAssumption DEF Age, IncidentStatuses
  <2> QED
    BY <2>1 DEF NoIncident, IncidentRow
<1>2. 1 \in 0 .. MaxOccurrences /\ "open" \in IncidentStatuses
  BY IncidentAssumption DEF IncidentStatuses
<1>3. ASSUME NEW x \in IncidentRow
      PROVE  /\ [x EXCEPT !.status = "open", !.count = 1] \in IncidentRow
             /\ [x EXCEPT !.status = "open", !.count = 1].count = 1
             /\ [x EXCEPT !.status = "open", !.count = 1].level = x.level
  BY <1>2 DEF IncidentRow
<1> QED
  BY <1>1, <1>3

LEMMA FoldedRow ==
    ASSUME NEW x \in IncidentRow, x.count < MaxOccurrences
    PROVE  /\ Folded(x) \in IncidentRow
           /\ Folded(x).count = x.count + 1
           /\ Folded(x).level \in {0, x.level}
<1> USE IncidentAssumption
<1>1. x.count + 1 \in 0 .. MaxOccurrences /\ 0 \in 0 .. SNOOZE /\ 0 \in Nat
      /\ "open" \in IncidentStatuses /\ Null \in Age \cup {Null}
  BY DEF IncidentRow, IncidentStatuses
<1>2. ASSUME NEW c \in 0 .. MaxOccurrences, c = x.count + 1 PROVE Folded(x) \in IncidentRow
  <2>1. [x EXCEPT !.count = c, !.status = "open", !.level = 0, !.notified = Null,
                  !.snooze = 0] \in IncidentRow
    BY <1>1 DEF IncidentRow
  <2>2. [x EXCEPT !.count = c, !.status = "open"] \in IncidentRow
    BY <1>1 DEF IncidentRow
  <2>3. [x EXCEPT !.count = c] \in IncidentRow
    BY <1>1 DEF IncidentRow
  <2> QED
    BY <1>2, <2>1, <2>2, <2>3 DEF Folded
<1> QED
  BY <1>1, <1>2 DEF IncidentRow, Folded

LEMMA RetryDelayType ==
    ASSUME NEW n \in Nat \ {0}
    PROVE  RetryDelay(n) \in 0 .. MaxDelay
<1> DEFINE p == 2^(n - 1)
<1>1. p \in Nat
  <2>1. IsFiniteSet(1 .. n - 1) /\ Cardinality(1 .. n - 1) = n - 1
    BY FS_Interval
  <2>2. IsFiniteSet(SUBSET (1 .. n - 1)) /\ Cardinality(SUBSET (1 .. n - 1)) = 2^(n - 1)
    BY <2>1, FS_SUBSET
  <2> QED
    BY <2>2, FS_CardinalityType
<1> HIDE DEF p
<1>2. BASE * p \in Nat
  BY <1>1, OutboxAssumption
<1> QED
  BY <1>2, OutboxAssumption DEF RetryDelay, p

-----------------------------------------------------------------------------
(* What most steps have in common.                                          *)

\* Rows are not deleted and attempts are not forgotten.
RowsGoOn ==
    /\ outbox' \in [Keys -> OutboxRow]
    /\ \A k \in Keys :
        /\ outbox'[k].holder # Nobody <=> outbox'[k].state = "leased"
        /\ outbox[k].state # "none" => outbox'[k].state # "none"
        /\ outbox'[k].attempts >= outbox[k].attempts

\* The cursors of the incidents stay, or start again.
CursorsStay ==
    /\ incident' \in [Incidents -> IncidentRow]
    /\ \A i \in Incidents :
        /\ incident'[i].count >= incident[i].count
        /\ incident'[i].level \in {0, incident[i].level}
        /\ incident'[i].status # "none" => incident'[i].count > 0

LEMMA SameIncidents ==
    ASSUME OutboxInv, UNCHANGED incident
    PROVE  CursorsStay
BY IncidentAssumption
DEF OutboxInv, TypeOK, IncidentTypeOK, IncidentRow, CursorsFit, CursorsStay

LEMMA SameRows ==
    ASSUME OutboxInv, UNCHANGED outbox
    PROVE  RowsGoOn
BY OutboxAssumption DEF OutboxInv, TypeOK, OutboxRow, RowsGoOn

LEMMA CursorsGoOn ==
    ASSUME OutboxInv, RowsGoOn, CursorsStay
    PROVE  CursorsFit'
<1> USE IncidentAssumption, OutboxAssumption DEF CursorsStay
<1> SUFFICES ASSUME NEW i \in Incidents
             PROVE  /\ incident'[i].level <= MaxLevel
                    /\ \A n \in 1 .. incident'[i].level : \E m \in 1 .. incident'[i].count :
                        \A r \in Routes : outbox'[Key(i, m, n, r)].state # "none"
  BY DEF CursorsFit
<1>1. /\ incident[i].level \in 0 .. MaxLevel
      /\ incident[i].count \in 0 .. MaxOccurrences /\ incident'[i].count \in Nat
  BY DEF OutboxInv, TypeOK, IncidentTypeOK, CursorsFit, IncidentRow
<1>2. incident'[i].level <= MaxLevel
  BY <1>1
<1>3. ASSUME NEW n \in 1 .. incident'[i].level
      PROVE  \E m \in 1 .. incident'[i].count :
                \A r \in Routes : outbox'[Key(i, m, n, r)].state # "none"
  <2>1. n \in 1 .. incident[i].level /\ n \in 1 .. MaxLevel
    BY <1>1
  <2>2. PICK m \in 1 .. incident[i].count :
            \A r \in Routes : outbox[Key(i, m, n, r)].state # "none"
    BY <2>1 DEF OutboxInv, CursorsFit
  <2>3. m \in 1 .. incident'[i].count /\ m \in 1 .. MaxOccurrences
    BY <1>1
  <2>4. \A r \in Routes : Key(i, m, n, r) \in Keys
    BY <2>1, <2>3 DEF Key, Keys
  <2>5. \A r \in Routes : outbox'[Key(i, m, n, r)].state # "none"
    BY <2>2, <2>4 DEF RowsGoOn
  <2> QED
    BY <2>3, <2>5
<1> QED
  BY <1>2, <1>3

-----------------------------------------------------------------------------
(* The steps.                                                               *)

\* Steps that do not move the runs.
LEMMA JobsStay ==
    ASSUME OutboxInv, RowsGoOn, CursorsStay, lag' \in [Schedulers -> Age],
           UNCHANGED <<pc, todo, view, held, cur, read, sent, robbed>>
    PROVE  TypeOK' /\ JobFits' /\ CursorsFit'
<1>1. TypeOK'
  <2>1. IncidentTypeOK'
    BY DEF CursorsStay, IncidentTypeOK, IncidentRow
  <2>2. /\ outbox' \in [Keys -> OutboxRow]
        /\ \A k \in Keys : outbox'[k].holder # Nobody <=> outbox'[k].state = "leased"
    BY DEF RowsGoOn
  <2> QED
    BY <2>1, <2>2 DEF OutboxInv, TypeOK, OutboxRow
<1>2. JobFits'
  <2> SUFFICES ASSUME NEW t \in Schedulers
               PROVE  /\ pc[t] = "insert" => view[t].count \in 1 .. incident'[cur[t]].count
                      /\ pc[t] = "release" => read[t] \in 1 .. outbox'[cur[t]].attempts
    BY DEF OutboxInv, JobFits
  <2>1. ASSUME pc[t] = "insert" PROVE view[t].count \in 1 .. incident'[cur[t]].count
    <3>1. cur[t] \in Incidents /\ view[t].count \in 1 .. incident[cur[t]].count
      BY <2>1 DEF OutboxInv, TypeOK, JobFits
    <3>2. incident[cur[t]].count \in Nat /\ incident'[cur[t]].count \in Nat
      BY <3>1, IncidentAssumption
      DEF OutboxInv, TypeOK, IncidentTypeOK, CursorsStay, IncidentRow
    <3> QED
      BY <3>1, <3>2 DEF CursorsStay
  <2>2. ASSUME pc[t] = "release" PROVE read[t] \in 1 .. outbox'[cur[t]].attempts
    <3>1. cur[t] \in Keys /\ read[t] \in 1 .. outbox[cur[t]].attempts
      BY <2>2 DEF OutboxInv, TypeOK, JobFits
    <3>2. outbox[cur[t]].attempts \in Nat /\ outbox'[cur[t]].attempts \in Nat
      BY <3>1, OutboxAssumption DEF OutboxInv, TypeOK, RowsGoOn, OutboxRow
    <3> QED
      BY <3>1, <3>2 DEF RowsGoOn
  <2> QED
    BY <2>1, <2>2
<1> QED
  BY <1>1, <1>2, CursorsGoOn

\* A run puts its row aside, perhaps ended or waiting again.
LEMMA NextRowKeeps ==
    ASSUME OutboxInv, NEW s \in Schedulers, NextRow(s),
           pc[s] \in {"cancel", "sent", "failed", "release"},
           UNCHANGED <<incident, todo, view, lag, sent>>,
           robbed' \in {robbed, robbed \cup {cur[s]}},
           NEW row \in OutboxRow,
           row.holder = Nobody, row.state \notin {"none", "leased"},
           row.attempts = outbox[cur[s]].attempts,
           row.state = "delivered" => cur[s] \in sent,
           row.state = "dead" => row.attempts = MaxAttempts,
           \/ outbox' = outbox
           \/ /\ outbox' = [outbox EXCEPT ![cur[s]] = row]
              /\ outbox[cur[s]].holder = s \/ cur[s] \in robbed'
    PROVE  OutboxInv'
<1> USE IncidentAssumption, OutboxAssumption DEF OutboxInv, NextRow, Goto
<1>0. cur[s] \in held[s] /\ cur[s] \in Keys /\ outbox[cur[s]] \in OutboxRow
      /\ \A k \in Keys : outbox[k].attempts \in Nat
  BY DEF TypeOK, OutboxRow
<1>1. RowsGoOn
  <2>1. CASE outbox' = outbox
    BY <2>1, SameRows
  <2>2. CASE outbox' = [outbox EXCEPT ![cur[s]] = row]
    <3>1. outbox' \in [Keys -> OutboxRow]
      BY <1>0, <2>2 DEF TypeOK, OutboxRow
    <3> QED
      BY <1>0, <2>2, <3>1 DEF TypeOK, RowsGoOn
  <2> QED
    BY <2>1, <2>2
<1>2. TypeOK'
  <2>1. /\ outbox' \in [Keys -> OutboxRow]
        /\ \A k \in Keys : outbox'[k].holder # Nobody <=> outbox'[k].state = "leased"
    BY <1>1 DEF RowsGoOn
  <2>2. robbed' \subseteq Keys /\ held' \in [Schedulers -> SUBSET Keys]
    BY <1>0 DEF TypeOK
  <2> QED
    BY <2>1, <2>2 DEF TypeOK, IncidentTypeOK, OutboxRow
<1>3. JobFits'
  <2>1. ASSUME NEW t \in Schedulers, pc'[t] = "release"
        PROVE  read'[t] \in 1 .. outbox'[cur'[t]].attempts
    <3>1. t # s /\ pc[t] = "release" /\ cur'[t] = cur[t] /\ read'[t] = read[t]
          /\ cur[t] \in Keys
      BY <2>1 DEF TypeOK
    <3>2. outbox'[cur[t]].attempts = outbox[cur[t]].attempts
      BY <1>0, <3>1 DEF TypeOK
    <3> QED
      BY <3>1, <3>2 DEF JobFits
  <2>2. \A t \in Schedulers :
            /\ held'[t] # {} => pc'[t] \in {"lease", "look", "send", "cancel", "sent",
                                            "failed", "release"}
            /\ pc'[t] = "sent" => cur'[t] \in sent'
            /\ pc'[t] = "insert" =>
                view'[t].level < MaxLevel /\ view'[t].count \in 1 .. incident'[cur'[t]].count
    BY DEF TypeOK, JobFits
  <2> QED
    BY <2>1, <2>2 DEF JobFits
<1>4. RowsFit'
  <2>1. \A k \in Keys : outbox'[k] = IF k = cur[s] /\ outbox' # outbox THEN row ELSE outbox[k]
    BY <1>0 DEF TypeOK
  <2> QED
    BY <1>0, <2>1 DEF RowsFit
<1>5. CursorsFit'
  BY <1>1, SameIncidents, CursorsGoOn
<1>6. HoldersFit'
  <2> SUFFICES ASSUME NEW t \in Schedulers, lag[t] < LEASE, NEW k \in held'[t] \ robbed'
               PROVE  outbox'[k] = outbox[k] /\ k \in held[t] \ robbed
    BY DEF HoldersFit
  <2>1. k \in held[t] \ robbed /\ k \in Keys
    BY DEF TypeOK
  <2>2. outbox[k].holder = t
    BY <2>1 DEF HoldersFit
  <2>3. t = s => k # cur[s]
    BY DEF TypeOK
  <2> QED
    BY <1>0, <2>1, <2>2, <2>3 DEF TypeOK
<1> QED
  BY <1>2, <1>3, <1>4, <1>5, <1>6

LEMMA JobStartsKeeps ==
    ASSUME OutboxInv, NEW s \in Schedulers, JobStarts(s)
    PROVE  OutboxInv'
<1> USE IncidentAssumption, OutboxAssumption
    DEF OutboxInv, JobStarts, history, Goto
<1>1. TypeOK'
  BY DEF TypeOK, IncidentTypeOK
<1>2. JobFits'
  BY DEF TypeOK, IncidentTypeOK, JobFits
<1>3. RowsFit'
  BY DEF TypeOK, RowsFit
<1>4. CursorsFit'
  BY DEF TypeOK, IncidentTypeOK, CursorsFit
<1>5. HoldersFit'
  BY DEF TypeOK, JobFits, HoldersFit
<1> QED
  BY <1>1, <1>2, <1>3, <1>4, <1>5

LEMMA PassKeeps ==
    ASSUME OutboxInv, NEW s \in Schedulers, NEW i \in Incidents, Pass(s, i)
    PROVE  OutboxInv'
<1> USE IncidentAssumption, OutboxAssumption
    DEF OutboxInv, Pass, history, Goto
<1>1. TypeOK'
  BY DEF TypeOK, IncidentTypeOK
<1>2. JobFits'
  BY DEF TypeOK, IncidentTypeOK, JobFits
<1>3. RowsFit'
  BY DEF TypeOK, RowsFit
<1>4. CursorsFit'
  BY DEF TypeOK, IncidentTypeOK, CursorsFit
<1>5. HoldersFit'
  BY DEF TypeOK, JobFits, HoldersFit
<1> QED
  BY <1>1, <1>2, <1>3, <1>4, <1>5

LEMMA ReadIncidentKeeps ==
    ASSUME OutboxInv, NEW s \in Schedulers, NEW i \in Incidents, ReadIncident(s, i)
    PROVE  OutboxInv'
<1> USE IncidentAssumption, OutboxAssumption
    DEF OutboxInv, ReadIncident, history, Goto, Read, EscalationIsDue, Active
<1>1. TypeOK'
  BY DEF TypeOK, IncidentTypeOK
<1>2. JobFits'
  <2>1. view'[s].level < MaxLevel /\ view'[s].count \in 1 .. incident'[i].count
    BY DEF TypeOK, IncidentTypeOK, CursorsFit
  <2> QED
    BY <2>1 DEF TypeOK, IncidentTypeOK, JobFits
<1>3. RowsFit'
  BY DEF TypeOK, RowsFit
<1>4. CursorsFit'
  BY DEF TypeOK, IncidentTypeOK, CursorsFit
<1>5. HoldersFit'
  BY DEF TypeOK, JobFits, HoldersFit
<1> QED
  BY <1>1, <1>2, <1>3, <1>4, <1>5

LEMMA EnqueueKeeps ==
    ASSUME OutboxInv, NEW s \in Schedulers, Enqueue(s)
    PROVE  OutboxInv'
<1> USE IncidentAssumption, OutboxAssumption DEF OutboxInv, history, Goto, NextIncident
<1> DEFINE i == cur[s]
           new == [NoRow EXCEPT !.state = "pending", !.wait = -lag[s]]
<1>0. /\ pc[s] = "insert" /\ i \in Incidents
      /\ view[s].level < MaxLevel /\ view[s].count \in 1 .. incident[i].count
      /\ view[s].level \in Nat /\ lag[s] \in 0 .. HORIZON
  BY DEF Enqueue, TypeOK, JobFits, Age
<1>1. new \in OutboxRow /\ new.state = "pending" /\ new.holder = Nobody /\ new.attempts = 0
  <2>1. -lag[s] \in Rest
    BY <1>0 DEF Rest
  <2> QED
    BY <2>1, NewRow
<1>2. \/ UNCHANGED <<incident, outbox>>
      \/ /\ incident[i].level = view[s].level
         /\ \A k \in NextRows(s) : outbox[k] = NoRow
         /\ incident' = [incident EXCEPT ![i].level = view[s].level + 1, ![i].notified = lag[s]]
         /\ outbox' = [k \in Keys |-> IF k \in NextRows(s) THEN new ELSE outbox[k]]
  BY DEF Enqueue, CursorStands, DedupKeysAreFree, Escalated, Inserted
<1>3. /\ cur' = [cur EXCEPT ![s] = Nothing] /\ pc' = [pc EXCEPT ![s] = "enqueue"]
      /\ view' = [view EXCEPT ![s] = Read(NoIncident)]
      /\ UNCHANGED <<todo, held, lag, read, sent, robbed>>
  BY DEF Enqueue
<1>4. RowsGoOn
  <2>1. CASE UNCHANGED outbox
    BY <2>1, SameRows
  <2>2. CASE /\ \A k \in NextRows(s) : outbox[k] = NoRow
             /\ outbox' = [k \in Keys |-> IF k \in NextRows(s) THEN new ELSE outbox[k]]
    <3> HIDE DEF new
    <3>1. NoRow.state = "none" /\ NoRow.attempts = 0
      BY DEF NoRow
    <3>2. outbox \in [Keys -> OutboxRow] /\ \A k \in Keys : outbox[k].attempts \in Nat
      BY DEF TypeOK, OutboxRow
    <3>3. outbox' \in [Keys -> OutboxRow]
      BY <1>1, <2>2, <3>2
    <3> QED
      BY <1>1, <2>2, <3>1, <3>2, <3>3 DEF TypeOK, RowsGoOn
  <2> QED
    BY <1>2, <2>1, <2>2
<1>5. /\ incident' \in [Incidents -> IncidentRow]
      /\ \A x \in Incidents : /\ incident'[x].count = incident[x].count
                              /\ incident'[x].status = incident[x].status
  <2>1. CASE UNCHANGED incident
    BY <2>1 DEF TypeOK, IncidentTypeOK, IncidentRow
  <2>2. CASE incident' = [incident EXCEPT ![i].level = view[s].level + 1,
                                          ![i].notified = lag[s]]
    <3> DEFINE row == [incident[i] EXCEPT !.level = view[s].level + 1, !.notified = lag[s]]
    <3>1. incident \in [Incidents -> IncidentRow]
      BY DEF TypeOK, IncidentTypeOK, IncidentRow
    <3>2. incident[i] \in IncidentRow /\ view[s].level + 1 \in Nat /\ lag[s] \in Age
      BY <1>0, <3>1 DEF Age
    <3>3. row \in IncidentRow /\ row.count = incident[i].count
          /\ row.status = incident[i].status
      BY <3>2 DEF IncidentRow
    <3>4. incident' = [incident EXCEPT ![i] = row]
      BY <2>2
    <3> HIDE DEF row, i
    <3> QED
      BY <1>0, <3>1, <3>3, <3>4
  <2> QED
    BY <1>2, <2>1, <2>2
<1>6. TypeOK'
  <2>1. view' \in [Schedulers -> [status : IncidentStatuses, count : Nat, level : Nat]]
    BY <1>3 DEF TypeOK, Read, NoIncident, IncidentStatuses
  <2>2. IncidentTypeOK'
    BY <1>5 DEF IncidentTypeOK, IncidentRow
  <2>3. /\ outbox' \in [Keys -> OutboxRow]
        /\ \A k \in Keys : outbox'[k].holder # Nobody <=> outbox'[k].state = "leased"
    BY <1>4 DEF RowsGoOn
  <2>4. todo'[s] \subseteq Incidents
    BY <1>0, <1>3 DEF TypeOK
  <2> QED
    BY <1>3, <2>1, <2>2, <2>3, <2>4 DEF TypeOK, OutboxRow
<1>7. JobFits'
  <2>1. ASSUME NEW t \in Schedulers, pc'[t] = "release" PROVE read'[t] \in 1 .. outbox'[cur'[t]].attempts
    <3>1. t # s /\ pc[t] = "release" /\ cur[t] \in Keys
      BY <1>0, <1>3, <2>1 DEF TypeOK
    <3>2. /\ outbox'[cur[t]].attempts >= outbox[cur[t]].attempts
          /\ outbox'[cur[t]].attempts \in Nat /\ outbox[cur[t]].attempts \in Nat
      BY <1>4, <3>1 DEF RowsGoOn, OutboxRow, TypeOK
    <3>3. read[t] \in 1 .. outbox[cur[t]].attempts
      BY <3>1 DEF JobFits
    <3> QED
      BY <1>3, <3>1, <3>2, <3>3
  <2>2. ASSUME NEW t \in Schedulers, pc'[t] = "insert"
        PROVE  view'[t].level < MaxLevel /\ view'[t].count \in 1 .. incident'[cur'[t]].count
    BY <1>0, <1>3, <1>5, <2>2 DEF TypeOK, JobFits
  <2>3. \A t \in Schedulers :
            /\ held'[t] # {} => pc'[t] \in {"lease", "look", "send", "cancel", "sent",
                                            "failed", "release"}
            /\ pc'[t] = "sent" => cur'[t] \in sent'
    BY <1>0, <1>3 DEF TypeOK, JobFits
  <2> QED
    BY <2>1, <2>2, <2>3 DEF JobFits
<1>8. RowsFit'
  <2>1. \A k \in Keys : outbox'[k] = outbox[k] \/ outbox'[k] = new
    BY <1>2
  <2> HIDE DEF new
  <2> QED
    BY <1>1, <1>3, <2>1 DEF RowsFit
<1>9. CursorsFit'
  <2>1. CASE UNCHANGED incident
    BY <1>4, <2>1, SameIncidents, CursorsGoOn
  <2>2. CASE /\ incident[i].level = view[s].level
             /\ incident' = [incident EXCEPT ![i].level = view[s].level + 1, ![i].notified = lag[s]]
             /\ outbox' = [k \in Keys |-> IF k \in NextRows(s) THEN new ELSE outbox[k]]
    <3> SUFFICES ASSUME NEW x \in Incidents
                 PROVE  /\ incident'[x].level <= MaxLevel
                        /\ \A n \in 1 .. incident'[x].level :
                            \E m \in 1 .. incident'[x].count :
                                \A r \in Routes : outbox'[Key(x, m, n, r)].state # "none"
      BY <1>5 DEF CursorsFit
    <3>1. /\ incident'[x].level = IF x = i THEN incident[x].level + 1 ELSE incident[x].level
          /\ incident[x].level \in 0 .. MaxLevel
          /\ incident[x].count \in 0 .. MaxOccurrences
      BY <1>0, <2>2 DEF TypeOK, IncidentTypeOK, CursorsFit
    <3>2. incident'[x].level <= MaxLevel
      BY <1>0, <2>2, <3>1
    <3>3. ASSUME NEW n \in 1 .. incident[x].level
          PROVE  \E m \in 1 .. incident'[x].count :
                    \A r \in Routes : outbox'[Key(x, m, n, r)].state # "none"
      <4>1. PICK m \in 1 .. incident[x].count :
                \A r \in Routes : outbox[Key(x, m, n, r)].state # "none"
        BY <3>3 DEF CursorsFit
      <4>2. \A r \in Routes : Key(x, m, n, r) \in Keys
        BY <3>1 DEF Key, Keys
      <4>3. \A r \in Routes : outbox'[Key(x, m, n, r)].state # "none"
        BY <1>4, <4>1, <4>2 DEF RowsGoOn
      <4> QED
        BY <1>5, <4>3
    <3>4. ASSUME x = i, NEW n, n = incident[i].level + 1
          PROVE  \E m \in 1 .. incident'[x].count :
                    \A r \in Routes : outbox'[Key(x, m, n, r)].state # "none"
      <4> DEFINE m == view[s].count
      <4>1. m \in 1 .. incident'[x].count /\ m \in 1 .. MaxOccurrences /\ n \in 1 .. MaxLevel
        BY <1>0, <1>5, <2>2, <3>1, <3>4
      <4>2. \A r \in Routes : Key(x, m, n, r) \in NextRows(s) /\ Key(x, m, n, r) \in Keys
        BY <2>2, <3>4, <4>1 DEF Key, Keys, NextRows
      <4> HIDE DEF new, m
      <4>3. \A r \in Routes : outbox'[Key(x, m, n, r)].state # "none"
        BY <1>1, <2>2, <4>2
      <4> QED
        BY <4>1, <4>3
    <3> QED
      BY <3>1, <3>2, <3>3, <3>4
  <2> QED
    BY <1>2, <2>1, <2>2
<1>10. HoldersFit'
  <2>1. ASSUME NEW k \in Keys, outbox[k].state = "leased" PROVE outbox'[k] = outbox[k]
    BY <1>2, <2>1 DEF NoRow
  <2> QED
    BY <1>3, <2>1 DEF TypeOK, HoldersFit
<1> QED
  BY <1>6, <1>7, <1>8, <1>9, <1>10

LEMMA EnqueueEndsKeeps ==
    ASSUME OutboxInv, NEW s \in Schedulers, EnqueueEnds(s)
    PROVE  OutboxInv'
<1> USE IncidentAssumption, OutboxAssumption
    DEF OutboxInv, EnqueueEnds, history, Goto
<1>1. TypeOK'
  BY DEF TypeOK, IncidentTypeOK
<1>2. JobFits'
  BY DEF TypeOK, IncidentTypeOK, JobFits
<1>3. RowsFit'
  BY DEF TypeOK, RowsFit
<1>4. CursorsFit'
  BY DEF TypeOK, IncidentTypeOK, CursorsFit
<1>5. HoldersFit'
  BY DEF TypeOK, JobFits, HoldersFit
<1> QED
  BY <1>1, <1>2, <1>3, <1>4, <1>5

LEMMA SweepKeeps ==
    ASSUME OutboxInv, NEW s \in Schedulers, Sweep(s)
    PROVE  OutboxInv'
<1> USE IncidentAssumption, OutboxAssumption DEF OutboxInv
<1>1. /\ pc[s] = "sweep" /\ pc' = [pc EXCEPT ![s] = "lease"]
      /\ lag' = [lag EXCEPT ![s] = 0]
      /\ UNCHANGED <<incident, view, held, cur, read, sent, robbed>>
  BY DEF Sweep, Goto, history
<1>2. todo' = [todo EXCEPT ![s] = todo'[s]] /\ todo'[s] \subseteq Keys
  BY DEF Sweep, TypeOK
<1>3. \A k \in Keys : outbox[k] \in OutboxRow /\ outbox[k].attempts \in 0 .. MaxAttempts
  BY DEF TypeOK, OutboxRow
<1>4. ASSUME NEW k \in Keys
      PROVE  \/ outbox'[k] = outbox[k]
             \/ /\ Due(k, 0)
                /\ \/ outbox'[k] = Ended(outbox[k], "cancelled")
                   \/ /\ outbox'[k] = Ended(outbox[k], "dead")
                      /\ outbox[k].attempts >= MaxAttempts
  BY DEF Sweep
<1>5. ASSUME NEW k \in Keys
      PROVE  /\ outbox'[k] \in OutboxRow
             /\ outbox'[k].holder # Nobody <=> outbox'[k].state = "leased"
             /\ outbox[k].state # "none" => outbox'[k].state # "none"
             /\ outbox'[k].attempts = outbox[k].attempts
             /\ outbox'[k].state \in {outbox[k].state, "cancelled", "dead"}
             /\ outbox'[k].state = "dead" => \/ outbox[k].state = "dead"
                                            \/ outbox[k].attempts >= MaxAttempts
  <2>1. CASE outbox'[k] = outbox[k]
    BY <1>3, <2>1 DEF TypeOK
  <2>2. CASE outbox'[k] = Ended(outbox[k], "cancelled")
    BY <1>3, <2>2, EndedRow DEF Ends
  <2>3. CASE outbox'[k] = Ended(outbox[k], "dead") /\ outbox[k].attempts >= MaxAttempts
    BY <1>3, <2>3, EndedRow DEF Ends
  <2> QED
    BY <1>4, <2>1, <2>2, <2>3
<1>6. RowsGoOn
  <2>1. outbox' = [k \in Keys |-> outbox'[k]]
    BY DEF Sweep
  <2>2. outbox' \in [Keys -> OutboxRow]
    BY <1>5, <2>1
  <2> QED
    BY <1>3, <1>5, <2>2 DEF RowsGoOn
<1>7. TypeOK'
  <2>1. /\ outbox' \in [Keys -> OutboxRow]
        /\ \A k \in Keys : outbox'[k].holder # Nobody <=> outbox'[k].state = "leased"
    BY <1>6 DEF RowsGoOn
  <2>2. lag' \in [Schedulers -> Age] /\ todo' \in [Schedulers -> (SUBSET Incidents) \cup (SUBSET Keys)]
    BY <1>1, <1>2 DEF TypeOK, Age
  <2> QED
    BY <1>1, <1>2, <2>1, <2>2 DEF TypeOK, IncidentTypeOK, OutboxRow
<1>8. JobFits'
  <2>1. ASSUME NEW t \in Schedulers, pc'[t] = "release"
        PROVE  read'[t] \in 1 .. outbox'[cur'[t]].attempts
    <3>1. pc[t] = "release" /\ cur[t] \in Keys
      BY <1>1, <2>1 DEF TypeOK
    <3> QED
      BY <1>1, <1>5, <3>1 DEF JobFits
  <2> QED
    BY <1>1, <2>1 DEF TypeOK, JobFits
<1>9. RowsFit'
  BY <1>1, <1>3, <1>5 DEF RowsFit
<1>10. CursorsFit'
  BY <1>1, <1>6, SameIncidents, CursorsGoOn
<1>11. HoldersFit'
  <2> SUFFICES ASSUME NEW t \in Schedulers, lag'[t] < LEASE, NEW k \in held[t] \ robbed
               PROVE  lag'[t] = lag[t] /\ outbox'[k] = outbox[k]
    BY <1>1 DEF HoldersFit
  <2>1. t # s /\ lag'[t] = lag[t] /\ k \in Keys
    BY <1>1 DEF TypeOK, JobFits
  <2>2. outbox[k].wait >= LEASE - lag[t] /\ lag[t] \in Nat /\ outbox[k].wait \in Int
    BY <1>3, <2>1 DEF HoldersFit, TypeOK, Age, OutboxRow, Rest
  <2>3. ~Due(k, 0)
    BY <2>1, <2>2 DEF Due
  <2> QED
    BY <1>4, <2>1, <2>3
<1> QED
  BY <1>7, <1>8, <1>9, <1>10, <1>11

LEMMA LeaseKeeps ==
    ASSUME OutboxInv, NEW s \in Schedulers, NEW k \in Keys, Lease(s, k)
    PROVE  OutboxInv'
<1> USE IncidentAssumption, OutboxAssumption DEF OutboxInv
<1> DEFINE row == [state |-> "leased", attempts |-> outbox[k].attempts + 1,
                   holder |-> s, wait |-> LEASE - lag[s]]
<1>1. /\ pc[s] = "lease" /\ k \in todo[s] /\ todo' = [todo EXCEPT ![s] = @ \ {k}]
      /\ UNCHANGED <<incident, pc, view, cur, lag, read, sent, robbed>>
  BY DEF Lease, history
<1>2. \/ UNCHANGED <<outbox, held>>
      \/ /\ Due(k, lag[s]) /\ outbox[k].attempts < MaxAttempts
         /\ outbox' = [outbox EXCEPT ![k] = row]
         /\ held' = [held EXCEPT ![s] = @ \cup {k}]
  BY DEF Lease, Leasable, TypeOK
<1>3. /\ outbox \in [Keys -> OutboxRow]
      /\ \A l \in Keys : outbox[l].attempts \in 0 .. MaxAttempts /\ outbox[l].wait \in Int
      /\ \A t \in Schedulers : lag[t] \in 0 .. HORIZON
  BY DEF TypeOK, OutboxRow, Age, Rest
<1>4. CASE UNCHANGED <<outbox, held>>
  <2>1. TypeOK'
    BY <1>1, <1>4 DEF TypeOK, IncidentTypeOK
  <2>2. JobFits' /\ RowsFit' /\ CursorsFit' /\ HoldersFit'
    BY <1>1, <1>4 DEF JobFits, RowsFit, CursorsFit, HoldersFit
  <2> QED
    BY <2>1, <2>2
<1>5. CASE /\ Due(k, lag[s]) /\ outbox[k].attempts < MaxAttempts
           /\ outbox' = [outbox EXCEPT ![k] = row]
           /\ held' = [held EXCEPT ![s] = @ \cup {k}]
  <2>1. /\ row \in OutboxRow /\ row.state = "leased" /\ row.holder = s /\ s # Nobody
        /\ row.attempts = outbox[k].attempts + 1 /\ row.wait = LEASE - lag[s]
    <3>1. LEASE - lag[s] \in Rest /\ outbox[k].attempts + 1 \in 0 .. MaxAttempts
      BY <1>3, <1>5 DEF Rest
    <3> QED
      BY <3>1 DEF OutboxRow
  <2> HIDE DEF row
  <2>2. outbox[k].state \in {"pending", "leased"} /\ outbox[k].wait + lag[s] <= 0
    BY <1>5 DEF Due
  <2>3. /\ outbox' \in [Keys -> OutboxRow]
        /\ \A l \in Keys : outbox'[l] = IF l = k THEN row ELSE outbox[l]
    BY <1>3, <1>5, <2>1
  <2>4. RowsGoOn
    BY <1>3, <2>1, <2>3 DEF TypeOK, RowsGoOn
  <2>5. TypeOK'
    <3>1. /\ \A l \in Keys : outbox'[l].holder # Nobody <=> outbox'[l].state = "leased"
          /\ held' \in [Schedulers -> SUBSET Keys]
          /\ todo' \in [Schedulers -> (SUBSET Incidents) \cup (SUBSET Keys)]
      BY <1>1, <1>5, <2>4 DEF TypeOK, RowsGoOn
    <3> QED
      BY <1>1, <1>5, <2>3, <3>1 DEF TypeOK, IncidentTypeOK, OutboxRow
  <2>6. JobFits'
    <3>1. ASSUME NEW t \in Schedulers, pc'[t] = "release"
          PROVE  read'[t] \in 1 .. outbox'[cur'[t]].attempts
      <4>1. pc[t] = "release" /\ cur[t] \in Keys /\ cur'[t] = cur[t] /\ read'[t] = read[t]
        BY <1>1, <3>1 DEF TypeOK
      <4>2. outbox'[cur[t]].attempts \in Nat /\ outbox'[cur[t]].attempts >= outbox[cur[t]].attempts
        BY <1>3, <2>1, <2>3, <4>1
      <4> QED
        BY <1>3, <4>1, <4>2 DEF JobFits
    <3> QED
      BY <1>1, <1>5, <3>1 DEF TypeOK, JobFits
  <2>7. RowsFit'
    BY <1>1, <1>3, <2>1, <2>3 DEF RowsFit
  <2>8. CursorsFit'
    BY <1>1, <2>4, SameIncidents, CursorsGoOn
  <2>9. HoldersFit'
    <3> SUFFICES ASSUME NEW t \in Schedulers, lag[t] < LEASE, NEW l \in held'[t] \ robbed
                 PROVE  /\ outbox'[l].state = "leased" /\ outbox'[l].holder = t
                        /\ outbox'[l].wait >= LEASE - lag[t]
      BY <1>1 DEF HoldersFit
    <3>1. l \in Keys
      BY <1>5 DEF TypeOK
    <3>2. CASE t = s /\ l = k
      BY <1>3, <2>1, <2>3, <3>2
    <3>3. CASE l \in held[t]
      <4>1. /\ outbox[l].state = "leased" /\ outbox[l].holder = t
            /\ outbox[l].wait >= LEASE - lag[t]
        BY <3>3 DEF HoldersFit
      <4>2. l # k
        BY <1>3, <2>2, <4>1
      <4> QED
        BY <2>3, <3>1, <4>1, <4>2
    <3> QED
      BY <1>5, <3>2, <3>3 DEF TypeOK
  <2> QED
    BY <2>5, <2>6, <2>7, <2>8, <2>9
<1> QED
  BY <1>2, <1>4, <1>5

LEMMA LeaseEndsKeeps ==
    ASSUME OutboxInv, NEW s \in Schedulers, LeaseEnds(s)
    PROVE  OutboxInv'
<1> USE IncidentAssumption, OutboxAssumption
    DEF OutboxInv, LeaseEnds, history, Goto
<1>1. TypeOK'
  BY DEF TypeOK, IncidentTypeOK
<1>2. JobFits'
  BY DEF TypeOK, IncidentTypeOK, JobFits
<1>3. RowsFit'
  BY DEF TypeOK, RowsFit
<1>4. CursorsFit'
  BY DEF TypeOK, IncidentTypeOK, CursorsFit
<1>5. HoldersFit'
  BY DEF TypeOK, JobFits, HoldersFit
<1> QED
  BY <1>1, <1>2, <1>3, <1>4, <1>5

LEMMA LookKeeps ==
    ASSUME OutboxInv, NEW s \in Schedulers, NEW k \in Keys, Look(s, k)
    PROVE  OutboxInv'
<1> USE IncidentAssumption, OutboxAssumption
    DEF OutboxInv, Look, history, Goto
<1>1. TypeOK'
  BY DEF TypeOK, IncidentTypeOK
<1>2. JobFits'
  BY DEF TypeOK, IncidentTypeOK, JobFits
<1>3. RowsFit'
  BY DEF TypeOK, RowsFit
<1>4. CursorsFit'
  BY DEF TypeOK, IncidentTypeOK, CursorsFit
<1>5. HoldersFit'
  BY DEF TypeOK, JobFits, HoldersFit
<1> QED
  BY <1>1, <1>2, <1>3, <1>4, <1>5

LEMMA SendKeeps ==
    ASSUME OutboxInv, NEW s \in Schedulers, Send(s)
    PROVE  OutboxInv'
<1> USE IncidentAssumption, OutboxAssumption
    DEF OutboxInv, Send, history, Goto
<1>1. TypeOK'
  <2>1. sent' \subseteq Keys
    BY DEF TypeOK
  <2>2. /\ pc' \in {[pc EXCEPT ![s] = "sent"], [pc EXCEPT ![s] = "failed"]}
        /\ UNCHANGED <<incident, outbox, todo, view, held, cur, lag, read, robbed>>
    OBVIOUS
  <2>3. IncidentTypeOK'
    BY <2>2 DEF TypeOK, IncidentTypeOK
  <2> QED
    BY <2>1, <2>2, <2>3 DEF TypeOK
<1>2. JobFits'
  BY DEF TypeOK, IncidentTypeOK, JobFits
<1>3. RowsFit'
  BY DEF TypeOK, RowsFit
<1>4. CursorsFit'
  BY DEF TypeOK, IncidentTypeOK, CursorsFit
<1>5. HoldersFit'
  BY DEF TypeOK, JobFits, HoldersFit
<1> QED
  BY <1>1, <1>2, <1>3, <1>4, <1>5

LEMMA MarkDeliveryCancelledKeeps ==
    ASSUME OutboxInv, NEW s \in Schedulers, MarkDeliveryCancelled(s)
    PROVE  OutboxInv'
<1> DEFINE row == Ended(outbox[cur[s]], "cancelled")
<1>1. /\ pc[s] = "cancel" /\ NextRow(s) /\ UNCHANGED <<incident, todo, view, lag, sent, robbed>>
      /\ \/ outbox' = outbox
         \/ outbox' = [outbox EXCEPT ![cur[s]] = row] /\ outbox[cur[s]].holder = s
  BY DEF MarkDeliveryCancelled, Mark, StillLeased, history
<1>2. cur[s] \in Keys /\ outbox[cur[s]] \in OutboxRow
  BY <1>1 DEF OutboxInv, TypeOK, OutboxRow
<1>3. /\ row \in OutboxRow /\ row.holder = Nobody /\ row.state = "cancelled"
      /\ row.attempts = outbox[cur[s]].attempts
  BY <1>2, EndedRow DEF Ends
<1> HIDE DEF row
<1> QED
  BY <1>1, <1>3, NextRowKeeps

LEMMA MarkDeliverySucceededKeeps ==
    ASSUME OutboxInv, NEW s \in Schedulers, MarkDeliverySucceeded(s)
    PROVE  OutboxInv'
<1> DEFINE row == Ended(outbox[cur[s]], "delivered")
<1>1. /\ pc[s] = "sent" /\ NextRow(s) /\ UNCHANGED <<incident, todo, view, lag, sent, robbed>>
      /\ \/ outbox' = outbox
         \/ outbox' = [outbox EXCEPT ![cur[s]] = row] /\ outbox[cur[s]].holder = s
  BY DEF MarkDeliverySucceeded, Mark, StillLeased, history
<1>2. cur[s] \in Keys /\ outbox[cur[s]] \in OutboxRow /\ cur[s] \in sent
  BY <1>1 DEF OutboxInv, TypeOK, OutboxRow, JobFits
<1>3. /\ row \in OutboxRow /\ row.holder = Nobody /\ row.state = "delivered"
      /\ row.attempts = outbox[cur[s]].attempts
  BY <1>2, EndedRow DEF Ends
<1> HIDE DEF row
<1> QED
  BY <1>1, <1>2, <1>3, NextRowKeeps

LEMMA ReadFailedKeeps ==
    ASSUME OutboxInv, NEW s \in Schedulers, ReadFailed(s)
    PROVE  OutboxInv'
<1> USE IncidentAssumption, OutboxAssumption DEF OutboxInv
<1>1. pc[s] = "failed" /\ UNCHANGED <<incident, outbox, todo, view, lag, sent, robbed>>
  BY DEF ReadFailed, history
<1>2. cur[s] \in held[s] /\ cur[s] \in Keys /\ outbox[cur[s]] \in OutboxRow
  BY <1>1 DEF TypeOK, OutboxRow
<1>3. CASE ~StillLeased(s)
  <2> DEFINE row == Ended(outbox[cur[s]], "cancelled")
  <2>1. /\ row \in OutboxRow /\ row.holder = Nobody /\ row.state = "cancelled"
        /\ row.attempts = outbox[cur[s]].attempts
    BY <1>2, EndedRow DEF Ends
  <2>2. NextRow(s)
    BY <1>3 DEF ReadFailed
  <2> HIDE DEF row
  <2> QED
    BY <1>1, <2>1, <2>2, NextRowKeeps
<1>4. CASE StillLeased(s)
  <2>1. /\ pc' = [pc EXCEPT ![s] = "release"] /\ UNCHANGED <<cur, held>>
        /\ read' = [read EXCEPT ![s] = outbox[cur[s]].attempts]
    BY <1>4 DEF ReadFailed, Goto
  <2>2. outbox[cur[s]].attempts \in 1 .. MaxAttempts
    BY <1>2, <1>4 DEF StillLeased, RowsFit, OutboxRow
  <2>3. read' \in [Schedulers -> 0 .. MaxAttempts]
    BY <2>1, <2>2 DEF TypeOK
  <2>4. TypeOK'
    BY <1>1, <1>2, <2>1, <2>3 DEF TypeOK, IncidentTypeOK
  <2>5. JobFits'
    BY <1>1, <2>1, <2>2 DEF TypeOK, JobFits
  <2>6. RowsFit' /\ CursorsFit' /\ HoldersFit'
    BY <1>1, <2>1 DEF RowsFit, CursorsFit, HoldersFit
  <2> QED
    BY <2>4, <2>5, <2>6
<1> QED
  BY <1>3, <1>4

LEMMA ReleaseKeeps ==
    ASSUME OutboxInv, NEW s \in Schedulers, Release(s)
    PROVE  OutboxInv'
<1> USE IncidentAssumption, OutboxAssumption DEF OutboxInv
<1> DEFINE old == outbox[cur[s]]
           again == [old EXCEPT !.state = "pending", !.holder = Nobody,
                                !.wait = RetryDelay(read[s])]
           row == IF read[s] >= MaxAttempts THEN Ended(old, "dead") ELSE again
<1>1. /\ pc[s] = "release" /\ NextRow(s) /\ UNCHANGED <<incident, todo, view, lag, sent>>
      /\ robbed' \in {robbed, robbed \cup {cur[s]}}
      /\ old.holder = s \/ cur[s] \in robbed'
  BY DEF Release, StillLeased
<1>2. cur[s] \in Keys /\ old \in OutboxRow /\ read[s] \in 1 .. old.attempts
      /\ old.attempts \in 0 .. MaxAttempts
  BY <1>1 DEF TypeOK, OutboxRow, JobFits
<1>3. outbox' = [outbox EXCEPT ![cur[s]] = row]
  BY <1>2 DEF Release, TypeOK
<1>4. CASE read[s] >= MaxAttempts
  <2>1. /\ row \in OutboxRow /\ row.holder = Nobody /\ row.state = "dead"
        /\ row.attempts = old.attempts /\ old.attempts = MaxAttempts
    BY <1>2, <1>4, EndedRow DEF Ends
  <2> HIDE DEF row
  <2> QED
    BY <1>1, <1>3, <2>1, NextRowKeeps
<1>5. CASE ~(read[s] >= MaxAttempts)
  <2>1. RetryDelay(read[s]) \in Rest
    BY <1>2, RetryDelayType DEF Rest
  <2>2. /\ again \in OutboxRow /\ again.holder = Nobody /\ again.state = "pending"
        /\ again.attempts = old.attempts
    BY <1>2, <2>1 DEF OutboxRow
  <2>3. row = again
    BY <1>5
  <2> HIDE DEF row, again
  <2> QED
    BY <1>1, <1>3, <2>2, <2>3, NextRowKeeps
<1> QED
  BY <1>4, <1>5

LEMMA JobEndsKeeps ==
    ASSUME OutboxInv, NEW s \in Schedulers, JobEnds(s)
    PROVE  OutboxInv'
<1> USE IncidentAssumption, OutboxAssumption
    DEF OutboxInv, JobEnds, history, Goto
<1>1. TypeOK'
  BY DEF TypeOK, IncidentTypeOK, Age
<1>2. JobFits'
  BY DEF TypeOK, IncidentTypeOK, JobFits
<1>3. RowsFit'
  BY DEF TypeOK, RowsFit
<1>4. CursorsFit'
  BY DEF TypeOK, IncidentTypeOK, CursorsFit
<1>5. HoldersFit'
  BY DEF TypeOK, JobFits, HoldersFit
<1> QED
  BY <1>1, <1>2, <1>3, <1>4, <1>5

LEMMA CrashKeeps ==
    ASSUME OutboxInv, NEW s \in Schedulers, Crash(s)
    PROVE  OutboxInv'
<1> USE IncidentAssumption, OutboxAssumption
    DEF OutboxInv, Crash, history, Goto, Read, NoIncident
<1>1. TypeOK'
  BY SMTT(20) DEF TypeOK, IncidentTypeOK, Age, IncidentStatuses
<1>2. JobFits'
  BY DEF TypeOK, IncidentTypeOK, JobFits
<1>3. RowsFit'
  BY DEF TypeOK, RowsFit
<1>4. CursorsFit'
  BY DEF TypeOK, IncidentTypeOK, CursorsFit
<1>5. HoldersFit'
  BY DEF TypeOK, JobFits, HoldersFit
<1> QED
  BY <1>1, <1>2, <1>3, <1>4, <1>5

LEMMA EventKeeps ==
    ASSUME OutboxInv, NEW i \in Incidents, Event(i)
    PROVE  OutboxInv'
<1> USE IncidentAssumption, OutboxAssumption DEF OutboxInv
<1>1. UNCHANGED <<outbox, pc, todo, view, held, cur, lag, read, sent, robbed>>
  BY DEF Event, jobVars, history
<1>2. incident \in [Incidents -> IncidentRow] /\ incident[i] \in IncidentRow
  BY DEF TypeOK, IncidentTypeOK, IncidentRow
<1> DEFINE first == [NoIncident EXCEPT !.status = "open", !.count = 1]
           goes(y) == /\ y \in IncidentRow /\ y.count > 0 /\ y.count >= incident[i].count
                      /\ y.level \in {0, incident[i].level}
<1>3. PICK y \in IncidentRow : goes(y) /\ incident' = [incident EXCEPT ![i] = y]
  <2>1. CASE FirstEvent(i)
    <3>1. NoIncident.count = 0 /\ incident[i] = NoIncident
      BY <2>1 DEF FirstEvent, NoIncident
    <3>2. goes(first)
      BY <3>1, FirstEventRow
    <3> QED
      BY <2>1, <3>2 DEF FirstEvent
  <2>2. CASE AnotherEvent(i)
    <3>1. incident[i].count \in Nat /\ incident[i].count < MaxOccurrences
      BY <1>2, <2>2 DEF AnotherEvent, IncidentRow
    <3>2. goes(Folded(incident[i]))
      BY <1>2, <3>1, FoldedRow
    <3> QED
      BY <2>2, <3>2 DEF AnotherEvent
  <2> QED
    BY <2>1, <2>2 DEF Event, RecordIncident
<1>4. CursorsStay
  <2>1. \A x \in Incidents : incident'[x] = IF x = i THEN y ELSE incident[x]
    BY <1>2, <1>3
  <2>2. incident' \in [Incidents -> IncidentRow]
    BY <1>2, <1>3
  <2>3. \A x \in Incidents : incident[x].count \in Nat
    BY <1>2 DEF IncidentRow
  <2> QED
    BY <1>3, <2>1, <2>2, <2>3 DEF CursorsFit, CursorsStay
<1>5. TypeOK' /\ JobFits' /\ CursorsFit'
  BY <1>1, <1>4, SameRows, JobsStay DEF TypeOK
<1>6. RowsFit' /\ HoldersFit'
  BY <1>1 DEF RowsFit, HoldersFit
<1> QED
  BY <1>5, <1>6

LEMMA OperateKeeps ==
    ASSUME OutboxInv, NEW i \in Incidents, NEW target \in Targets, Operate(i, target)
    PROVE  OutboxInv'
<1> USE IncidentAssumption, OutboxAssumption DEF OutboxInv
<1>1. UNCHANGED <<pc, todo, view, held, cur, lag, read, sent, robbed>>
  BY DEF Operate, jobVars, history
<1>2. incident \in [Incidents -> IncidentRow] /\ incident[i] \in IncidentRow
  BY DEF TypeOK, IncidentTypeOK, IncidentRow
<1> DEFINE z == IF target = "snoozed" THEN SNOOZE
                ELSE IF target = "acknowledged" THEN incident[i].snooze ELSE 0
<1>3. /\ z \in 0 .. SNOOZE
      /\ incident' = [incident EXCEPT ![i].status = target, ![i].snooze = z]
  BY <1>2 DEF Operate, Transition, IncidentRow
<1> HIDE DEF z
<1> DEFINE y == [incident[i] EXCEPT !.status = target, !.snooze = z]
<1>4. /\ y \in IncidentRow
      /\ y.count = incident[i].count /\ y.level = incident[i].level
  BY <1>2, <1>3 DEF IncidentRow, Targets, IncidentStatuses
<1>5. incident' = [incident EXCEPT ![i] = y]
  BY <1>3
<1> HIDE DEF y
<1>6. CursorsStay
  <2>1. /\ incident' \in [Incidents -> IncidentRow]
        /\ \A x \in Incidents : incident'[x] = IF x = i THEN y ELSE incident[x]
    BY <1>2, <1>4, <1>5
  <2>2. incident[i].status # "none"
    BY DEF Operate, Transition, From, Targets
  <2>3. \A x \in Incidents : incident[x].count \in Nat
    BY <1>2 DEF IncidentRow
  <2> QED
    BY <1>4, <2>1, <2>2, <2>3 DEF CursorsFit, CursorsStay
<1>7. ASSUME NEW k \in Keys
      PROVE  \/ outbox'[k] = outbox[k]
             \/ outbox[k].state = "pending" /\ outbox'[k] = Ended(outbox[k], "cancelled")
  BY DEF Operate
<1>8. \A k \in Keys : outbox[k] \in OutboxRow /\ outbox[k].attempts \in Nat
  BY DEF TypeOK, OutboxRow
<1>9. ASSUME NEW k \in Keys
      PROVE  /\ outbox'[k] \in OutboxRow
             /\ outbox'[k].holder # Nobody <=> outbox'[k].state = "leased"
             /\ outbox[k].state # "none" => outbox'[k].state # "none"
             /\ outbox'[k].attempts = outbox[k].attempts
             /\ outbox'[k].state \in {outbox[k].state, "cancelled"}
  BY <1>7, <1>8, EndedRow DEF TypeOK, Ends
<1>10. RowsGoOn
  <2>1. outbox' = [k \in Keys |-> outbox'[k]]
    BY DEF Operate
  <2>2. outbox' \in [Keys -> OutboxRow]
    BY <1>9, <2>1
  <2> QED
    BY <1>8, <1>9, <2>2 DEF RowsGoOn
<1>11. TypeOK' /\ JobFits' /\ CursorsFit'
  BY <1>1, <1>6, <1>10, JobsStay DEF TypeOK
<1>12. RowsFit'
  BY <1>1, <1>9 DEF RowsFit
<1>13. HoldersFit'
  <2>1. \A k \in Keys : outbox[k].state = "leased" => outbox'[k] = outbox[k]
    BY <1>7
  <2> QED
    BY <1>1, <2>1 DEF TypeOK, HoldersFit
<1> QED
  BY <1>11, <1>12, <1>13

LEMMA AdvanceKeeps ==
    ASSUME OutboxInv, Advance
    PROVE  OutboxInv'
<1> USE IncidentAssumption, OutboxAssumption DEF OutboxInv
<1>1. UNCHANGED <<pc, todo, view, held, cur, read, sent, robbed>>
  BY DEF Advance, history
<1>2. incident \in [Incidents -> IncidentRow]
  BY DEF TypeOK, IncidentTypeOK, IncidentRow
<1>3. ASSUME NEW i \in Incidents
      PROVE  /\ incident'[i] \in IncidentRow
             /\ incident'[i].count = incident[i].count /\ incident'[i].level = incident[i].level
             /\ incident'[i].status = incident[i].status
  <2>1. PICK x \in IncidentRow : x = incident[i]
    BY <1>2
  <2>2. /\ Older(x.seen) \in Age /\ Older(x.notified) \in Age \cup {Null}
        /\ Sooner(x.snooze) \in 0 .. SNOOZE
    BY DEF IncidentRow, Age, Null, Older, Sooner
  <2> DEFINE y == [x EXCEPT !.seen = Older(@), !.notified = Older(@), !.snooze = Sooner(@)]
  <2>3. /\ y \in IncidentRow
        /\ y.count = x.count /\ y.level = x.level /\ y.status = x.status
    BY <2>2 DEF IncidentRow
  <2>4. incident'[i] \in {incident[i], y}
    BY <2>1 DEF Advance, IncidentsAge
  <2> HIDE DEF y
  <2> QED
    BY <2>1, <2>3, <2>4
<1>4. CursorsStay
  <2>1. incident' = [i \in Incidents |-> incident'[i]]
    BY DEF Advance, IncidentsAge
  <2>2. incident' \in [Incidents -> IncidentRow]
    BY <1>3, <2>1
  <2>3. \A i \in Incidents : incident[i].count \in Nat
    BY <1>2 DEF IncidentRow
  <2> QED
    BY <1>3, <2>2, <2>3 DEF CursorsFit, CursorsStay
<1>5. ASSUME NEW k \in Keys
      PROVE  /\ outbox'[k] \in OutboxRow /\ outbox[k].attempts \in Nat
             /\ outbox'[k].state = outbox[k].state /\ outbox'[k].attempts = outbox[k].attempts
             /\ outbox'[k].holder = outbox[k].holder
             /\ outbox'[k].wait >= outbox[k].wait - 1
             /\ outbox'[k].wait \in Int /\ outbox[k].wait \in Int
  <2>1. outbox[k] \in OutboxRow /\ outbox'[k] = Waited(outbox[k])
    BY DEF TypeOK, OutboxRow, Advance
  <2>2. outbox'[k] \in OutboxRow
    BY <2>1, WaitedRow
  <2> QED
    BY <2>1, <2>2, WaitedRow DEF OutboxRow, Rest
<1>6. RowsGoOn
  <2>1. outbox' = [k \in Keys |-> outbox'[k]]
    BY DEF Advance
  <2>2. outbox' \in [Keys -> OutboxRow]
    BY <1>5, <2>1
  <2> QED
    BY <1>5, <2>2 DEF TypeOK, RowsGoOn
<1>7. /\ lag' \in [Schedulers -> Age]
      /\ \A t \in Schedulers :
            \/ pc[t] = "idle"
            \/ lag[t] = HORIZON /\ lag'[t] = HORIZON
            \/ lag'[t] = lag[t] + 1
  <2>1. ASSUME NEW t \in Schedulers
        PROVE  /\ lag'[t] \in Age
               /\ \/ pc[t] = "idle"
                  \/ lag[t] = HORIZON /\ lag'[t] = HORIZON
                  \/ lag'[t] = lag[t] + 1
    <3>1. lag[t] \in 0 .. HORIZON
      BY DEF TypeOK, Age
    <3> QED
      BY <3>1 DEF Advance, Age, Older
  <2>2. lag' = [t \in Schedulers |-> IF pc[t] = "idle" THEN lag[t] ELSE Older(lag[t])]
    BY DEF Advance
  <2>3. \A t \in Schedulers : (IF pc[t] = "idle" THEN lag[t] ELSE Older(lag[t])) \in Age
    BY <2>1, <2>2
  <2>4. lag' \in [Schedulers -> Age]
    BY <2>2, <2>3, Zenon
  <2> QED
    BY <2>1, <2>4
<1>8. TypeOK' /\ JobFits' /\ CursorsFit'
  BY <1>1, <1>4, <1>6, <1>7, JobsStay
<1>9. RowsFit'
  BY <1>1, <1>5 DEF RowsFit
<1>10. HoldersFit'
  <2> SUFFICES ASSUME NEW t \in Schedulers, lag'[t] < LEASE, NEW k \in held[t] \ robbed
               PROVE  /\ outbox'[k].state = "leased" /\ outbox'[k].holder = t
                      /\ outbox'[k].wait >= LEASE - lag'[t]
    BY <1>1 DEF HoldersFit
  <2>1. k \in Keys /\ lag[t] \in Nat /\ pc[t] # "idle"
    BY SMTT(20) DEF TypeOK, JobFits, Age
  <2>2. lag'[t] = lag[t] + 1
    BY <1>7, <2>1
  <2>3. /\ outbox[k].state = "leased" /\ outbox[k].holder = t
        /\ outbox[k].wait >= LEASE - lag[t]
    BY <2>1, <2>2 DEF HoldersFit
  <2> QED
    BY <1>5, <2>1, <2>2, <2>3
<1> QED
  BY <1>8, <1>9, <1>10

-----------------------------------------------------------------------------

LEMMA OutboxStarts == Init => OutboxInv
<1> SUFFICES ASSUME Init PROVE OutboxInv
  OBVIOUS
<1> USE IncidentAssumption, OutboxAssumption
    DEF Init, IncidentInit, NoIncident, NoRow, Read
<1>1. TypeOK
  BY DEF TypeOK, IncidentTypeOK, IncidentStatuses, Age, Null, Rest
<1>2. JobFits /\ RowsFit
  BY DEF JobFits, RowsFit, Ends
<1>3. CursorsFit /\ HoldersFit
  BY DEF CursorsFit, HoldersFit
<1> QED
  BY <1>1, <1>2, <1>3 DEF OutboxInv

LEMMA OutboxMoves ==
    ASSUME OutboxInv, Next
    PROVE  OutboxInv'
  BY EventKeeps, OperateKeeps, JobStartsKeeps, PassKeeps, ReadIncidentKeeps, EnqueueKeeps,
     EnqueueEndsKeeps, SweepKeeps, LeaseKeeps, LeaseEndsKeeps, LookKeeps, SendKeeps,
     MarkDeliveryCancelledKeeps, MarkDeliverySucceededKeeps, ReadFailedKeeps, ReleaseKeeps,
     JobEndsKeeps, CrashKeeps, AdvanceKeeps
  DEF Next, Job

\* What the runs have read, leased and sent fits the rows and the incidents.
THEOREM OutboxInvariant == Spec => []OutboxInv
<1>1. ASSUME OutboxInv, UNCHANGED vars PROVE OutboxInv'
  <2> USE <1>1 DEF OutboxInv, vars, jobVars, history
  <2>1. TypeOK'
    BY DEF TypeOK, IncidentTypeOK
  <2>2. JobFits' /\ RowsFit'
    BY DEF JobFits, RowsFit
  <2>3. CursorsFit' /\ HoldersFit'
    BY DEF CursorsFit, HoldersFit
  <2> QED
    BY <2>1, <2>2, <2>3
<1> QED
  BY <1>1, OutboxStarts, OutboxMoves, PTL DEF Spec

\* The variables of the outbox keep their types.
THEOREM OutboxTypeCorrect == Spec => []TypeOK
<1>1. OutboxInv => TypeOK
  BY DEF OutboxInv
<1> QED
  BY <1>1, OutboxInvariant, PTL

\* However many incidents, routes and schedulers there are and whenever these
\* die: no escalation the cursor counts lacks its rows, none is called
\* delivered before it was sent, and none is given up early.
THEOREM NoneIsLost == Spec => []NothingIsLost
<1>1. OutboxInv => NothingIsLost
  <2> SUFFICES ASSUME OutboxInv PROVE NothingIsLost
    OBVIOUS
  <2>1. ASSUME NEW i \in Incidents, NEW n \in 1 .. incident[i].level
        PROVE  \E m \in 1 .. incident[i].count : \A r \in Routes : outbox[Key(i, m, n, r)] # NoRow
    BY DEF OutboxInv, CursorsFit, NoRow
  <2> QED
    BY <2>1 DEF OutboxInv, RowsFit, NothingIsLost, Key
<1> QED
  BY <1>1, OutboxInvariant, PTL

\* Two schedulers within their leases are never about to send the same row.
THEOREM LeasesExclude == Spec => []LeaseIsExclusive
<1>1. OutboxInv => LeaseIsExclusive
  BY DEF OutboxInv, TypeOK, HoldersFit, WithinLease, LeaseIsExclusive
<1> QED
  BY <1>1, OutboxInvariant, PTL

\* What has been delivered, cancelled or given up stays so, but for the retry
\* of a sender that had read the row before.
THEOREM EndsStay == Spec => EndsAreFinal
<1>1. ASSUME OutboxInv, Next PROVE EndIsKept
  <2> USE DEF OutboxInv, TypeOK, EndIsKept, Ends
  <2>1. ASSUME NEW i \in Incidents, NEW target \in Targets, Operate(i, target) PROVE EndIsKept
    BY <1>1, <2>1 DEF Operate
  <2>2. ASSUME NEW s \in Schedulers, Enqueue(s) PROVE EndIsKept
    BY <1>1, <2>2 DEF Enqueue, Inserted, DedupKeysAreFree, NoRow
  <2>3. ASSUME NEW s \in Schedulers, Sweep(s) PROVE EndIsKept
    BY <1>1, <2>3 DEF Sweep, Due
  <2>4. ASSUME NEW s \in Schedulers, NEW k \in Keys, Lease(s, k) PROVE EndIsKept
    BY <1>1, <2>4 DEF Lease, Leasable, Due
  <2>5. ASSUME NEW s \in Schedulers, NEW e, Mark(s, e) PROVE EndIsKept
    BY <1>1, <2>5 DEF Mark, StillLeased
  <2>6. ASSUME NEW s \in Schedulers, Release(s) PROVE EndIsKept
    BY <1>1, <2>6 DEF Release, NextRow, Goto
  <2>7. CASE Advance
    BY <1>1, <2>7 DEF Advance, Waited
  <2>8. CASE UNCHANGED outbox
    BY <2>8
  <2> QED
    BY <1>1, <2>1, <2>2, <2>3, <2>4, <2>5, <2>6, <2>7, <2>8
    DEF Next, Job, Event, JobStarts, Pass, ReadIncident, EnqueueEnds, LeaseEnds, Look, Send,
        MarkDeliveryCancelled, MarkDeliverySucceeded, ReadFailed, JobEnds, Crash
<1>2. ASSUME UNCHANGED vars PROVE EndIsKept
  BY <1>2 DEF vars, EndIsKept
<1> QED
  BY <1>1, <1>2, OutboxInvariant, PTL DEF Spec, EndsAreFinal
=============================================================================
