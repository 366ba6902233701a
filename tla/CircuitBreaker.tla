--------------------------- MODULE CircuitBreaker ---------------------------
(***************************************************************************)
(* core/breaker.py: one circuit, a row that the processes share, and the    *)
(* calls guard() wraps:                                                     *)
(*     look -> (lease) -> calling -> (success | failure -> (insert)).       *)
(* A statement on the row is a step, so that the row changes between the    *)
(* SELECT of a call and its UPDATE, and while the far side is asked.        *)
(*                                                                         *)
(* opened_at and probe_lease_until are kept as the time left: cooling until *)
(* a probe is due, lease until the next may be taken.  A call has no limit  *)
(* of its own: guard() surrounds the retries and the wait for the           *)
(* semaphore.  up says whether the far side answers; a call that spans a    *)
(* change of it may end either way.  A count is kept up to one above the    *)
(* threshold.                                                               *)
(*                                                                         *)
(* A fault is a store that does not answer in time (the statement may have  *)
(* landed), a call that ends without evidence (our own deadline, a refusal  *)
(* of the account, a cancellation) or a process that dies.                  *)
(***************************************************************************)
EXTENDS Naturals, FiniteSets

CONSTANTS
    Calls,
    FAILURE_THRESHOLD,
    OPEN_COOLDOWN,
    PROBE_LEASE,
    MaxFaults,   \* bound: faults
    MaxTurns     \* bound: changes of the far side

ASSUME BreakerAssumption ==
    /\ IsFiniteSet(Calls)
    /\ FAILURE_THRESHOLD \in Nat \ {0}
    /\ {OPEN_COOLDOWN, PROBE_LEASE, MaxFaults, MaxTurns} \subseteq Nat

VARIABLES
    row,      \* the row of circuit_state
    pc,       \* pc[c]: what call c does next
    clean,    \* clean[c]: its ticket says that a success changes nothing
    spans,    \* spans[c]: the far side was down when it began
    up,       \* the far side answers
    turns,
    faults,
    probing,  \* probing[c]: the lease c took with its probe (history)
    evidence  \* counted failures since the last recorded success, up to the
              \* threshold (history)

calls == <<pc, clean, spans>>
far == <<up, turns>>
history == <<probing, evidence>>
circuitVars == <<row, calls, far, faults, history>>

NoRow == [state |-> "none", count |-> 0, cooling |-> 0, lease |-> 0]
NoProbe == [lease |-> 0, last |-> FALSE]
Capped(n) == IF n > FAILURE_THRESHOLD THEN FAILURE_THRESHOLD ELSE n

CircuitTypeOK ==
    /\ row \in [state : {"none", "closed", "open", "half_open"}, count : 0 .. FAILURE_THRESHOLD + 1,
                cooling : 0 .. OPEN_COOLDOWN, lease : 0 .. PROBE_LEASE]
    /\ row.cooling > 0 => row.state = "open"
    /\ row.lease > 0 => row.state = "half_open"
    /\ pc \in [Calls -> {"idle", "lease", "calling", "success", "failure", "insert"}]
    /\ clean \in [Calls -> BOOLEAN]
    /\ spans \in [Calls -> BOOLEAN]
    /\ up \in BOOLEAN /\ turns \in 0 .. MaxTurns /\ faults \in 0 .. MaxFaults
    /\ probing \in [Calls -> [lease : 0 .. PROBE_LEASE, last : BOOLEAN]]
    /\ evidence \in 0 .. FAILURE_THRESHOLD

CircuitInit ==
    /\ row = NoRow
    /\ pc = [c \in Calls |-> "idle"]
    /\ clean = [c \in Calls |-> TRUE]
    /\ spans = [c \in Calls |-> FALSE]
    /\ up = TRUE /\ turns = 0 /\ faults = 0
    /\ probing = [c \in Calls |-> NoProbe]
    /\ evidence = 0

Goto(c, label) == pc' = [pc EXCEPT ![c] = label]
Fault == faults < MaxFaults /\ faults' = faults + 1

(***************************************************************************)
(* _check: one SELECT; a circuit that is not closed asks for the probe.     *)
(***************************************************************************)
Pass(c, untouched) ==
    /\ Goto(c, "calling")
    /\ clean' = [clean EXCEPT ![c] = untouched]

Look(c) ==
    /\ pc[c] = "idle"
    /\ spans' = [spans EXCEPT ![c] = ~up]
    /\ \/ /\ row.state \in {"none", "closed"}
          /\ Pass(c, row.count = 0)
          /\ UNCHANGED faults
       \/ /\ row.state \in {"open", "half_open"}
          /\ Goto(c, "lease")
          /\ UNCHANGED <<clean, faults>>
       \/ Fault /\ Pass(c, TRUE)
    /\ UNCHANGED <<row, far, history>>

SlipProbeIsFree == row.state \in {"open", "half_open"} /\ row.cooling = 0

ProbeIsFree ==
    /\ row.state \in {"open", "half_open"}
    /\ row.cooling = 0
    /\ row.lease = 0

Leased == [row EXCEPT !.state = "half_open", !.lease = PROBE_LEASE]

TakeProbe(c) ==
    /\ pc[c] = "lease" /\ ProbeIsFree
    /\ row' = Leased
    /\ Pass(c, FALSE)
    /\ probing' = [probing EXCEPT ![c] = [lease |-> PROBE_LEASE, last |-> TRUE]]
    /\ UNCHANGED <<spans, far, faults, evidence>>

Refuse(c) ==
    /\ pc[c] = "lease" /\ ~ProbeIsFree
    /\ Goto(c, "idle")
    /\ UNCHANGED <<row, clean, spans, far, faults, history>>

\* The store fails while the probe is asked for: the call passes, and its
\* success will write nothing, though its lease may have been written.
PassUnheard(c) ==
    /\ pc[c] = "lease" /\ Fault
    /\ row' \in {row} \cup (IF ProbeIsFree THEN {Leased} ELSE {})
    /\ Pass(c, TRUE)
    /\ UNCHANGED <<spans, far, history>>

(***************************************************************************)
(* The wrapped call ends.                                                   *)
(***************************************************************************)
EndProbe(c) == probing' = [probing EXCEPT ![c] = NoProbe]

Succeed(c) ==
    /\ pc[c] = "calling" /\ (up \/ ~spans[c])
    /\ Goto(c, IF clean[c] THEN "idle" ELSE "success")
    /\ EndProbe(c)
    /\ UNCHANGED <<row, clean, spans, far, faults, evidence>>

\* A failure that counts_as_failure.
Fail(c) ==
    /\ pc[c] = "calling" /\ (~up \/ spans[c])
    /\ Goto(c, "failure")
    /\ EndProbe(c)
    /\ evidence' = Capped(evidence + 1)
    /\ UNCHANGED <<row, clean, spans, far, faults>>

SlipUnjudged(c) ==
    /\ pc[c] = "calling" /\ Fault
    /\ Goto(c, "failure")
    /\ EndProbe(c)
    /\ UNCHANGED <<row, clean, spans, far, evidence>>

\* One that does not: the row, with the lease of a probe, stays as it is.
Unjudged(c) ==
    /\ pc[c] = "calling" /\ Fault
    /\ Goto(c, "idle")
    /\ EndProbe(c)
    /\ UNCHANGED <<row, clean, spans, far, evidence>>

(***************************************************************************)
(* _on_success and _on_failure.                                             *)
(***************************************************************************)
Closed == IF row.state = "none" THEN row ELSE [NoRow EXCEPT !.state = "closed"]

\* The failed calls whose record is still to come.
Unrecorded == {c \in Calls : pc[c] \in {"failure", "insert"}}

WriteSuccess(c) ==
    /\ pc[c] = "success"
    /\ \/ row' = Closed /\ UNCHANGED faults
       \/ Fault /\ row' \in {row, Closed}
    /\ evidence' = IF row' = Closed
                   THEN Capped(Cardinality(Unrecorded))
                   ELSE evidence
    /\ Goto(c, "idle")
    /\ UNCHANGED <<clean, spans, far, probing>>

Opens(n) == n >= FAILURE_THRESHOLD
Bounded(n) == IF n > FAILURE_THRESHOLD + 1 THEN FAILURE_THRESHOLD + 1 ELSE n

Counted ==
    LET n == Bounded(row.count + 1)
    IN  [row EXCEPT !.count = n, !.lease = 0,
                    !.state = IF Opens(n) THEN "open" ELSE @,
                    !.cooling = IF Opens(n) THEN OPEN_COOLDOWN ELSE @]

\* An opening: the probes taken before it are no longer of the last one.
Reopened == row' # row /\ row'.state = "open"
Outlived == [c \in Calls |-> IF Reopened THEN [probing[c] EXCEPT !.last = FALSE] ELSE probing[c]]

WriteFailure(c) ==
    /\ pc[c] = "failure"
    /\ \/ /\ row.state = "none"
          /\ Goto(c, "insert")
          /\ UNCHANGED <<row, faults>>
       \/ /\ row.state # "none"
          /\ row' = Counted
          /\ Goto(c, "idle")
          /\ UNCHANGED faults
       \/ /\ Fault
          /\ row' \in {row} \cup (IF row.state = "none" THEN {} ELSE {Counted})
          /\ Goto(c, "idle")
    /\ probing' = Outlived
    /\ UNCHANGED <<clean, spans, far, evidence>>

First ==
    [state |-> IF Opens(1) THEN "open" ELSE "closed", count |-> 1,
     cooling |-> IF Opens(1) THEN OPEN_COOLDOWN ELSE 0, lease |-> 0]

SlipInsert(c) ==
    /\ pc[c] = "insert"
    /\ row' = row
    /\ Goto(c, "idle")
    /\ probing' = Outlived
    /\ UNCHANGED <<clean, spans, far, faults, evidence>>

\* No row was there.  By now another call may have inserted it: the name is
\* unique and the failure is not counted.
Insert(c) ==
    /\ pc[c] = "insert"
    /\ row' = IF row.state = "none" THEN First ELSE row
    /\ Goto(c, "idle")
    /\ probing' = Outlived
    /\ UNCHANGED <<clean, spans, far, faults, evidence>>

(***************************************************************************)
(* Around the calls.                                                        *)
(***************************************************************************)
CallDies(c) ==
    /\ pc[c] # "idle" /\ Fault
    /\ Goto(c, "idle")
    /\ EndProbe(c)
    /\ UNCHANGED <<row, clean, spans, far, evidence>>

Turn ==
    /\ turns < MaxTurns
    /\ turns' = turns + 1 /\ up' = ~up
    /\ UNCHANGED <<row, calls, faults, history>>

Less(n) == IF n > 0 THEN n - 1 ELSE 0

SlipTimePasses ==
    /\ row.cooling > 0
    /\ row' = [row EXCEPT !.cooling = Less(@)]
    /\ probing' = [c \in Calls |-> [probing[c] EXCEPT !.lease = Less(@)]]
    /\ UNCHANGED <<calls, far, faults, evidence>>

TimePasses ==
    /\ row.cooling > 0 \/ row.lease > 0 \/ \E c \in Calls : probing[c].lease > 0
    /\ row' = [row EXCEPT !.cooling = Less(@), !.lease = Less(@)]
    /\ probing' = [c \in Calls |-> [probing[c] EXCEPT !.lease = Less(@)]]
    /\ UNCHANGED <<calls, far, faults, evidence>>

\* What a call does when nothing interferes.
Proceed(c) ==
    \/ Look(c) \/ TakeProbe(c) \/ Refuse(c)
    \/ Succeed(c) \/ Fail(c)
    \/ WriteSuccess(c) \/ WriteFailure(c) \/ Insert(c)

CircuitNext ==
    \/ \E c \in Calls : Proceed(c) \/ PassUnheard(c) \/ Unjudged(c) \/ CallDies(c)
    \/ Turn
    \/ TimePasses

\* Time passes, every process keeps calling and every call ends.
CircuitFairness == WF_circuitVars(TimePasses) /\ \A c \in Calls : WF_circuitVars(Proceed(c))

CircuitSpec == CircuitInit /\ [][CircuitNext]_circuitVars /\ CircuitFairness

-----------------------------------------------------------------------------
\* Between two openings of the circuit only one call at a time probes, as
\* long as its lease lasts, whatever the calls that are still under way from
\* before do to the row.
OneProbePerOpening ==
    \A c, d \in Calls :
        (c # d /\ probing[c].last /\ probing[d].last)
            => (probing[c].lease = 0 \/ probing[d].lease = 0)

\* The circuit opens only after as many failures that speak of the far side as
\* the threshold asks, none of them before a success the row has recorded:
\* deadlines of our own, refusals and cancellations never add up to it.
OpenIsEarned ==
    row.state \in {"open", "half_open"} => evidence = FAILURE_THRESHOLD

\* A far side that answers for good is let through for good, though probes
\* die, end without a verdict or lose what they have written.
Recovers == <>[]up => <>[](row.state \in {"none", "closed"})

\* One that stays down is not asked for ever: some failure opens the circuit,
\* though first failures race to insert the row and records get lost.
Protects == <>[]~up => <>[](row.state \in {"open", "half_open"})
=============================================================================
