----------------------------- MODULE RunJournal -----------------------------
(***************************************************************************)
(* core/observe.py: the journal of one run.  A human turn is one run; its   *)
(* tool calls write to it from tasks of their own, a money event at once    *)
(* and fail-closed, all others together when the call ends.  Each row       *)
(* carries the digest of the row before it; verify_chain computes them      *)
(* anew.  A write is a transaction that reads the tail and then inserts;    *)
(* nothing makes two of them wait for each other, and the index on          *)
(* (run_id, seq) is not unique.                                             *)
(*                                                                         *)
(* A digest is the tuple it is computed from: sha256 has no collisions.     *)
(* The journal may begin with a row from before migration 0035, unsigned.   *)
(* A row may be changed or removed behind the back of the code, by a        *)
(* migration or by hand: with a digest that fits or without, and with the   *)
(* rows after it numbered and signed anew or left as they are.              *)
(***************************************************************************)
EXTENDS Integers, FiniteSets, Sequences

CONSTANTS
    Writers,
    MaxEvents,       \* bound: rows of the journal
    MaxBatch,        \* bound: events of one call
    MaxAlterations   \* bound: alterations behind the code's back

ASSUME JournalAssumption == {MaxEvents, MaxBatch} \subseteq Nat \ {0} /\ MaxAlterations \in Nat

VARIABLES
    rows,     \* agent_run_events of the run
    header,   \* it has a row in agent_runs
    writing,  \* writing[w]: whether writer w has read the tail
    tail,     \* tail[w]: what it has read, the next seq and the digest before it
    events,   \* events[w]: the kinds of the events it writes
    age,      \* 0, 1 once past the retention, 2 past that of money events
    altered,  \* alterations behind the code's back
    written,  \* the rows the code has inserted and not swept (history)
    overlap   \* two transactions were open at the same time (history)

journalVars == <<rows, header, writing, tail, events, age, altered, written, overlap>>

MoneyKinds == {"ads_mutate", "compensation"}
Kinds == {"ads_mutate", "ads_read"}   \* nothing records a compensation yet
Texts == {"as recorded", "changed"}

Genesis == <<>>
Unsigned == <<"NULL">>   \* payload_digest IS NULL, which no digest is
Digest(seq, event, prev) == <<seq, event, prev>>
Event(kind) == [kind |-> kind, text |-> "as recorded"]
Legacy(kind) == [seq |-> 0, event |-> Event(kind), prev |-> Unsigned, digest |-> Unsigned]

Signed == {r \in rows : r.digest # Unsigned}
Money(r) == r.event.kind \in MoneyKinds
Batches == UNION {[1 .. n -> Kinds] : n \in 0 .. MaxBatch}

JournalTypeOK ==
    /\ \A r \in rows \cup written :
        /\ DOMAIN r = {"seq", "event", "prev", "digest"}
        /\ r.seq \in 0 .. MaxEvents - 1
        /\ r.event \in [kind : Kinds, text : Texts]
    /\ Cardinality(rows) <= MaxEvents
    /\ header \in BOOLEAN
    /\ writing \in [Writers -> {"idle", "money", "close"}]
    /\ DOMAIN tail = Writers /\ \A w \in Writers : tail[w].seq \in 0 .. MaxEvents
    /\ events \in [Writers -> Batches]
    /\ \A w \in Writers : writing[w] = "money" => events[w] = <<"ads_mutate">>
    /\ age \in 0 .. 2
    /\ altered \in 0 .. MaxAlterations
    /\ overlap \in BOOLEAN

JournalInit ==
    /\ rows \in {{}} \cup {{Legacy(kind)} : kind \in Kinds}
    /\ header = (rows # {})
    /\ writing = [w \in Writers |-> "idle"]
    /\ tail = [w \in Writers |-> [seq |-> 0, prev |-> Genesis]]
    /\ events = [w \in Writers |-> <<>>]
    /\ age = 0 /\ altered = 0
    /\ written = {} /\ overlap = FALSE

(***************************************************************************)
(* record_money_event and _persist_run.                                     *)
(***************************************************************************)
LastRows == {r \in rows : \A s \in rows : s.seq <= r.seq}

\* _chain_tail: an unsigned row is no anchor; of two last rows either is read.
Tails ==
    IF rows = {} THEN {[seq |-> 0, prev |-> Genesis]}
    ELSE {[seq |-> r.seq + 1, prev |-> IF r.digest = Unsigned THEN Genesis ELSE r.digest]
          : r \in LastRows}

SlipChained(evts, t) ==
    {[seq |-> t.seq + n - 1, event |-> evts[n], prev |-> t.prev,
      digest |-> Digest(t.seq + n - 1, evts[n], t.prev)] : n \in DOMAIN evts}

\* chain_events: each event follows the one before it.
Chained(evts, t) ==
    LET digest[n \in 0 .. Len(evts)] ==
            IF n = 0 THEN t.prev ELSE Digest(t.seq + n - 1, evts[n], digest[n - 1])
    IN  {[seq |-> t.seq + n - 1, event |-> evts[n], prev |-> digest[n - 1],
          digest |-> digest[n]] : n \in DOMAIN evts}

ReadTail(w, next, kinds) ==
    /\ writing[w] = "idle" /\ age = 0
    /\ \E t \in Tails :
        /\ t.seq + Len(kinds) <= MaxEvents
        /\ tail' = [tail EXCEPT ![w] = t]
    /\ writing' = [writing EXCEPT ![w] = next]
    /\ events' = [events EXCEPT ![w] = kinds]
    /\ overlap' = (overlap \/ \E o \in Writers : writing[o] # "idle")
    /\ UNCHANGED <<rows, header, age, altered, written>>

SlipMoneyEvent(w) == \E kind \in Kinds : ReadTail(w, "money", <<kind>>)

\* A mutation is about to be sent; a run_scope ends.
MoneyEvent(w) == ReadTail(w, "money", <<"ads_mutate">>)
CloseScope(w) == \E kinds \in Batches : ReadTail(w, "close", kinds)

Done(w) ==
    /\ writing' = [writing EXCEPT ![w] = "idle"]
    /\ tail' = [tail EXCEPT ![w] = [seq |-> 0, prev |-> Genesis]]
    /\ events' = [events EXCEPT ![w] = <<>>]

Recorded(kinds) == [n \in DOMAIN kinds |-> Event(kinds[n])]

Commit(w) ==
    /\ writing[w] # "idle"
    /\ LET new == Chained(Recorded(events[w]), tail[w])
       IN  rows' = rows \cup new /\ written' = written \cup new
    /\ Cardinality(rows') <= MaxEvents
    /\ header' = (header \/ writing[w] = "close")
    /\ Done(w)
    /\ UNCHANGED <<age, altered, overlap>>

\* The database fails, or the process dies: a money event is refused and its
\* mutation with it, the events of a scope are given up.
Abort(w) ==
    /\ writing[w] # "idle"
    /\ Done(w)
    /\ UNCHANGED <<rows, header, age, altered, written, overlap>>

(***************************************************************************)
(* The retention of runs (_agent_runs), and the triggers of the table.      *)
(***************************************************************************)
TriggerAllows(gone) == age = 2 \/ ~\E r \in gone : Money(r)

\* A run with a money event is left alone as a whole, one without a header is
\* never looked at.
Purged == IF header /\ ~\E r \in rows : Money(r) THEN rows ELSE {}

Purge ==
    /\ age > 0 /\ Purged # {}
    /\ TriggerAllows(Purged)
    /\ rows' = rows \ Purged
    /\ written' = written \ Purged
    /\ header' = FALSE
    /\ UNCHANGED <<writing, tail, events, age, altered, overlap>>

Grow ==
    /\ age < 2 /\ \A w \in Writers : writing[w] = "idle"
    /\ age' = age + 1
    /\ UNCHANGED <<rows, header, writing, tail, events, altered, written, overlap>>

(***************************************************************************)
(* Behind the back of the code, when the run is over.                       *)
(***************************************************************************)
Alter(gone, put) ==
    /\ age > 0 /\ altered < MaxAlterations
    /\ altered' = altered + 1
    /\ rows' = (rows \ gone) \cup put
    /\ Cardinality(rows') <= MaxEvents
    /\ UNCHANGED <<header, writing, tail, events, age, written, overlap>>

Changed(r) == [r.event EXCEPT !.text = "changed"]

CutOut == \E r \in Signed : Alter({r}, {})

\* The digest is left or made to fit, the rows after it are left.
Rewrite ==
    \E r \in Signed : \E digest \in {r.digest, Digest(r.seq, Changed(r), r.prev)} :
        Alter({r}, {[seq |-> r.seq, event |-> Changed(r), prev |-> r.prev, digest |-> digest]})

\* seq grows by one from row to row (verify_chain).
Numbered ==
    LET seqs == {r.seq : r \in Signed}
    IN  /\ Cardinality(seqs) = Cardinality(Signed)
        /\ \A n \in seqs : n + 1 \in seqs \/ \A m \in seqs : m <= n

\* What was recorded after r, if nothing is missing.
Later(r, last) ==
    [n \in 1 .. last.seq - r.seq |-> (CHOOSE s \in Signed : s.seq = r.seq + n).event]

\* Whoever may write to the table can compute the digests too: r is changed or
\* removed, and the rows after it form one chain again.
SignAnew ==
    /\ Numbered
    /\ \E r, last \in Signed :
        /\ \A s \in Signed : s.seq <= last.seq
        /\ \E first \in {<<>>, <<Changed(r)>>} :
            Alter({s \in Signed : s.seq >= r.seq},
                  Chained(first \o Later(r, last), [seq |-> r.seq, prev |-> r.prev]))

JournalNext ==
    \/ \E w \in Writers : MoneyEvent(w) \/ CloseScope(w) \/ Commit(w) \/ Abort(w)
    \/ Purge \/ Grow \/ CutOut \/ Rewrite \/ SignAnew

JournalSpec == JournalInit /\ [][JournalNext]_journalVars

-----------------------------------------------------------------------------
(***************************************************************************)
(* verify_chain: the unsigned rows in front are left aside, the others have *)
(* to follow one another.                                                   *)
(***************************************************************************)
UnsignedFirst == \A r \in rows \ Signed, s \in Signed : r.seq < s.seq

SlipLinked == \A r \in Signed : r.seq = 0 => r.prev = Genesis
Linked == \A r, s \in Signed : s.seq = r.seq + 1 => s.prev = r.digest
Genuine == \A r \in Signed : r.digest = Digest(r.seq, r.event, r.prev)

Verifies == UnsignedFirst /\ Numbered /\ Linked /\ Genuine

\* What the code alone has written and swept verifies, whatever events of
\* money and of scopes, failures, unsigned rows and retention it consists of,
\* if the transactions of the run did not overlap.
IntactVerifies == (altered = 0 /\ ~overlap) => Verifies

\* A row that is as the code wrote it vouches for all that was written before
\* it: a journal that verifies has them as they were written, up to rows missing
\* at its beginning.  (From a row that is not, the rest can be signed anew.)
AlterationIsSeen ==
    (Verifies /\ ~overlap)
        => \A r \in written, s \in Signed \cap written :
            s.seq > r.seq => (r \in rows \/ \A t \in Signed : t.seq > r.seq)

\* "The rows continue those that are there, or else the chain would fork": the
\* journal verifies as long as nobody but the code has touched it.
UntouchedVerifies == altered = 0 => Verifies
=============================================================================
