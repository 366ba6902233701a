---------------------------- MODULE MCDeliveries ----------------------------
(***************************************************************************)
(* What stands between the processes and the world outside: the deliveries  *)
(* to the chat, the circuit in front of an API, the journal of a run.  They *)
(* share no row, so a behaviour is one of one of them (watched), and TLC    *)
(* checks the three in one run.                                             *)
(***************************************************************************)
EXTENDS Deliveries, CircuitBreaker, RunJournal

CONSTANTS author, chat1

VARIABLE watched

-----------------------------------------------------------------------------
\* A card that promises a file and one whose outcome is measured.  A card may
\* do both, but the two jobs read and write different columns.
Card(op, promised) ==
    [op |-> op, file |-> promised, author |-> author, chat |-> chat1,
     tier |-> "L1", human |-> TRUE, run |-> NoRun, key |-> NoKey]

MCDrafts == {Card("add_negative_keywords", TRUE), Card("update_budget", FALSE)}

-----------------------------------------------------------------------------
WatchedInit ==
    /\ watched \in {"deliveries", "circuit", "journal"}
    /\ Init /\ CircuitInit /\ JournalInit
    /\ watched = "journal" \/ rows = {}

\* A step of the part that is watched.
Deliver(A) == watched = "deliveries" /\ A /\ UNCHANGED <<watched, circuitVars, journalVars>>
Guard(A) == watched = "circuit" /\ A /\ UNCHANGED <<watched, vars, journalVars>>
Record(A) == watched = "journal" /\ A /\ UNCHANGED <<watched, vars, circuitVars>>

allVars == <<watched, vars, circuitVars, journalVars>>

\* A run that is past every retention has ended; nothing else may stop.
Over == watched = "journal" /\ age = 2 /\ UNCHANGED allVars

WatchedNext == Deliver(Next) \/ Guard(CircuitNext) \/ Record(JournalNext) \/ Over

\* The fairness of FairSpec and of CircuitSpec.
WatchedSpec ==
    /\ WatchedInit /\ [][WatchedNext]_allVars
    /\ WF_allVars(Deliver(Tick))
    /\ \A s \in Schedulers :
        /\ WF_allVars(Deliver(CheckerStep(s) /\ UNCHANGED <<courierVars, crashes>>))
        /\ WF_allVars(Deliver(CourierStep(s) /\ UNCHANGED <<checkerVars, crashes>>))
    /\ WF_allVars(Guard(TimePasses))
    /\ \A c \in Calls : WF_allVars(Guard(Proceed(c)))
=============================================================================
