--------------------------- MODULE OutcomeChecker ---------------------------
(***************************************************************************)
(* The follow-up of applied changes: run_outcome_checker of                 *)
(* scheduler/jobs.py over the columns outcome_... of the table.  A week     *)
(* after a change the checker claims the row, measures, sends a message and *)
(* completes the row; what fails is tried again a day later.                *)
(*     claim -> measure -> send -> complete                                 *)
(*                    \-> read -> write (retry_outcome)                     *)
(* retry_outcome reads the row and writes it back by its id; the others are *)
(* compare-and-sets without a token of the claim.  The checker runs in the  *)
(* same schedulers as the courier, whose module it extends.                 *)
(*                                                                         *)
(* due is the time left until outcome_due_at, claimed the age of            *)
(* outcome_claimed_at, lag[s] the age of run_now of scheduler s.            *)
(***************************************************************************)
EXTENDS AttachmentCourier

CONSTANTS
    OutcomeOps,    \* the operations whose outcome is measured
    AGO,           \* an hour
    DAY,
    WEEK,          \* settings.outcome_check_days
    MaxAttempts,   \* settings.outcome_check_max_attempts, 1 if that is less
    MaxCrashes     \* bound: crashes of schedulers

ASSUME OutcomeAssumption ==
    /\ {AGO, DAY, WEEK, MaxCrashes} \subseteq Nat
    /\ MaxAttempts \in Nat \ {0}
    /\ AGO < HORIZON
    /\ Nobody \notin Proposals

VARIABLES
    outcome,    \* outcome[c]: state, due, claimed, attempts
    checker,    \* checker[s]: what the checker of scheduler s does next
    batch,      \* batch[s]: the rows it has claimed
    at,         \* at[s]: the row it is about
    known,      \* known[s]: the attempts it has read of it
    lag,
    told,       \* told[c]: messages about c that have arrived (history)
    disturbed   \* rows whose claim was taken over or whose call failed (history)

checkerVars == <<outcome, checker, batch, at, known, lag, told, disturbed>>

NoOutcome == [state |-> "none", due |-> 0, claimed |-> Null, attempts |-> 0]

CheckerTypeOK ==
    /\ outcome \in [Proposals ->
            [state : {"none", "pending", "checking", "delivered", "failed"},
             due : Nat, claimed : Age \cup {Null}, attempts : Nat]]
    /\ \A c \in Proposals :
        /\ outcome[c].state # "none" => status[c] \in {"applied", "needs_review"}
        /\ outcome[c].claimed # Null <=> outcome[c].state = "checking"
    /\ checker \in [Schedulers -> {"idle", "measure", "send", "complete", "read", "write"}]
    /\ batch \in [Schedulers -> SUBSET Proposals]
    /\ at \in [Schedulers -> Proposals \cup {Nobody}]
    /\ \A s \in Schedulers : at[s] = Nobody <=> checker[s] \in {"idle", "measure"}
    /\ known \in [Schedulers -> Nat]
    /\ lag \in [Schedulers -> Age]
    /\ told \in [Proposals -> Nat]
    /\ disturbed \subseteq Proposals

CheckerInit ==
    /\ outcome = [c \in Proposals |-> NoOutcome]
    /\ checker = [s \in Schedulers |-> "idle"]
    /\ batch = [s \in Schedulers |-> {}]
    /\ at = [s \in Schedulers |-> Nobody]
    /\ known = [s \in Schedulers |-> 0]
    /\ lag = [s \in Schedulers |-> 0]
    /\ told = [c \in Proposals |-> 0]
    /\ disturbed = {}

Expected(c) ==
    outcome' = [outcome EXCEPT ![c] =
                   IF draft[c].op \in OutcomeOps
                   THEN [NoOutcome EXCEPT !.state = "pending", !.due = WEEK] ELSE @]

\* finalize freezes the expectation together with the status.
FinalizeWithOutcome(c) ==
    /\ Finalize(c)
    /\ Expected(c)
    /\ UNCHANGED <<checker, batch, at, known, lag, told, disturbed>>

Onto(s, step) == checker' = [checker EXCEPT ![s] = step]

\* Claims are never given up.
SlipStale(c) == FALSE

\* A claim older than an hour is taken for one that was abandoned.
Stale(c) == outcome[c].state = "checking" /\ outcome[c].claimed > AGO

IsDue(c) ==
    status[c] = "applied" /\ outcome[c].due = 0 /\ (outcome[c].state = "pending" \/ Stale(c))

\* claim_due_outcomes, one transaction for the batch.
ClaimDueOutcomes(s) ==
    LET due == {c \in Proposals : IsDue(c)}
    IN  /\ checker[s] = "idle" /\ due # {}
        /\ outcome' = [c \in Proposals |->
                          IF c \in due
                          THEN [outcome[c] EXCEPT !.state = "checking", !.claimed = 0,
                                                  !.attempts = @ + 1]
                          ELSE outcome[c]]
        /\ batch' = [batch EXCEPT ![s] = due]
        /\ lag' = [lag EXCEPT ![s] = 0]
        /\ disturbed' = disturbed \cup {c \in due : Stale(c)}
        /\ Onto(s, "measure")
        /\ UNCHANGED <<storeVars, at, known, told>>

\* The recipient, the account or the report may be out of reach.
Measure(s, c) ==
    /\ checker[s] = "measure" /\ c \in batch[s]
    /\ at' = [at EXCEPT ![s] = c]
    /\ Onto(s, "send") \/ Onto(s, "read")
    /\ UNCHANGED <<storeVars, outcome, batch, known, lag, told, disturbed>>

CheckerRests(s) ==
    /\ checker[s] = "measure" /\ batch[s] = {}
    /\ lag' = [lag EXCEPT ![s] = 0]
    /\ Onto(s, "idle")
    /\ UNCHANGED <<storeVars, outcome, batch, at, known, told, disturbed>>

\* After an exception the message may have arrived all the same.
SendOutcome(s) ==
    /\ checker[s] = "send"
    /\ \/ /\ told' = [told EXCEPT ![at[s]] = @ + 1]
          /\ Onto(s, "complete")
          /\ UNCHANGED disturbed
       \/ /\ \E n \in {0, 1} : told' = [told EXCEPT ![at[s]] = @ + n]
          /\ Onto(s, "read")
          /\ disturbed' = disturbed \cup {at[s]}
    /\ UNCHANGED <<storeVars, outcome, batch, at, known, lag>>

InMyHands(s) == status[at[s]] = "applied" /\ outcome[at[s]].state = "checking"

NextRow(s) ==
    /\ batch' = [batch EXCEPT ![s] = @ \ {at[s]}]
    /\ at' = [at EXCEPT ![s] = Nobody]
    /\ known' = [known EXCEPT ![s] = 0]
    /\ Onto(s, "measure")

CompleteOutcome(s) ==
    /\ checker[s] = "complete"
    /\ InMyHands(s)
    /\ outcome' = [outcome EXCEPT ![at[s]].state = "delivered", ![at[s]].claimed = Null]
    /\ NextRow(s)
    /\ UNCHANGED <<storeVars, lag, told, disturbed>>

\* The compare-and-set is lost, or its transaction raises.
CompletionFails(s) ==
    /\ checker[s] = "complete"
    /\ Onto(s, "read")
    /\ disturbed' = disturbed \cup {at[s]}
    /\ UNCHANGED <<storeVars, outcome, batch, at, known, lag, told>>

ReadOutcome(s) ==
    /\ checker[s] = "read"
    /\ IF InMyHands(s)
       THEN /\ known' = [known EXCEPT ![s] = outcome[at[s]].attempts]
            /\ Onto(s, "write")
            /\ UNCHANGED <<batch, at>>
       ELSE NextRow(s)
    /\ UNCHANGED <<storeVars, outcome, lag, told, disturbed>>

\* Counting the attempt to come.
SlipTerminal(s) == known[s] + 1 >= MaxAttempts

Terminal(s) == known[s] >= MaxAttempts

WriteOutcome(s) ==
    /\ checker[s] = "write"
    /\ outcome' = [outcome EXCEPT ![at[s]] =
                      [@ EXCEPT !.state = IF Terminal(s) THEN "failed" ELSE "pending",
                                !.due = IF Terminal(s) \/ DAY < lag[s] THEN 0 ELSE DAY - lag[s],
                                !.claimed = Null]]
    /\ disturbed' = IF InMyHands(s) THEN disturbed ELSE disturbed \cup {at[s]}
    /\ NextRow(s)
    /\ UNCHANGED <<storeVars, lag, told>>

CheckerDies(s) ==
    /\ Onto(s, "idle")
    /\ batch' = [batch EXCEPT ![s] = {}]
    /\ at' = [at EXCEPT ![s] = Nobody]
    /\ known' = [known EXCEPT ![s] = 0]
    /\ lag' = [lag EXCEPT ![s] = 0]
    /\ UNCHANGED <<outcome, told, disturbed>>

CheckerStep(s) ==
    \/ ClaimDueOutcomes(s)
    \/ \E c \in Proposals : Measure(s, c)
    \/ SendOutcome(s) \/ CompleteOutcome(s) \/ CompletionFails(s)
    \/ ReadOutcome(s) \/ WriteOutcome(s) \/ CheckerRests(s)

OutcomesAge ==
    /\ outcome' = [c \in Proposals |->
                      [outcome[c] EXCEPT !.claimed = Older(@), !.due = IF @ > 0 THEN @ - 1 ELSE 0]]
    /\ lag' = [s \in Schedulers |-> IF checker[s] = "idle" THEN 0 ELSE Older(lag[s])]
    /\ UNCHANGED <<checker, batch, at, known, told, disturbed>>

-----------------------------------------------------------------------------
\* An outcome called delivered has been told, one given up has had all its
\* attempts, and it is told once unless the claim of a sender was taken over,
\* the call of Telegram raised or the completion of the row failed.
OutcomeIsHonest ==
    \A c \in Proposals :
        /\ outcome[c].state = "delivered" => told[c] > 0
        /\ outcome[c].state = "failed" => outcome[c].attempts >= MaxAttempts
        /\ told[c] > 1 => c \in disturbed
=============================================================================
