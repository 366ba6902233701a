------------------------- MODULE MCExecuteConfirmed -------------------------
(***************************************************************************)
(* Values for the constants of ExecuteConfirmed.  The configurations choose *)
(* among the sets of drafts and turns below.                                *)
(***************************************************************************)
EXTENDS ExecuteConfirmed, TLC

CONSTANTS p1, p2, w1, w2, proc1, author, stranger, chat1, m1, m2

Card(op, tier, human) ==
    [author |-> author, op |-> op, tier |-> tier, human |-> human,
     chat |-> chat1, run |-> NoRun, key |-> NoKey]

Reply(c, actor, message, intact) ==
    [chat |-> chat1, actor |-> actor, intact |-> intact, cid |-> c, reply |-> message]

\* Money asked for by a human or not, changes that cost none, and a creation.
\* The table takes a draft of a machine's turn, and _require_user_command is
\* there for it; the MCP tools refuse to make one (tools_write._HUMAN_ONLY_OPS).
AnyDrafts ==
    {Card("raise_budget", "L3", TRUE), Card("raise_budget", "L3", FALSE),
     Card("update_campaign", "L1", TRUE), Card("pause_campaign", "L1", TRUE),
     Card("create_campaign", "L2", TRUE)}

\* A relative decrease, which the cap never counts, a budget that is set, and a
\* creation.
OtherDrafts ==
    {Card("lower_budget", "L3", TRUE), Card("set_budget", "L2", TRUE),
     Card("create_campaign", "L2", TRUE)}

CreateOnly == {Card("create_campaign", "L2", TRUE)}

\* The author replies to the card, or to another message that quotes it with
\* or without its diff; a stranger replies to the card.
AnyTurns ==
    {Reply(p1, author, m1, TRUE), Reply(p1, author, m2, TRUE),
     Reply(p1, author, m1, FALSE), Reply(p1, stranger, m1, TRUE)}

AuthorTurns == {Reply(c, author, m1, TRUE) : c \in Proposals}

OneProcess == [w \in Workers |-> proc1]

\* With one process, proposals alike and workers alike can be exchanged.
Interchange == Permutations(Proposals) \cup Permutations(Workers)

\* Each worker alone in a process, which bears its name: exchanging two workers
\* exchanges their processes with them.
OwnProcess == [w \in Workers |-> w]

WorkersAlike == Permutations(Workers)
=============================================================================
