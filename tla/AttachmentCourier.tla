------------------------- MODULE AttachmentCourier -------------------------
(***************************************************************************)
(* The courier of the files a card has promised: deliver_proposal_          *)
(* attachments of scheduler/jobs.py over attachment_state of the table.     *)
(* A scheduler lists the promises of cards that can still be confirmed,     *)
(* then takes them one by one,                                              *)
(*     list -> claim -> build -> send -> finish                             *)
(* claim being a compare-and-set and finish a plain UPDATE.                 *)
(***************************************************************************)
EXTENDS ConfirmStore

CONSTANTS
    Schedulers,
    Nobody      \* no proposal at hand

VARIABLES
    file,       \* file[c]: attachment_state, "none" standing for NULL
    courier,    \* courier[s]: what the courier of scheduler s does next
    bag,        \* bag[s]: the rows it has listed
    parcel,     \* parcel[s]: the row it has claimed
    verdict,    \* verdict[s]: the state it is going to write
    arrived     \* arrived[c]: how often the file has reached the chat (history)

courierVars == <<file, courier, bag, parcel, verdict, arrived>>

CourierTypeOK ==
    /\ file \in [Proposals -> {"none", "pending", "sending", "sent", "failed"}]
    /\ courier \in [Schedulers -> {"idle", "claim", "build", "send", "finish"}]
    /\ bag \in [Schedulers -> SUBSET Proposals]
    /\ parcel \in [Schedulers -> Proposals \cup {Nobody}]
    /\ \A s \in Schedulers :
        parcel[s] \in Proposals <=> courier[s] \in {"build", "send", "finish"}
    /\ verdict \in [Schedulers -> {"sent", "failed"}]
    /\ arrived \in [Proposals -> Nat]

CourierInit ==
    /\ file = [c \in Proposals |-> "none"]
    /\ courier = [s \in Schedulers |-> "idle"]
    /\ bag = [s \in Schedulers |-> {}]
    /\ parcel = [s \in Schedulers |-> Nobody]
    /\ verdict = [s \in Schedulers |-> "failed"]
    /\ arrived = [c \in Proposals |-> 0]

\* propose.save_draft: the promise is saved with the row.
Promise(c, d) ==
    /\ SaveProposal(c, d)
    /\ file' = [file EXCEPT ![c] = IF d.file THEN "pending" ELSE "none"]
    /\ UNCHANGED <<courier, bag, parcel, verdict, arrived>>

To(s, step) == courier' = [courier EXCEPT ![s] = step]

\* Whatever was decided about the cards.
Promised == {c \in Proposals : file[c] = "pending" /\ Fresh(c)}

ListAttachments(s) ==
    /\ courier[s] = "idle" /\ Promised # {}
    /\ bag' = [bag EXCEPT ![s] = Promised]
    /\ To(s, "claim")
    /\ UNCHANGED <<storeVars, file, parcel, verdict, arrived>>

\* Taking what was listed.
SlipClaimable(c) == TRUE

Claimable(c) == file[c] = "pending"

ClaimAttachment(s, c) ==
    /\ courier[s] = "claim" /\ c \in bag[s]
    /\ bag' = [bag EXCEPT ![s] = @ \ {c}]
    /\ IF Claimable(c)
       THEN /\ file' = [file EXCEPT ![c] = "sending"]
            /\ parcel' = [parcel EXCEPT ![s] = c]
            /\ To(s, "build")
       ELSE UNCHANGED <<file, parcel, courier>>
    /\ UNCHANGED <<storeVars, verdict, arrived>>

\* No plan for a file any more, an error while it is built, or the file.
BuildAttachment(s) ==
    /\ courier[s] = "build"
    /\ To(s, "send") \/ To(s, "finish")
    /\ UNCHANGED <<storeVars, file, bag, parcel, verdict, arrived>>

\* After an exception the file may have arrived all the same.
SendFile(s) ==
    /\ courier[s] = "send"
    /\ \/ /\ verdict' = [verdict EXCEPT ![s] = "sent"]
          /\ arrived' = [arrived EXCEPT ![parcel[s]] = @ + 1]
       \/ /\ UNCHANGED verdict
          /\ \E n \in {0, 1} : arrived' = [arrived EXCEPT ![parcel[s]] = @ + n]
    /\ To(s, "finish")
    /\ UNCHANGED <<storeVars, file, bag, parcel>>

NextParcel(s) ==
    /\ parcel' = [parcel EXCEPT ![s] = Nobody]
    /\ verdict' = [verdict EXCEPT ![s] = "failed"]
    /\ To(s, "claim")

FinishAttachment(s) ==
    /\ courier[s] = "finish"
    /\ file' = [file EXCEPT ![parcel[s]] = verdict[s]]
    /\ NextParcel(s)
    /\ UNCHANGED <<storeVars, bag, arrived>>

CourierRests(s) ==
    /\ courier[s] = "claim" /\ bag[s] = {}
    /\ To(s, "idle")
    /\ UNCHANGED <<storeVars, file, bag, parcel, verdict, arrived>>

CourierDies(s) ==
    /\ To(s, "idle")
    /\ bag' = [bag EXCEPT ![s] = {}]
    /\ parcel' = [parcel EXCEPT ![s] = Nobody]
    /\ verdict' = [verdict EXCEPT ![s] = "failed"]
    /\ UNCHANGED <<file, arrived>>

CourierStep(s) ==
    \/ ListAttachments(s)
    \/ \E c \in Proposals : ClaimAttachment(s, c)
    \/ BuildAttachment(s) \/ SendFile(s) \/ FinishAttachment(s)
    \/ CourierRests(s)

-----------------------------------------------------------------------------
\* A promised file reaches the chat at most once, none is sent before it is
\* claimed, and "sent" is said only of a file that has arrived, whatever two
\* couriers, a restart between the steps or a lost answer of Telegram do.
FilesArriveOnce ==
    \A c \in Proposals :
        /\ arrived[c] <= 1
        /\ file[c] \in {"none", "pending"} => arrived[c] = 0
        /\ file[c] = "sent" => arrived[c] = 1
=============================================================================
