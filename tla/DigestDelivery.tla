--------------------------- MODULE DigestDelivery ---------------------------
(***************************************************************************)
(* What the notification pipeline promises, with neither a scraper, nor a   *)
(* queue, nor a consumer: a match becomes due once, every digest mails      *)
(* matches of one user that are still due, and a match is retired (its row  *)
(* gets a sent_at) only after a digest carried it.  Delivery is at least    *)
(* once: a due match may be mailed again, a retired one never.              *)
(***************************************************************************)
CONSTANTS User,    \* the users matches are reported to
          Listing  \* the listings a match may be about

VARIABLES due,      \* matches waiting for a digest
          mailed,   \* matches some digest carried
          retired   \* matches that no digest will carry again

vars == <<due, mailed, retired>>

Pair == User \X Listing

TypeOK ==
    /\ due \subseteq Pair
    /\ mailed \subseteq Pair
    /\ retired \subseteq Pair

Init ==
    /\ due = {}
    /\ mailed = {}
    /\ retired = {}

(* Matches never reported before become due for user u. *)
Report(u, S) ==
    /\ ({u} \X S) \cap (due \cup retired) = {}
    /\ due' = due \cup ({u} \X S)
    /\ UNCHANGED <<mailed, retired>>

(* One digest to user u carries the matches S. *)
Mail(u, S) ==
    /\ {u} \X S \subseteq due
    /\ mailed' = mailed \cup ({u} \X S)
    /\ UNCHANGED <<due, retired>>

(* Matches that were mailed leave the due set for good. *)
Retire(u, S) ==
    /\ {u} \X S \subseteq due \cap mailed
    /\ due' = due \ ({u} \X S)
    /\ retired' = retired \cup ({u} \X S)
    /\ UNCHANGED mailed

Next ==
    \E u \in User, S \in SUBSET Listing :
        Report(u, S) \/ Mail(u, S) \/ Retire(u, S)

Spec == Init /\ [][Next]_vars
=============================================================================
