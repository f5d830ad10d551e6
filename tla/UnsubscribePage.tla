--------------------------- MODULE UnsubscribePage --------------------------
(***************************************************************************)
(* The page behind the unsubscribe link of a digest                         *)
(* (services/frontend/app/pages/unsubscribe/[token].vue) and the handler it *)
(* posts to.  The page shows a snapshot of the user's bots, turns the boxes *)
(* the user ticked into a list of updates against that snapshot, and the    *)
(* handler applies the list one update, one write at a time; it may fail    *)
(* half-way, and the user applies again.  Meanwhile the bots page may write *)
(* the same entries, and the link may expire.                               *)
(***************************************************************************)
EXTENDS Naturals

CONSTANTS
    Bot,         \* config ids of the user's bots
    Triggering,  \* those of the service whose digest held the link
    MaxFaults    \* bound: requests that fail half-way

ASSUME TriggeringAssumption == Triggering \subseteq Bot
ASSUME BoundAssumption == MaxFaults \in Nat

VARIABLES
    status,   \* status[b] of the users.bots entry
    emails,   \* bots with email_notifications on
    running,  \* bots whose <bot>_config document is active
    page,     \* what the page shows, and its boxes
    post,     \* the request being handled
    touched,  \* history: bots the bots page wrote; bound: once each
    link,     \* what verifyUnsubscribeToken finds of the link's token
    faults

vars == <<status, emails, running, page, post, touched, link, faults>>

NoPage == [step |-> "closed", shown |-> {}, mailing |-> {}, active |-> {},
           disable |-> {}, stop |-> {}]

(* An update of one bot; "keep" where a field is left out. *)
Update == [bot : Bot, email : {"keep", "on", "off"}, status : {"keep", "stopped"}]

NoPost == [left |-> {}, written |-> {}]

TypeOK ==
    /\ status \in [Bot -> {"pending", "active", "stopped", "deleted"}]
    /\ emails \subseteq Bot
    /\ running \subseteq Bot
    /\ page \in [step : {"closed", "open", "posting", "done"},
                 shown : SUBSET Bot, mailing : SUBSET Bot, active : SUBSET Bot,
                 disable : SUBSET Bot, stop : SUBSET Bot]
    /\ post \in [left : SUBSET Update, written : SUBSET Update]
    /\ post.written \subseteq post.left
    /\ touched \subseteq Bot
    /\ link \in {"ok", "expired"}
    /\ faults \in 0 .. MaxFaults

(* The two records of each bot agree, as they do when it is at rest.        *)
Init ==
    /\ status \in [Bot -> {"pending", "active", "stopped"}]
    /\ emails \in SUBSET Bot
    /\ running = {b \in Bot : status[b] # "stopped"}
    /\ page = NoPage
    /\ post = NoPost
    /\ touched = {}
    /\ link = "ok"
    /\ faults = 0

-----------------------------------------------------------------------------
(* Both handlers refuse an expired link before they read or write anything. *)
Verified == link = "ok"

Expire ==
    /\ link' = "expired"
    /\ UNCHANGED <<status, emails, running, page, post, touched, faults>>

(* GET /api/unsubscribe/:token: every entry but the deleted ones, a pending *)
(* one as a stopped one.                                                    *)
Summary ==
    LET shown == {b \in Bot : status[b] # "deleted"} IN
    [shown |-> shown, mailing |-> shown \cap emails,
     active |-> {b \in shown : status[b] = "active"},
     triggered |-> shown \cap Triggering]

(* toChoice ticks "Disable emails" for the mailing bots of the triggering   *)
(* service.                                                                 *)
Load ==
    /\ page.step = "closed"
    /\ Verified
    /\ page' = [step |-> "open", shown |-> Summary.shown,
                mailing |-> Summary.mailing, active |-> Summary.active,
                disable |-> Summary.mailing \cap Summary.triggered, stop |-> {}]
    /\ UNCHANGED <<status, emails, running, post, touched, link, faults>>

(* The user ticks or clears boxes. *)
Choose(disable, stop) ==
    /\ page.step = "open"
    /\ disable \cup stop \subseteq page.shown
    /\ page' = [page EXCEPT !.disable = disable, !.stop = stop]
    /\ UNCHANGED <<status, emails, running, post, touched, link, faults>>

(* wantEmail !== initial_email: a bot that was not mailing and is not       *)
(* ticked is switched on.                                                   *)
EmailUpdate(b) ==
    IF b \in page.disable THEN IF b \in page.mailing THEN "off" ELSE "keep"
    ELSE IF b \in page.mailing THEN "keep" ELSE "on"

StatusUpdate(b) == IF b \in page.stop \cap page.active THEN "stopped" ELSE "keep"

(* collectUpdates. *)
Updates ==
    {u \in Update :
       /\ u.bot \in page.shown
       /\ u.email = EmailUpdate(u.bot) /\ u.status = StatusUpdate(u.bot)
       /\ u.email # "keep" \/ u.status # "keep"}

(* "Apply changes", once a box is ticked; with an expired link the page     *)
(* stays as it is.                                                          *)
Submit ==
    /\ page.step = "open"
    /\ Verified
    /\ page.disable \cup page.stop # {}
    /\ Updates # {}
    /\ post' = [left |-> Updates, written |-> {}]
    /\ page' = [page EXCEPT !.step = "posting"]
    /\ UNCHANGED <<status, emails, running, touched, link, faults>>

-----------------------------------------------------------------------------
(* An update with a status first writes active in the document. *)
WriteConfig(u) ==
    /\ u \in post.left \ post.written
    /\ post.written = {}
    /\ u.status = "stopped"
    /\ running' = running \ {u.bot}
    /\ post' = [post EXCEPT !.written = {u}]
    /\ UNCHANGED <<status, emails, page, touched, link, faults>>

(* Mutant: an update of an entry that is stopped already ends the loop. *)
WriteRowOrStop(u) ==
    LET live == status[u.bot] # "deleted" IN
    /\ u \in post.left
    /\ IF u.status = "stopped" THEN u \in post.written ELSE post.written = {}
    /\ status' = IF live /\ u.status = "stopped"
                 THEN [status EXCEPT ![u.bot] = "stopped"] ELSE status
    /\ emails' = IF ~live \/ u.email = "keep" THEN emails
                 ELSE IF u.email = "on" THEN emails \cup {u.bot}
                 ELSE emails \ {u.bot}
    /\ post' = [left |-> IF status' = status /\ emails' = emails THEN {}
                         ELSE post.left \ {u},
                written |-> {}]
    /\ UNCHANGED <<running, page, touched, link, faults>>

(* ... then, or at once, the entry; the arrayFilter skips a deleted one. *)
WriteRow(u) ==
    LET live == status[u.bot] # "deleted" IN
    /\ u \in post.left
    /\ IF u.status = "stopped" THEN u \in post.written ELSE post.written = {}
    /\ status' = IF live /\ u.status = "stopped"
                 THEN [status EXCEPT ![u.bot] = "stopped"] ELSE status
    /\ emails' = IF ~live \/ u.email = "keep" THEN emails
                 ELSE IF u.email = "on" THEN emails \cup {u.bot}
                 ELSE emails \ {u.bot}
    /\ post' = [left |-> post.left \ {u}, written |-> {}]
    /\ UNCHANGED <<running, page, touched, link, faults>>

(* The last update is through: "Your preferences have been saved." *)
Confirm ==
    /\ page.step = "posting"
    /\ post.left = {}
    /\ page' = [page EXCEPT !.step = "done"]
    /\ UNCHANGED <<status, emails, running, post, touched, link, faults>>

(* A write fails, or the answer is lost: the page stays as it is, and the   *)
(* user may apply again.                                                    *)
PostFails ==
    /\ page.step = "posting"
    /\ faults < MaxFaults
    /\ faults' = faults + 1
    /\ post' = NoPost
    /\ page' = [page EXCEPT !.step = "open"]
    /\ UNCHANGED <<status, emails, running, touched, link>>

(* The user closes the page, and may open the link again. *)
Close ==
    /\ page.step \in {"open", "done"}
    /\ page' = NoPage
    /\ UNCHANGED <<status, emails, running, post, touched, link, faults>>

(* The bots page switches mails, pauses, resumes or deletes a bot. *)
Dashboard(b) ==
    /\ b \notin touched
    /\ touched' = touched \cup {b}
    /\ status[b] \in {"active", "stopped"}
    /\ \/ /\ emails' = IF b \in emails THEN emails \ {b} ELSE emails \cup {b}
          /\ UNCHANGED <<status, running>>
       \/ /\ \/ /\ status[b] = "active"
                /\ status' = [status EXCEPT ![b] = "stopped"]
                /\ running' = running \ {b}
             \/ /\ status[b] = "stopped"
                /\ status' = [status EXCEPT ![b] = "active"]
                /\ running' = running \cup {b}
          /\ UNCHANGED emails
       \/ /\ status' = [status EXCEPT ![b] = "deleted"]
          /\ running' = running \ {b}
          /\ emails' = emails \ {b}
    /\ UNCHANGED <<page, post, link, faults>>

Apply ==
    \/ Submit
    \/ Confirm
    \/ \E u \in Update : WriteConfig(u) \/ WriteRow(u)

Next ==
    \/ Load
    \/ \E disable, stop \in SUBSET Bot : Choose(disable, stop)
    \/ Apply
    \/ PostFails
    \/ Close
    \/ Expire
    \/ \E b \in Bot : Dashboard(b)

Spec == Init /\ [][Next]_vars

-----------------------------------------------------------------------------
(* What the page confirms is so, but for the bots the bots page wrote: a    *)
(* bot that is ticked "Disable emails" sends none, and one that is ticked   *)
(* "Stop bot" is active in neither record, although earlier attempts may    *)
(* have failed at any of their writes with other boxes ticked.  The one     *)
(* exception is a bot that sent no mail when the page was loaded: a failed  *)
(* attempt may have turned it on, and the page cannot turn it off again.    *)
ConfirmedIsApplied ==
    page.step = "done" =>
        /\ \A b \in (page.disable \cap emails) \ touched : b \notin page.mailing /\ faults > 0
        /\ \A b \in page.stop \ touched :
              status[b] # "active" /\ (status[b] = "stopped" => b \notin running)
=============================================================================
