----------------------- MODULE UnsubscribePage_proofs -----------------------
(***************************************************************************)
(* Proofs about UnsubscribePage, for any bots and any number of failures.   *)
(***************************************************************************)
EXTENDS UnsubscribePage, TLAPS

Pages == [step : {"closed", "open", "posting", "done"},
          shown : SUBSET Bot, mailing : SUBSET Bot, active : SUBSET Bot,
          disable : SUBSET Bot, stop : SUBSET Bot]

LEMMA TypeInit == Init => TypeOK
BY BoundAssumption DEF Init, TypeOK, NoPage, NoPost

LEMMA TypeStep == TypeOK /\ [Next]_vars => TypeOK'
<1> SUFFICES ASSUME TypeOK, [Next]_vars PROVE TypeOK'
    OBVIOUS
<1> USE DEF TypeOK
<1>1. CASE Load
    <2>1. page' \in Pages
        BY <1>1 DEF Load, Summary, Pages
    <2>2. QED
        BY <1>1, <2>1 DEF Load, Pages
<1>2. ASSUME NEW disable \in SUBSET Bot, NEW stop \in SUBSET Bot, Choose(disable, stop)
      PROVE  TypeOK'
    BY <1>2 DEF Choose
<1>3. CASE Submit
    <2>1. post' \in [left : SUBSET Update, written : SUBSET Update]
          /\ post'.written \subseteq post'.left
        BY <1>3 DEF Submit, Updates
    <2>2. QED
        BY <1>3, <2>1 DEF Submit
<1>4. CASE Confirm
    BY <1>4 DEF Confirm
<1>5. ASSUME NEW u \in Update, WriteConfig(u) PROVE TypeOK'
    BY <1>5 DEF WriteConfig
<1>6. ASSUME NEW u \in Update, WriteRow(u) PROVE TypeOK'
    <2>1. u.bot \in Bot
        BY DEF Update
    <2>2. status' \in [Bot -> {"pending", "active", "stopped", "deleted"}]
          /\ emails' \subseteq Bot
        BY <1>6, <2>1 DEF WriteRow
    <2>3. QED
        BY <1>6, <2>2 DEF WriteRow
<1>7. CASE PostFails
    BY <1>7, BoundAssumption DEF PostFails, NoPost
<1>8. CASE Close
    BY <1>8 DEF Close, NoPage
<1>9. CASE Expire
    BY <1>9 DEF Expire
<1>10. ASSUME NEW b \in Bot, Dashboard(b) PROVE TypeOK'
    BY <1>10 DEF Dashboard
<1>11. CASE UNCHANGED vars
    BY <1>11 DEF vars
<1>12. QED
    BY <1>1, <1>2, <1>3, <1>4, <1>5, <1>6, <1>7, <1>8, <1>9, <1>10, <1>11
       DEF Next, Apply

(* The records of the bots, the page and the request in hand keep their     *)
(* types, whatever the user, the bots page and the faults do.               *)
THEOREM TypeCorrect == Spec => []TypeOK
<1>1. QED
    BY TypeInit, TypeStep, PTL DEF Spec
-----------------------------------------------------------------------------
(* A bot the bots page has not written exists, and when its entry is        *)
(* stopped its document is not active: the document is written first.       *)
UntouchedAgree ==
    \A b \in Bot \ touched :
        status[b] # "deleted" /\ (status[b] = "stopped" => b \notin running)

(* The request holds updates the page still stands for, and a document it   *)
(* has written is off.                                                      *)
PostMatchesPage ==
    /\ page.step # "posting" => post = NoPost
    /\ post.left \subseteq Updates
    /\ \A u \in post.written :
         u.status = "stopped" /\ (u.bot \notin touched => u.bot \notin running)

(* An open page knows the active bots among those it shows.                 *)
ShownActive ==
    page.step # "closed" =>
        /\ page.disable \cup page.stop \subseteq page.shown
        /\ \A b \in page.shown \ touched : status[b] = "active" => b \in page.active

(* What a request has not applied yet it has still to write.                *)
StillOwed ==
    page.step \in {"posting", "done"} =>
        \A b \in page.shown \ touched :
            /\ b \in page.disable \cap page.mailing \cap emails
                 => \E u \in post.left : u.bot = b
            /\ b \in page.stop /\ status[b] = "active"
                 => \E u \in post.left : u.bot = b

(* While no attempt has failed, only the request in hand, or the one that   *)
(* is confirmed, has turned a bot on, and one that is not ticked.           *)
TurnedOn ==
    page.step # "closed" /\ faults = 0 =>
        \A b \in (page.shown \cap emails) \ touched :
            b \in page.mailing \/ (page.step \in {"posting", "done"} /\ b \notin page.disable)

ApplyInv ==
    TypeOK /\ UntouchedAgree /\ PostMatchesPage /\ ShownActive /\ StillOwed /\ TurnedOn

LEMMA ApplyInit == Init => ApplyInv
<1> SUFFICES ASSUME Init PROVE ApplyInv
    OBVIOUS
<1>1. TypeOK
    BY TypeInit
<1>2. QED
    BY <1>1 DEF Init, ApplyInv, UntouchedAgree, PostMatchesPage, ShownActive, StillOwed,
                TurnedOn, NoPage, NoPost

(* The updates are a function of the page.                                  *)
LEMMA SamePage == page' = page => Updates' = Updates
BY DEF Updates, EmailUpdate, StatusUpdate

LEMMA WriteConfigKeeps ==
    ASSUME ApplyInv, NEW u \in Update, WriteConfig(u)
    PROVE  UntouchedAgree' /\ PostMatchesPage' /\ ShownActive' /\ StillOwed'
<1> USE DEF ApplyInv, TypeOK, WriteConfig
<1>1. Updates' = Updates
    BY SamePage
<1>2. page.step = "posting"
    BY DEF PostMatchesPage, NoPost
<1>3. UntouchedAgree'
    BY DEF UntouchedAgree
<1>4. PostMatchesPage'
    BY <1>1, <1>2 DEF PostMatchesPage
<1>5. ShownActive' /\ StillOwed'
    BY DEF ShownActive, StillOwed
<1>6. QED
    BY <1>3, <1>4, <1>5

LEMMA WriteRowKeeps ==
    ASSUME ApplyInv, NEW u \in Update, WriteRow(u)
    PROVE  UntouchedAgree' /\ PostMatchesPage' /\ ShownActive' /\ StillOwed'
<1> USE DEF ApplyInv, TypeOK
<1>1. Updates' = Updates
    BY SamePage DEF WriteRow
<1>2. page.step = "posting" /\ u \in Updates /\ u.bot \in Bot
    BY DEF PostMatchesPage, NoPost, WriteRow, Update
<1>3. /\ \A b \in Bot \ {u.bot} : status'[b] = status[b] /\ (b \in emails' => b \in emails)
      /\ status'[u.bot] \in {status[u.bot], "stopped"}
      /\ page' = page /\ running' = running /\ touched' = touched
      /\ post'.left = post.left \ {u} /\ post'.written = {}
    BY <1>2 DEF WriteRow
<1>4. status'[u.bot] = "stopped" /\ u.bot \notin touched => u.bot \notin running
    BY <1>2 DEF WriteRow, UntouchedAgree, PostMatchesPage
<1>5. UntouchedAgree'
    BY <1>2, <1>3, <1>4 DEF UntouchedAgree
<1>6. PostMatchesPage'
    BY <1>1, <1>2, <1>3 DEF PostMatchesPage
<1>7. ShownActive'
    BY <1>2, <1>3 DEF ShownActive
<1>8. StillOwed'
    <2>1. SUFFICES ASSUME NEW b \in page.shown \ touched
                   PROVE  /\ b \in page.disable \cap page.mailing \cap emails'
                               => \E v \in post'.left : v.bot = b
                          /\ b \in page.stop /\ status'[b] = "active"
                               => \E v \in post'.left : v.bot = b
        BY <1>3 DEF StillOwed
    <2>2. CASE b = u.bot
        <3>1. status[b] # "deleted" /\ b \in Bot
            BY DEF UntouchedAgree
        <3>2. b \in page.disable \cap page.mailing => b \notin emails'
            BY <1>2, <2>2, <3>1 DEF Updates, EmailUpdate, WriteRow
        <3>3. b \in page.stop => status'[b] # "active"
            <4>1. CASE status[b] = "active"
                <5>1. b \in page.stop => u.status = "stopped"
                    BY <1>2, <2>2, <4>1 DEF Updates, StatusUpdate, ShownActive
                <5>2. QED
                    BY <2>2, <3>1, <5>1, <4>1 DEF WriteRow
            <4>2. CASE status[b] # "active"
                BY <1>3, <2>2, <4>2
            <4>3. QED
                BY <4>1, <4>2
        <3>4. QED
            BY <3>2, <3>3
    <2>3. CASE b # u.bot
        <3>1. \A v \in post.left : v.bot = b => v \in post'.left
            BY <1>3, <2>3
        <3>2. b \in Bot
            OBVIOUS
        <3>3. status'[b] = status[b] /\ (b \in emails' => b \in emails)
            BY <1>3, <2>3, <3>2
        <3>4. QED
            BY <1>2, <3>1, <3>3 DEF StillOwed
    <2>4. QED
        BY <2>2, <2>3
<1>9. QED
    BY <1>5, <1>6, <1>7, <1>8

LEMMA SubmitKeeps ==
    ASSUME ApplyInv, Submit
    PROVE  UntouchedAgree' /\ PostMatchesPage' /\ ShownActive' /\ StillOwed'
<1> USE DEF ApplyInv, TypeOK, Submit
<1>1. Updates' = Updates
    BY DEF Updates, EmailUpdate, StatusUpdate
<1>2. UntouchedAgree' /\ ShownActive'
    BY DEF UntouchedAgree, ShownActive
<1>3. PostMatchesPage'
    BY <1>1 DEF PostMatchesPage
<1>4. StillOwed'
    <2>1. SUFFICES ASSUME NEW b \in page.shown \ touched,
                          \/ b \in page.disable \cap page.mailing
                          \/ b \in page.stop /\ status[b] = "active"
                   PROVE  \E u \in Updates : u.bot = b
        BY DEF StillOwed
    <2>2. DEFINE u == [bot |-> b, email |-> EmailUpdate(b), status |-> StatusUpdate(b)]
    <2>3. u \in Update
        BY DEF Update, EmailUpdate, StatusUpdate
    <2>4. u.email # "keep" \/ u.status # "keep"
        BY <2>1 DEF EmailUpdate, StatusUpdate, ShownActive
    <2>5. QED
        BY <2>3, <2>4 DEF Updates
<1>5. QED
    BY <1>2, <1>3, <1>4

LEMMA DashboardKeeps ==
    ASSUME ApplyInv, NEW b \in Bot, Dashboard(b)
    PROVE  UntouchedAgree' /\ PostMatchesPage' /\ ShownActive' /\ StillOwed'
<1> USE DEF ApplyInv, TypeOK
<1>1. Updates' = Updates
    BY SamePage DEF Dashboard
<1>2. /\ touched' = touched \cup {b} /\ page' = page /\ post' = post
      /\ \A a \in Bot \ {b} : /\ status'[a] = status[a]
                              /\ a \in emails' <=> a \in emails
                              /\ a \in running' <=> a \in running
    BY DEF Dashboard
<1>3. UntouchedAgree'
    BY <1>2 DEF UntouchedAgree
<1>4. PostMatchesPage'
    <2>1. \A u \in post.written : u.bot \in Bot
        BY DEF Update
    <2>2. QED
        BY <1>1, <1>2, <2>1 DEF PostMatchesPage, NoPost
<1>5. ShownActive' /\ StillOwed'
    BY <1>2 DEF ShownActive, StillOwed
<1>6. QED
    BY <1>3, <1>4, <1>5

LEMMA TurnedOnStep == ApplyInv /\ [Next]_vars => TurnedOn'
<1> SUFFICES ASSUME ApplyInv, [Next]_vars PROVE TurnedOn'
    OBVIOUS
<1> USE DEF ApplyInv, TypeOK, TurnedOn
<1>1. CASE Load
    BY <1>1 DEF Load, Summary
<1>2. ASSUME NEW disable \in SUBSET Bot, NEW stop \in SUBSET Bot, Choose(disable, stop)
      PROVE  TurnedOn'
    BY <1>2 DEF Choose
<1>3. CASE Submit \/ Confirm
    BY <1>3 DEF Submit, Confirm
<1>4. ASSUME NEW u \in Update, WriteConfig(u) PROVE TurnedOn'
    BY <1>4 DEF WriteConfig
<1>5. ASSUME NEW u \in Update, WriteRow(u) PROVE TurnedOn'
    <2>1. page.step = "posting" /\ u \in Updates /\ UNCHANGED <<page, touched, faults>>
        BY <1>5 DEF PostMatchesPage, NoPost, WriteRow
    <2>2. u.email = "on" => u.bot \notin page.disable
        BY <2>1 DEF Updates, EmailUpdate
    <2>3. \A b \in emails' : b \in emails \/ (b = u.bot /\ u.email = "on")
        BY <1>5 DEF WriteRow
    <2>4. QED
        BY <2>1, <2>2, <2>3
<1>6. CASE PostFails
    <2>1. faults \in Nat /\ faults' = faults + 1
        BY <1>6, BoundAssumption DEF PostFails
    <2>2. QED
        BY <2>1
<1>7. CASE Close
    BY <1>7 DEF Close, NoPage
<1>8. CASE Expire \/ UNCHANGED vars
    BY <1>8 DEF Expire, vars
<1>9. ASSUME NEW b \in Bot, Dashboard(b) PROVE TurnedOn'
    BY <1>9 DEF Dashboard
<1>10. QED
    BY <1>1, <1>2, <1>3, <1>4, <1>5, <1>6, <1>7, <1>8, <1>9 DEF Next, Apply

LEMMA ApplyStep == ApplyInv /\ [Next]_vars => ApplyInv'
<1> SUFFICES ASSUME ApplyInv, [Next]_vars
             PROVE  UntouchedAgree' /\ PostMatchesPage' /\ ShownActive' /\ StillOwed'
    BY TypeStep, TurnedOnStep DEF ApplyInv
<1> DEFINE Rest == UntouchedAgree' /\ PostMatchesPage' /\ ShownActive' /\ StillOwed'
<1>1. CASE Load
    <2>1. post = NoPost
        BY <1>1 DEF ApplyInv, PostMatchesPage, Load
    <2>2. UntouchedAgree' /\ PostMatchesPage'
        BY <1>1, <2>1 DEF ApplyInv, UntouchedAgree, PostMatchesPage, Load, NoPost
    <2>3. ShownActive' /\ StillOwed'
        BY <1>1 DEF ApplyInv, ShownActive, StillOwed, Load, Summary
    <2>4. QED
        BY <2>2, <2>3
<1>2. ASSUME NEW disable \in SUBSET Bot, NEW stop \in SUBSET Bot, Choose(disable, stop)
      PROVE  Rest
    BY <1>2 DEF Choose, ApplyInv, TypeOK, UntouchedAgree, PostMatchesPage, ShownActive,
                StillOwed, NoPost
<1>3. CASE Submit
    BY <1>3, SubmitKeeps
<1>4. CASE Confirm
    <2>1. Updates' = Updates
        BY <1>4 DEF Confirm, ApplyInv, TypeOK, Updates, EmailUpdate, StatusUpdate
    <2>2. post = NoPost
        BY <1>4 DEF Confirm, ApplyInv, TypeOK, NoPost
    <2>3. QED
        BY <1>4, <2>1, <2>2 DEF Confirm, ApplyInv, TypeOK, UntouchedAgree, PostMatchesPage,
                ShownActive, StillOwed, NoPost
<1>5. ASSUME NEW u \in Update, WriteConfig(u) PROVE Rest
    BY <1>5, WriteConfigKeeps
<1>6. ASSUME NEW u \in Update, WriteRow(u) PROVE Rest
    BY <1>6, WriteRowKeeps
<1>7. CASE PostFails
    BY <1>7 DEF PostFails, ApplyInv, TypeOK, UntouchedAgree, PostMatchesPage, ShownActive,
                StillOwed, NoPost
<1>8. CASE Close
    BY <1>8 DEF Close, ApplyInv, TypeOK, UntouchedAgree, PostMatchesPage, ShownActive,
                StillOwed, NoPost, NoPage
<1>9. CASE Expire
    BY <1>9, SamePage DEF Expire, ApplyInv, UntouchedAgree, PostMatchesPage, ShownActive,
                StillOwed, NoPost
<1>10. ASSUME NEW b \in Bot, Dashboard(b) PROVE Rest
    BY <1>10, DashboardKeeps
<1>11. CASE UNCHANGED vars
    BY <1>11, SamePage DEF vars, ApplyInv, UntouchedAgree, PostMatchesPage, ShownActive,
                StillOwed, NoPost
<1>12. QED
    BY <1>1, <1>2, <1>3, <1>4, <1>5, <1>6, <1>7, <1>8, <1>9, <1>10, <1>11
       DEF Next, Apply

LEMMA ApplySuffices == ApplyInv => ConfirmedIsApplied
<1> SUFFICES ASSUME ApplyInv, page.step = "done" PROVE ConfirmedIsApplied
    BY DEF ConfirmedIsApplied
<1>1. post.left = {}
    BY DEF ApplyInv, PostMatchesPage, NoPost
<1>2. \A b \in page.disable \cup page.stop : b \in page.shown /\ b \in Bot
    BY DEF ApplyInv, ShownActive, TypeOK
<1>3. QED
    <2>1. ASSUME NEW b \in (page.disable \cap emails) \ touched
          PROVE  b \notin page.mailing /\ faults > 0
        <3>1. b \notin page.mailing
            BY <1>1, <1>2, <2>1 DEF ApplyInv, StillOwed
        <3>2. faults \in Nat /\ faults # 0
            BY <1>2, <2>1, <3>1, BoundAssumption DEF ApplyInv, TurnedOn, TypeOK
        <3>3. QED
            BY <3>1, <3>2
    <2>2. QED
        BY <1>1, <1>2, <2>1 DEF ApplyInv, UntouchedAgree, StillOwed, ConfirmedIsApplied

(* When the page says "Your preferences have been saved", they are, though  *)
(* any of the earlier attempts may have failed at any of its writes, with   *)
(* other boxes ticked: only what the bots page wrote meanwhile may differ,   *)
(* and a bot that sent no mail at first and that a failed attempt turned on. *)
THEOREM ConfirmationHolds == Spec => []ConfirmedIsApplied
<1>1. QED
    BY ApplyInit, ApplyStep, ApplySuffices, PTL DEF Spec
=============================================================================
