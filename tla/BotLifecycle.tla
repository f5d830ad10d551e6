---------------------------- MODULE BotLifecycle ----------------------------
(***************************************************************************)
(* The two records of a bot and everybody who writes them: its entry in     *)
(* users.bots (services/frontend/server/api/bots, the unsubscribe page) and *)
(* its document in <bot>_config, upserted by the bot service when the       *)
(* configuration form is saved and read by its scrape cycle.  No            *)
(* transaction spans the two.  The janitor                                  *)
(* (server/tasks/janitor/provisional-bots.ts) reaps what abandoned dialogs  *)
(* leave behind, while the requests of a user with several tabs go on.      *)
(*                                                                          *)
(* Every request and every pass of the janitor is cut at its database       *)
(* calls.  One user; the bot services are registered.                       *)
(***************************************************************************)
EXTENDS Naturals

CONSTANTS
    Config,      \* config ids the dashboard may mint
    NoConfig,    \* not a config id
    Request,     \* requests that may be in flight at once
    Janitor,     \* frontend replicas that run the scheduled task
    PendingTTL,  \* PENDING_TTL_MS, in ticks
    OrphanTTL,   \* ORPHAN_TTL_MS, in ticks
    MaxPass,     \* bound: ticks one pass of the janitor may take
    MaxFaults    \* bound: requests and passes that die half-way

ASSUME NoConfigAssumption == NoConfig \notin Config
ASSUME TTLAssumption ==
    /\ PendingTTL \in Nat \ {0}
    /\ OrphanTTL \in Nat
    /\ OrphanTTL > PendingTTL
    /\ MaxPass \in Nat
    /\ MaxFaults \in Nat

VARIABLES
    account,  \* the users document exists
    row,      \* row[c]: status of the users.bots entry of c
    emails,   \* configs whose entry has email_notifications on
    rowAge,   \* ticks since created_at of the entry
    doc,      \* doc[c]: the <bot>_config document of c
    docAge,   \* ticks since created_at of the document
    saved,    \* configs whose form a user has saved once
    req,      \* req[r]: the request in flight in slot r
    pass,     \* pass[j]: the running pass of janitor j
    faults,
    crossed   \* history: configs two requests have been about at once

recordVars == <<account, row, emails, rowAge, doc, docAge, saved>>
vars == <<account, row, emails, rowAge, doc, docAge, saved, req, pass, faults,
          crossed>>

Status == {"unminted", "pending", "active", "stopped", "deleted", "gone"}

(* Entries arrayFilters let through, and entries in users.bots at all. *)
Live == {"pending", "active", "stopped"}
Minted == Live \cup {"deleted"}

(* Ages stop here: every comparison of the janitor has the same outcome for *)
(* all larger ones.                                                         *)
OldAge == OrphanTTL + MaxPass

NoRequest ==
    [step |-> "none", cfg |-> NoConfig, to |-> "keep", email |-> "keep"]

NoPass ==
    [step |-> "idle", elapsed |-> 0, stale |-> {}, half |-> NoConfig,
     claimed |-> {}, old |-> {}]

(* A request: its next step, its config, and the status and email switch it *)
(* is about to write ("keep" leaves them alone, "gone" pulls the entry).    *)
RequestType ==
    [step : {"none", "save", "config", "row"},
     cfg : Config \cup {NoConfig},
     to : {"keep", "active", "stopped", "deleted", "gone"},
     email : {"keep", "on", "off"}]

(* A pass: its step, the ticks since its `now`, the stale entries left to   *)
(* reap, the one whose document is deleted but not yet its entry, the ids   *)
(* claimed by an entry, and the unclaimed documents left to sweep.          *)
PassType ==
    [step : {"idle", "reap", "claimed", "sweep"},
     elapsed : 0 .. MaxPass,
     stale : SUBSET Config,
     half : Config \cup {NoConfig},
     claimed : SUBSET Config,
     old : SUBSET Config]

TypeOK ==
    /\ account \in BOOLEAN
    /\ row \in [Config -> Status]
    /\ emails \subseteq Config
    /\ rowAge \in [Config -> 0 .. OldAge]
    /\ doc \in [Config -> {"none", "active", "inactive"}]
    /\ docAge \in [Config -> 0 .. OldAge]
    /\ saved \subseteq Config
    /\ req \in [Request -> RequestType]
    /\ \A r \in Request : req[r].step # "none" => req[r].cfg \in Config
    /\ pass \in [Janitor -> PassType]
    /\ faults \in 0 .. MaxFaults
    /\ crossed \subseteq Config

Init ==
    /\ account = TRUE
    /\ row = [c \in Config |-> "unminted"]
    /\ emails = {}
    /\ rowAge = [c \in Config |-> 0]
    /\ doc = [c \in Config |-> "none"]
    /\ docAge = [c \in Config |-> 0]
    /\ saved = {}
    /\ req = [r \in Request |-> NoRequest]
    /\ pass = [j \in Janitor |-> NoPass]
    /\ faults = 0
    /\ crossed = {}

-----------------------------------------------------------------------------
(* The requests of the user.                                                *)

Begin(r, step, c, to, email) ==
    /\ req[r] = NoRequest
    /\ req' = [req EXCEPT ![r] = [step |-> step, cfg |-> c, to |-> to,
                                  email |-> email]]
    /\ crossed' = crossed \cup {d \in {c} : \E s \in Request : req[s].cfg = d}
    /\ UNCHANGED <<recordVars, pass, faults>>

End(r) == req' = [req EXCEPT ![r] = NoRequest]

(* POST /api/bots.  If the account went after requireUser read it, nothing  *)
(* is pushed; the client holds the fresh config id all the same.            *)
Create(c, email) ==
    /\ row[c] = "unminted"
    /\ row' = [row EXCEPT ![c] = IF account THEN "pending" ELSE "gone"]
    /\ rowAge' = [rowAge EXCEPT ![c] = 0]
    /\ emails' = IF account /\ email THEN emails \cup {c} ELSE emails
    /\ UNCHANGED <<account, doc, docAge, saved, req, pass, faults, crossed>>

(* The form of a minted config is submitted.  The dialog may have been open *)
(* for long, and neither proxyToModule nor the bot service looks at         *)
(* users.bots.                                                              *)
StartSave(r, c) ==
    /\ account
    /\ row[c] # "unminted"
    /\ Begin(r, "save", c, "keep", "keep")

(* write_config: a new document is active, an old one keeps its flag.       *)
WriteConfig(r) ==
    LET c == req[r].cfg IN
    /\ req[r].step = "save"
    /\ doc' = [doc EXCEPT ![c] = IF doc[c] = "none" THEN "active" ELSE doc[c]]
    /\ docAge' = [docAge EXCEPT ![c] = IF doc[c] = "none" THEN 0 ELSE docAge[c]]
    /\ saved' = saved \cup {c}
    /\ End(r)
    /\ UNCHANGED <<account, row, emails, rowAge, pass, faults, crossed>>

(* Mutant: the dashboard's status change only touches users.bots. *)
StartPatchRowOnly(r, c, to) ==
    /\ row[c] \in Live
    /\ row[c] = "pending" => to = "active" /\ c \in saved
    /\ Begin(r, "row", c, to, "keep")

(* PATCH /api/bots/:id with a status.  The dialog activates a pending bot   *)
(* once its form is saved; the bots page pauses and resumes the others.     *)
StartPatch(r, c, to) ==
    /\ row[c] \in Live
    /\ row[c] = "pending" => to = "active" /\ c \in saved
    /\ Begin(r, IF row[c] = "pending" THEN "row" ELSE "config", c, to, "keep")

(* PATCH /api/bots/:id with email_notifications. *)
StartEmailPatch(r, c, email) ==
    /\ row[c] \in {"active", "stopped"}
    /\ Begin(r, "row", c, "keep", email)

(* One update of POST /api/unsubscribe/:token.  The page was loaded some    *)
(* time ago; it stops bots it showed as active.  The read at the start of   *)
(* the handler only tells whether the entry exists.                         *)
StartUnsubscribe(r, c, to, email) ==
    /\ to # "keep" \/ email # "keep"
    /\ row[c] \in IF to = "keep" THEN Minted ELSE Minted \ {"pending"}
    /\ Begin(r, IF to = "keep" THEN "row" ELSE "config", c, to, email)

(* DELETE /api/bots/:id pulls an entry it saw pending and marks any other.  *)
StartDelete(r, c) ==
    /\ row[c] \in Live
    /\ IF row[c] = "pending" THEN Begin(r, "config", c, "gone", "keep")
                             ELSE Begin(r, "config", c, "deleted", "off")

GoOn(r) ==
    req' = [req EXCEPT ![r] = [step |-> "row", cfg |-> req[r].cfg,
                               to |-> req[r].to, email |-> req[r].email]]

(* A status change first sets active in the document, if there is one. *)
UpdateConfig(r) ==
    LET c == req[r].cfg
        flag == IF req[r].to = "active" THEN "active" ELSE "inactive"
    IN
    /\ req[r].step = "config" /\ req[r].to \in {"active", "stopped"}
    /\ doc' = [doc EXCEPT ![c] = IF doc[c] = "none" THEN "none" ELSE flag]
    /\ GoOn(r)
    /\ UNCHANGED <<account, row, emails, rowAge, docAge, saved, pass, faults, crossed>>

(* A deletion first deletes the document. *)
DeleteConfig(r) ==
    /\ req[r].step = "config" /\ req[r].to \in {"deleted", "gone"}
    /\ doc' = [doc EXCEPT ![req[r].cfg] = "none"]
    /\ GoOn(r)
    /\ UNCHANGED <<account, row, emails, rowAge, docAge, saved, pass, faults, crossed>>

Switched(c, email) ==
    IF email = "on" THEN emails \cup {c}
    ELSE IF email = "off" THEN emails \ {c} ELSE emails

(* Mutant: the update without its arrayFilter on the status. *)
UpdateAnyRow(r) ==
    LET c == req[r].cfg IN
    /\ req[r].step = "row" /\ req[r].to # "gone"
    /\ \/ /\ row[c] \in Minted
          /\ row' = [row EXCEPT ![c] = IF req[r].to = "keep" THEN row[c]
                                       ELSE req[r].to]
          /\ emails' = Switched(c, req[r].email)
       \/ row[c] \notin Minted /\ UNCHANGED <<row, emails>>
    /\ End(r)
    /\ UNCHANGED <<account, rowAge, doc, docAge, saved, pass, faults, crossed>>

(* Mutant: a status that was not sent is written all the same. *)
UpdateRowUndefined(r) ==
    LET c == req[r].cfg IN
    /\ req[r].step = "row" /\ req[r].to # "gone"
    /\ \/ /\ row[c] \in Live
          /\ row' = [row EXCEPT ![c] = req[r].to]
          /\ emails' = Switched(c, req[r].email)
       \/ row[c] \notin Live /\ UNCHANGED <<row, emails>>
    /\ End(r)
    /\ UNCHANGED <<account, rowAge, doc, docAge, saved, pass, faults, crossed>>

(* The request updates the entry; the arrayFilter skips a deleted one, and  *)
(* there may be none any more.                                              *)
UpdateRow(r) ==
    LET c == req[r].cfg IN
    /\ req[r].step = "row" /\ req[r].to # "gone"
    /\ \/ /\ row[c] \in Live
          /\ row' = [row EXCEPT ![c] = IF req[r].to = "keep" THEN row[c]
                                       ELSE req[r].to]
          /\ emails' = Switched(c, req[r].email)
       \/ row[c] \notin Live /\ UNCHANGED <<row, emails>>
    /\ End(r)
    /\ UNCHANGED <<account, rowAge, doc, docAge, saved, pass, faults, crossed>>

Pulled(c) ==
    /\ row' = [row EXCEPT ![c] = "gone"]
    /\ emails' = emails \ {c}

(* The DELETE of a bot it saw pending pulls the entry, whatever it is now. *)
PullRow(r) ==
    /\ req[r].step = "row" /\ req[r].to = "gone"
    /\ Pulled(req[r].cfg)
    /\ End(r)
    /\ UNCHANGED <<account, rowAge, doc, docAge, saved, pass, faults, crossed>>

(* DELETE /api/user: the users document goes with all its entries; no       *)
(* config document is touched.                                              *)
DeleteAccount ==
    /\ account
    /\ account' = FALSE
    /\ row' = [c \in Config |-> IF row[c] = "unminted" THEN "unminted"
                                ELSE "gone"]
    /\ emails' = {}
    /\ UNCHANGED <<rowAge, doc, docAge, saved, req, pass, faults, crossed>>

Fault == faults < MaxFaults /\ faults' = faults + 1

(* A database call of the request fails, or its process dies. *)
RequestFails(r) ==
    /\ req[r] # NoRequest
    /\ Fault
    /\ End(r)
    /\ UNCHANGED <<recordVars, pass, crossed>>

-----------------------------------------------------------------------------
(* The janitor: the scheduled task janitor:provisional-bots.                *)

(* Mutant: the comparison with the threshold is turned round. *)
StartPassYoung(j) ==
    /\ pass[j].step = "idle"
    /\ pass' = [pass EXCEPT ![j] =
         [step |-> "reap", elapsed |-> 0,
          stale |-> {c \in Config :
                       row[c] = "pending" /\ rowAge[c] < PendingTTL},
          half |-> NoConfig, claimed |-> {}, old |-> {}]]
    /\ UNCHANGED <<recordVars, req, faults, crossed>>

(* `now`, and the entries that are pending for PENDING_TTL_MS. *)
StartPass(j) ==
    /\ pass[j].step = "idle"
    /\ pass' = [pass EXCEPT ![j] =
         [step |-> "reap", elapsed |-> 0,
          stale |-> {c \in Config :
                       row[c] = "pending" /\ rowAge[c] >= PendingTTL},
          half |-> NoConfig, claimed |-> {}, old |-> {}]]
    /\ UNCHANGED <<recordVars, req, faults, crossed>>

(* A stale bot: first its document ... *)
ReapConfig(j, c) ==
    /\ pass[j].step = "reap" /\ pass[j].half = NoConfig
    /\ c \in pass[j].stale
    /\ doc' = [doc EXCEPT ![c] = "none"]
    /\ pass' = [pass EXCEPT ![j] =
         [step |-> "reap", elapsed |-> pass[j].elapsed,
          stale |-> pass[j].stale, half |-> c, claimed |-> {}, old |-> {}]]
    /\ UNCHANGED <<account, row, emails, rowAge, docAge, saved, req, faults, crossed>>

(* ... then its entry, whatever its status is by now. *)
ReapRow(j) ==
    /\ pass[j].step = "reap" /\ pass[j].half # NoConfig
    /\ Pulled(pass[j].half)
    /\ pass' = [pass EXCEPT ![j] =
         [step |-> "reap", elapsed |-> pass[j].elapsed,
          stale |-> pass[j].stale \ {pass[j].half}, half |-> NoConfig,
          claimed |-> {}, old |-> {}]]
    /\ UNCHANGED <<account, rowAge, doc, docAge, saved, req, faults, crossed>>

(* claimed: the config ids of all entries, deleted ones included. *)
ReadClaimed(j) ==
    /\ pass[j].step = "reap" /\ pass[j].stale = {}
    /\ pass' = [pass EXCEPT ![j] =
         [step |-> "claimed", elapsed |-> pass[j].elapsed, stale |-> {},
          half |-> NoConfig, claimed |-> {c \in Config : row[c] \in Minted},
          old |-> {}]]
    /\ UNCHANGED <<recordVars, req, faults, crossed>>

(* Mutant: documents of any age. *)
OldDocsOfAnyAge(j) == {c \in Config : doc[c] # "none"}

(* Mutant: the comparison with the threshold is turned round. *)
YoungDocs(j) ==
    {c \in Config :
       doc[c] # "none" /\ docAge[c] < OrphanTTL + pass[j].elapsed}

(* Documents created ORPHAN_TTL_MS before the `now` of the pass. *)
OldDocs(j) ==
    {c \in Config :
       doc[c] # "none" /\ docAge[c] >= OrphanTTL + pass[j].elapsed}

(* The cursor over old documents; claimed ones are skipped. *)
ReadOld(j) ==
    /\ pass[j].step = "claimed"
    /\ pass' = [pass EXCEPT ![j] =
         [step |-> "sweep", elapsed |-> pass[j].elapsed, stale |-> {},
          half |-> NoConfig, claimed |-> pass[j].claimed,
          old |-> OldDocs(j) \ pass[j].claimed]]
    /\ UNCHANGED <<recordVars, req, faults, crossed>>

SweepOrphan(j, c) ==
    /\ pass[j].step = "sweep"
    /\ c \in pass[j].old
    /\ doc' = [doc EXCEPT ![c] = "none"]
    /\ pass' = [pass EXCEPT ![j] =
         [step |-> "sweep", elapsed |-> pass[j].elapsed, stale |-> {},
          half |-> NoConfig, claimed |-> pass[j].claimed,
          old |-> pass[j].old \ {c}]]
    /\ UNCHANGED <<account, row, emails, rowAge, docAge, saved, req, faults, crossed>>

EndPass(j) ==
    /\ pass[j].step = "sweep" /\ pass[j].old = {}
    /\ pass' = [pass EXCEPT ![j] = NoPass]
    /\ UNCHANGED <<recordVars, req, faults, crossed>>

(* A database call of the pass fails, or its process dies. *)
PassFails(j) ==
    /\ pass[j].step # "idle"
    /\ Fault
    /\ pass' = [pass EXCEPT ![j] = NoPass]
    /\ UNCHANGED <<recordVars, req, crossed>>

-----------------------------------------------------------------------------
Older(age) == [c \in Config |-> IF age[c] < OldAge THEN age[c] + 1 ELSE OldAge]

(* Time passes; no pass of the janitor takes more than MaxPass ticks. *)
Tick ==
    /\ \A j \in Janitor : pass[j].step # "idle" => pass[j].elapsed < MaxPass
    /\ rowAge' = Older(rowAge)
    /\ docAge' = Older(docAge)
    /\ pass' = [j \in Janitor |->
         IF pass[j].step = "idle" THEN pass[j]
         ELSE [step |-> pass[j].step, elapsed |-> pass[j].elapsed + 1,
               stale |-> pass[j].stale, half |-> pass[j].half,
               claimed |-> pass[j].claimed, old |-> pass[j].old]]
    /\ UNCHANGED <<account, row, emails, doc, saved, req, faults, crossed>>

StartRequest(r, c) ==
    \/ StartSave(r, c)
    \/ \E to \in {"active", "stopped"} : StartPatch(r, c, to)
    \/ \E email \in {"on", "off"} : StartEmailPatch(r, c, email)
    \/ \E to \in {"keep", "stopped"}, email \in {"keep", "on", "off"} :
          StartUnsubscribe(r, c, to, email)
    \/ StartDelete(r, c)

RequestStep(r) ==
    \/ WriteConfig(r)
    \/ UpdateConfig(r)
    \/ DeleteConfig(r)
    \/ UpdateRow(r)
    \/ PullRow(r)

JanitorStep(j) ==
    \/ StartPass(j)
    \/ \E c \in Config : ReapConfig(j, c) \/ SweepOrphan(j, c)
    \/ ReapRow(j)
    \/ ReadClaimed(j)
    \/ ReadOld(j)
    \/ EndPass(j)

Next ==
    \/ \E c \in Config, email \in BOOLEAN : Create(c, email)
    \/ \E r \in Request, c \in Config : StartRequest(r, c)
    \/ \E r \in Request : RequestStep(r) \/ RequestFails(r)
    \/ DeleteAccount
    \/ \E j \in Janitor : JanitorStep(j) \/ PassFails(j)
    \/ Tick

Spec == Init /\ [][Next]_vars

(* Time passes, the scheduled task runs every five minutes, and a request   *)
(* in flight ends; whether the user makes requests is left open.            *)
Fairness ==
    /\ WF_vars(Tick)
    /\ \A j \in Janitor : WF_vars(JanitorStep(j))
    /\ \A r \in Request : WF_vars(RequestStep(r))

FairSpec == Spec /\ Fairness

-----------------------------------------------------------------------------
(* Properties.                                                              *)

(* The orphan sweep deletes no document a bot still uses: at any moment     *)
(* from its cursor to its last delete, what is left to delete belongs to no *)
(* entry, though entries are minted, saved and activated during the pass.   *)
SweepSparesBots ==
    \A j \in Janitor : \A c \in pass[j].old : row[c] = "gone"

(* No request in flight and no pass of the janitor brings a deleted bot     *)
(* back or touches its email switch, however late its write comes.          *)
DeletionIsFinal ==
    [][\A c \in Config :
          /\ row[c] = "gone" => row'[c] = "gone"
          /\ row[c] = "deleted" =>
                row'[c] \in {"deleted", "gone"} /\ c \notin emails']_vars

(* A config no request and no reaping is working on, and that no two        *)
(* requests were ever about at once: two tabs that pause and resume a bot   *)
(* may leave either outcome in either record, and one that dies leaves half. *)
Settled(c) ==
    /\ c \notin crossed
    /\ \A r \in Request : req[r].cfg # c
    /\ \A j \in Janitor : c \notin pass[j].stale
    /\ faults = 0

(* The two records of a bot agree when nobody is working on it: the scrape  *)
(* cycle runs an active bot, and no paused one.                             *)
RecordsAgree ==
    \A c \in Config :
        Settled(c) =>
            /\ row[c] = "active" => doc[c] = "active"
            /\ row[c] = "stopped" => doc[c] = "inactive"

(* An abandoned dialog leaves no pending bot behind.                        *)
PendingResolves ==
    \A c \in Config : (row[c] = "pending") ~> (row[c] # "pending")

(* The document of a bot whose entry is gone is swept in the end, whether   *)
(* the dialog was cancelled, the entry reaped or the account deleted, and   *)
(* although a save may still be in flight.                                  *)
OrphanIsSwept ==
    \A c \in Config :
        (row[c] = "gone" /\ doc[c] # "none") ~> (doc[c] = "none")

(* The janitor reaps "pending users.bots[] rows": an entry it pulls is      *)
(* pending.                                                                 *)
ReapsPendingOnly ==
    [][\A j \in Janitor :
          pass[j].half # NoConfig /\ pass'[j].half = NoConfig /\ account' =>
              row[pass[j].half] \in {"pending", "gone"}]_vars

(* "You can pause or remove this bot at any time": the document of a        *)
(* removed bot goes, so that no cycle runs it any more.                     *)
RemovedBotStops ==
    \A c \in Config :
        (row[c] = "deleted" /\ doc[c] # "none") ~>
            (row[c] # "deleted" \/ doc[c] = "none")
-----------------------------------------------------------------------------
(* Inductive invariants.                                                    *)

(* No document and no request is about a config before it is minted.        *)
MintedFirst ==
    \A c \in Config :
        row[c] = "unminted" =>
            doc[c] = "none" /\ \A r \in Request : req[r].cfg # c

(* A document is no older than its entry, and an entry that a pass does not *)
(* know of was minted during the pass: together they keep every bot out of  *)
(* the sweep, because the age of a document is measured at the `now` of the *)
(* pass and not when the cursor reads it.                                   *)
SweepInv ==
    /\ MintedFirst
    /\ \A c \in Config :
          row[c] \in Minted /\ doc[c] # "none" => docAge[c] <= rowAge[c]
    /\ \A j \in Janitor : pass[j].step = "claimed" =>
          \A c \in Config :
              row[c] \in Minted /\ c \notin pass[j].claimed =>
                  rowAge[c] <= pass[j].elapsed
    /\ SweepSparesBots

(* A deleted bot sends no mail, and a request that deletes turns mails off. *)
DeletedSilent ==
    /\ \A c \in Config : row[c] = "deleted" => c \notin emails
    /\ \A r \in Request : req[r].to = "deleted" => req[r].email = "off"
=============================================================================
