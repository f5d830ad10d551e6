--------------------------- MODULE NotifyPipeline ---------------------------
(***************************************************************************)
(* The path of a match from a scrape to a mailbox: the scrape cycle of one  *)
(* bot service (services/bot-bazos/src/cycle.py; bot-sreality and           *)
(* bot-bezrealitky follow the same steps), the notifications collection,    *)
(* the durable queue email-notifier.bot.processed and its single consumer   *)
(* (services/email-notifier/internal/consumer/consumer.go).                 *)
(*                                                                          *)
(* Every await of the cycle and every database, SMTP or broker call of the  *)
(* consumer is a step of its own; between two of them the other process,    *)
(* the dashboard, a crash or an error may come.                             *)
(***************************************************************************)
EXTENDS Naturals, Sequences

CONSTANTS
    User,        \* user ids
    Config,      \* config ids of this bot service
    Listing,     \* source ids of listings
    Owner,       \* Owner[c]: the user_id of the config document c
    Match,       \* Match[c]: the listings matcher.matches accepts for c
    Unusable,    \* configs a cycle skips: invalid, or with an unknown postcode
    Rejected,    \* users whose address is outside MAIL_ALLOWED_RECIPIENT_DOMAINS
    SmtpServer,  \* TRUE iff MAIL_SMTP_SERVER is set
    MaxFailures, \* _MAX_CONSECUTIVE_FAILURES
    MaxCycles,   \* bound: scrape cycles started
    MaxFaults,   \* bound: crashes and failing calls
    MaxChanges   \* bound: changes made by users and migrations

ASSUME OwnerAssumption == Owner \in [Config -> User]
ASSUME MatchAssumption == Match \in [Config -> SUBSET Listing]
ASSUME SubsetAssumption == Unusable \subseteq Config /\ Rejected \subseteq User
ASSUME SmtpAssumption == SmtpServer \in BOOLEAN
ASSUME BoundAssumption ==
    /\ MaxFailures \in Nat \ {0}
    /\ MaxCycles \in Nat
    /\ MaxFaults \in Nat
    /\ MaxChanges \in Nat

VARIABLES
    listings,  \* listings_<bot>: source ids stored so far
    active,    \* configs whose <bot>_config document has active: true
    optedIn,   \* configs whose users.bots row is active with emails on
    accounts,  \* user documents that exist
    rowCfgs,   \* notifications: config_ids of each row, {} where no row is
    sent,      \* notification rows with a sent_at
    queue,     \* email-notifier.bot.processed; its head is the unacked delivery
    cycle,     \* the running cycle: its step and its local variables
    failures,  \* _consecutive_failures
    flush,     \* the consumer: its step and the local variables of flush
    mails,     \* history: digests that carried each match
    lostMarks, \* history: digests handed to SMTP whose MarkSent was lost
    cycles, faults, changes   \* bounded counters

dbVars == <<listings, active, optedIn, accounts, rowCfgs, sent>>
histVars == <<mails, lostMarks>>
vars == <<listings, active, optedIn, accounts, rowCfgs, sent, queue, cycle,
          failures, flush, mails, lostMarks, cycles, faults, changes>>

Key == User \X Listing

(* The rows of the notifications collection, keyed as its unique index. *)
Rows == {k \in Key : rowCfgs[k] # {}}
Unsent == Rows \ sent

Idle == [step |-> "idle", batch |-> {}, found |-> {}, inserted |-> {}]
Waiting == [step |-> "idle", digest |-> {}]

TypeOK ==
    /\ listings \subseteq Listing
    /\ active \subseteq Config
    /\ optedIn \subseteq Config
    /\ accounts \subseteq User
    /\ rowCfgs \in [Key -> SUBSET Config]
    /\ sent \subseteq Key
    /\ queue \in Seq(User)
    /\ cycle \in [step : {"idle", "upsert", "match", "insert", "publish"},
                  batch : SUBSET Listing,
                  found : SUBSET (Config \X Listing),
                  inserted : SUBSET User]
    /\ failures \in 0 .. MaxFailures - 1
    /\ flush \in [step : {"idle", "rows", "send", "mark", "ack"},
                  digest : SUBSET Listing]
    /\ mails \in [Key -> Nat]
    /\ lostMarks \in Nat
    /\ cycles \in 0 .. MaxCycles
    /\ faults \in 0 .. MaxFaults
    /\ changes \in 0 .. MaxChanges

(* A fresh deployment whose users have configured their bots; emails of any *)
(* of them may be off.                                                      *)
Init ==
    /\ listings = {}
    /\ active = Config
    /\ optedIn \in SUBSET Config
    /\ accounts = User
    /\ rowCfgs = [k \in Key |-> {}]
    /\ sent = {}
    /\ queue = << >>
    /\ cycle = Idle
    /\ failures = 0
    /\ flush = Waiting
    /\ mails = [k \in Key |-> 0]
    /\ lostMarks = 0
    /\ cycles = 0
    /\ faults = 0
    /\ changes = 0

-----------------------------------------------------------------------------
(* The scrape cycle.                                                        *)

(* fetch_listings returned the listings S of the scraped pages. *)
FetchListings(S) ==
    /\ cycle.step = "idle"
    /\ cycles < MaxCycles
    /\ cycles' = cycles + 1
    /\ cycle' = [step |-> "upsert", batch |-> S, found |-> {}, inserted |-> {}]
    /\ UNCHANGED <<dbVars, histVars, queue, failures, flush, faults, changes>>

(* A cycle that ends without an exception resets the failure counter. *)
EndCycle == cycle' = Idle /\ failures' = 0

(* upsert_listings stores the batch; only listings not stored before go on. *)
UpsertListings ==
    LET new == cycle.batch \ listings IN
    /\ cycle.step = "upsert"
    /\ listings' = listings \cup cycle.batch
    /\ \/ new = {} /\ EndCycle
       \/ /\ new # {}
          /\ cycle' = [step |-> "match", batch |-> new, found |-> {},
                       inserted |-> {}]
          /\ UNCHANGED failures
    /\ UNCHANGED <<active, optedIn, accounts, rowCfgs, sent, queue, flush,
                   histVars, cycles, faults, changes>>

(* The matches of the configs that are active when they are read. *)
Found == {m \in (active \ Unusable) \X cycle.batch : m[2] \in Match[m[1]]}

(* fetch_active_configs and the matching loop over its result. *)
MatchConfigs ==
    /\ cycle.step = "match"
    /\ \/ Found = {} /\ EndCycle
       \/ /\ Found # {}
          /\ cycle' = [step |-> "insert", batch |-> {}, found |-> Found,
                       inserted |-> {}]
          /\ UNCHANGED failures
    /\ UNCHANGED <<dbVars, histVars, queue, flush, cycles, faults, changes>>

(* rows_by_user[u]. *)
RowsOf(u) == {m \in cycle.found : Owner[m[1]] = u}

(* Mutant: every user's row gets the config, whoever owns it. *)
UpsertedForAll(S) ==
    [k \in Key |-> rowCfgs[k] \cup {c \in Config : <<c, k[2]>> \in S}]

(* The bulk upsert of the matches S: a new row is unsent, an existing row   *)
(* only gains the config id.                                                *)
Upserted(S) ==
    [k \in Key |->
        rowCfgs[k] \cup {c \in Config : Owner[c] = k[1] /\ <<c, k[2]>> \in S}]

(* insert_notifications for one user; the user gets an event iff a row is new. *)
InsertNotifications(u) ==
    LET isNew == \E m \in RowsOf(u) : <<u, m[2]>> \notin Rows
        rest == cycle.found \ RowsOf(u)
        told == IF isNew THEN cycle.inserted \cup {u} ELSE cycle.inserted
    IN
    /\ cycle.step = "insert"
    /\ RowsOf(u) # {}
    /\ rowCfgs' = Upserted(RowsOf(u))
    /\ \/ /\ rest # {} \/ told # {}
          /\ cycle' = [step |-> IF rest # {} THEN "insert" ELSE "publish",
                       batch |-> {}, found |-> rest, inserted |-> told]
          /\ UNCHANGED failures
       \/ rest = {} /\ told = {} /\ EndCycle
    /\ UNCHANGED <<listings, active, optedIn, accounts, sent, queue, flush,
                   histVars, cycles, faults, changes>>

(* The publishing loop goes on after user u. *)
NextUser(u) ==
    \/ /\ cycle.inserted # {u}
       /\ cycle' = [step |-> "publish", batch |-> {}, found |-> {},
                    inserted |-> cycle.inserted \ {u}]
       /\ UNCHANGED failures
    \/ cycle.inserted = {u} /\ EndCycle

(* Mutant: no second event while one for the same user is still queued. *)
PublishUnlessQueued(u) ==
    /\ cycle.step = "publish"
    /\ u \in cycle.inserted
    /\ queue' = IF \E i \in 1 .. Len(queue) : queue[i] = u THEN queue
                ELSE Append(queue, u)
    /\ NextUser(u)
    /\ UNCHANGED <<dbVars, histVars, flush, cycles, faults, changes>>

(* Mutant: the publishing loop returns after its first user. *)
PublishFirstOnly(u) ==
    /\ cycle.step = "publish"
    /\ u \in cycle.inserted
    /\ queue' = Append(queue, u)
    /\ EndCycle
    /\ UNCHANGED <<dbVars, histVars, flush, cycles, faults, changes>>

(* publish_bot_processed for one user of users_with_inserts. *)
PublishBotProcessed(u) ==
    /\ cycle.step = "publish"
    /\ u \in cycle.inserted
    /\ queue' = Append(queue, u)
    /\ NextUser(u)
    /\ UNCHANGED <<dbVars, histVars, flush, cycles, faults, changes>>

-----------------------------------------------------------------------------
(* What can go wrong in a cycle.                                            *)

Fault == faults < MaxFaults /\ faults' = faults + 1

(* Mutant: the process exits one failure too late. *)
FailCycleLate ==
    /\ Fault
    /\ cycle' = Idle
    /\ failures' = IF failures + 1 > MaxFailures THEN 0 ELSE failures + 1

(* The except clause: the third failure in a row exits the process, and its *)
(* restart begins with a counter of zero.                                   *)
FailCycle ==
    /\ Fault
    /\ cycle' = Idle
    /\ failures' = IF failures + 1 >= MaxFailures THEN 0 ELSE failures + 1

(* fetch_listings raises. *)
FetchFails ==
    /\ cycle.step = "idle"
    /\ cycles < MaxCycles
    /\ cycles' = cycles + 1
    /\ FailCycle
    /\ UNCHANGED <<dbVars, histVars, queue, flush, changes>>

(* The unordered bulk write raises after it stored the listings S. *)
UpsertFails(S) ==
    /\ cycle.step = "upsert"
    /\ S \subseteq cycle.batch
    /\ listings' = listings \cup S
    /\ FailCycle
    /\ UNCHANGED <<active, optedIn, accounts, rowCfgs, sent, histVars, queue,
                   flush, cycles, changes>>

(* fetch_active_configs raises. *)
MatchFails ==
    /\ cycle.step = "match"
    /\ FailCycle
    /\ UNCHANGED <<dbVars, histVars, queue, flush, cycles, changes>>

(* The bulk write of one user raises after it upserted the rows S. *)
InsertFails(u) ==
    /\ cycle.step = "insert"
    /\ \E S \in SUBSET RowsOf(u) : rowCfgs' = Upserted(S)
    /\ FailCycle
    /\ UNCHANGED <<listings, active, optedIn, accounts, sent, histVars, queue,
                   flush, cycles, changes>>

(* Publishing raises; the broker may have taken the event all the same. *)
PublishFails(u) ==
    /\ cycle.step = "publish"
    /\ u \in cycle.inserted
    /\ queue' \in {queue, Append(queue, u)}
    /\ FailCycle
    /\ UNCHANGED <<dbVars, histVars, flush, cycles, changes>>

(* bot-sreality publishes without confirms: an event written to a dying     *)
(* connection is lost, and the loop goes on as if it had been published.    *)
PublishLost(u) ==
    /\ cycle.step = "publish"
    /\ u \in cycle.inserted
    /\ NextUser(u)
    /\ Fault
    /\ UNCHANGED <<dbVars, histVars, queue, flush, cycles, changes>>

(* The bot process is killed and restarted. *)
ScraperCrash ==
    /\ cycle.step # "idle"
    /\ Fault
    /\ cycle' = Idle
    /\ failures' = 0
    /\ UNCHANGED <<dbVars, histVars, queue, flush, cycles, changes>>

-----------------------------------------------------------------------------
(* The consumer: handle and flush.                                          *)

OptedInFor(u) == {c \in optedIn : Owner[c] = u}

(* Delivery of the head event and FetchUser: the user has an active bot of  *)
(* this service with emails on.                                             *)
FetchUser ==
    /\ flush.step = "idle"
    /\ queue # << >>
    /\ Head(queue) \in accounts
    /\ OptedInFor(Head(queue)) # {}
    /\ flush' = [step |-> "rows", digest |-> {}]
    /\ UNCHANGED <<dbVars, histVars, queue, cycle, failures, cycles, faults,
                   changes>>

(* ... or the user is gone, or every bot of this service is opted out. *)
SkipEvent ==
    /\ flush.step = "idle"
    /\ queue # << >>
    /\ Head(queue) \notin accounts \/ OptedInFor(Head(queue)) = {}
    /\ flush' = [step |-> "ack", digest |-> {}]
    /\ UNCHANGED <<dbVars, histVars, queue, cycle, failures, cycles, faults,
                   changes>>

(* Mutant: the query forgets sent_at. *)
AnyRowOf(u) == {l \in Listing : <<u, l>> \in Rows}

(* The rows of u without a sent_at. *)
UnsentOf(u) == {l \in Listing : <<u, l>> \in Unsent}

(* FetchUnsentForBot: the rows of the digest, or nothing to do. *)
FetchUnsent ==
    LET rows == UnsentOf(Head(queue)) IN
    /\ flush.step = "rows"
    /\ \/ rows # {} /\ flush' = [step |-> "send", digest |-> rows]
       \/ rows = {} /\ flush' = [step |-> "ack", digest |-> {}]
    /\ UNCHANGED <<dbVars, histVars, queue, cycle, failures, cycles, faults,
                   changes>>

(* The matches the digest in hand is about. *)
InHand == {Head(queue)} \X flush.digest

Mailed(S) == [k \in Key |-> IF k \in S THEN mails[k] + 1 ELSE mails[k]]

(* SendDigest succeeds; without an SMTP server it only logs. *)
SendDigest ==
    /\ flush.step = "send"
    /\ SmtpServer => Head(queue) \notin Rejected
    /\ mails' = IF SmtpServer THEN Mailed(InHand) ELSE mails
    /\ flush' = [step |-> "mark", digest |-> flush.digest]
    /\ UNCHANGED <<dbVars, lostMarks, queue, cycle, failures, cycles, faults,
                   changes>>

(* The recipient's domain is not allowed: an error, and the event is        *)
(* requeued at the head of the queue.                                       *)
SendRefused ==
    /\ flush.step = "send"
    /\ SmtpServer /\ Head(queue) \in Rejected
    /\ flush' = Waiting
    /\ UNCHANGED <<dbVars, histVars, queue, cycle, failures, cycles, faults,
                   changes>>

(* Mutant: sent_at is set on every unsent row of the user and bot. *)
MarkAllUnsent ==
    /\ flush.step = "mark"
    /\ sent' = sent \cup ({Head(queue)} \X UnsentOf(Head(queue)))
    /\ flush' = [step |-> "ack", digest |-> {}]
    /\ UNCHANGED <<listings, active, optedIn, accounts, rowCfgs, histVars,
                   queue, cycle, failures, cycles, faults, changes>>

(* MarkSent retires exactly the rows the digest was built from. *)
MarkSent ==
    /\ flush.step = "mark"
    /\ sent' = sent \cup InHand
    /\ flush' = [step |-> "ack", digest |-> {}]
    /\ UNCHANGED <<listings, active, optedIn, accounts, rowCfgs, histVars,
                   queue, cycle, failures, cycles, faults, changes>>

(* The event is acknowledged and leaves the queue. *)
Ack ==
    /\ flush.step = "ack"
    /\ queue' = Tail(queue)
    /\ flush' = Waiting
    /\ UNCHANGED <<dbVars, histVars, cycle, failures, cycles, faults, changes>>

(* Mutant: a failed send drops the event (Nack without requeue). *)
SendFailsDropped ==
    /\ flush.step = "send"
    /\ SmtpServer /\ Head(queue) \notin Rejected
    /\ Fault
    /\ \/ UNCHANGED <<mails, lostMarks>>
       \/ mails' = Mailed(InHand) /\ lostMarks' = lostMarks + 1
    /\ queue' = Tail(queue)
    /\ flush' = Waiting
    /\ UNCHANGED <<dbVars, cycle, failures, cycles, changes>>

(* The SMTP call fails, possibly after the server accepted the message. *)
SendFails ==
    /\ flush.step = "send"
    /\ SmtpServer /\ Head(queue) \notin Rejected
    /\ Fault
    /\ \/ UNCHANGED <<mails, lostMarks>>
       \/ mails' = Mailed(InHand) /\ lostMarks' = lostMarks + 1
    /\ flush' = Waiting
    /\ UNCHANGED <<dbVars, queue, cycle, failures, cycles, changes>>

(* MarkSent fails after it marked the rows S of the digest. *)
MarkFails(S) ==
    /\ flush.step = "mark"
    /\ S \subseteq flush.digest
    /\ Fault
    /\ sent' = sent \cup ({Head(queue)} \X S)
    /\ lostMarks' = lostMarks + 1
    /\ flush' = Waiting
    /\ UNCHANGED <<listings, active, optedIn, accounts, rowCfgs, mails, queue,
                   cycle, failures, cycles, changes>>

(* The consumer stops before it marked or acknowledged, or a read fails and *)
(* the event is requeued: the broker delivers it again.                     *)
ConsumerCrash ==
    /\ flush.step # "idle"
    /\ Fault
    /\ lostMarks' = IF flush.step = "mark" THEN lostMarks + 1 ELSE lostMarks
    /\ flush' = Waiting
    /\ UNCHANGED <<dbVars, mails, queue, cycle, failures, cycles, changes>>

-----------------------------------------------------------------------------
(* The rest of the system, as far as the pipeline reads its writes.         *)

Change == changes < MaxChanges /\ changes' = changes + 1

Flip(c, S) == IF c \in S THEN S \ {c} ELSE S \cup {c}

(* The dashboard or the unsubscribe page writes <bot>_config.active. *)
SetActive(c) ==
    /\ Change
    /\ active' = Flip(c, active)
    /\ UNCHANGED <<listings, optedIn, accounts, rowCfgs, sent, histVars, queue,
                   cycle, failures, flush, cycles, faults>>

(* They write the status or email_notifications of the users.bots row. *)
SetOptedIn(c) ==
    /\ Change
    /\ Owner[c] \in accounts
    /\ optedIn' = Flip(c, optedIn)
    /\ UNCHANGED <<listings, active, accounts, rowCfgs, sent, histVars, queue,
                   cycle, failures, flush, cycles, faults>>

(* The user deletes the account: the users document goes.  No row does: the *)
(* deletion asks for a user_id that is an ObjectId, the rows hold strings.  *)
DeleteAccount(u) ==
    /\ Change
    /\ u \in accounts
    /\ accounts' = accounts \ {u}
    /\ UNCHANGED <<listings, active, optedIn, rowCfgs, sent, histVars, queue,
                   cycle, failures, flush, cycles, faults>>

(* bot-bezrealitky starts with an older schema: migrate drops the listings  *)
(* and the configs, not the notifications.                                  *)
Migrate ==
    /\ Change
    /\ cycle.step = "idle"
    /\ listings' = {}
    /\ active' = {}
    /\ failures' = 0
    /\ UNCHANGED <<optedIn, accounts, rowCfgs, sent, histVars, queue, cycle,
                   flush, cycles, faults>>

-----------------------------------------------------------------------------
ScrapeStep ==
    \/ UpsertListings
    \/ MatchConfigs
    \/ \E u \in User : InsertNotifications(u) \/ PublishBotProcessed(u)

ConsumeStep ==
    \/ FetchUser
    \/ SkipEvent
    \/ FetchUnsent
    \/ SendDigest
    \/ SendRefused
    \/ MarkSent
    \/ Ack

Failure ==
    \/ FetchFails
    \/ \E S \in SUBSET Listing : UpsertFails(S) \/ MarkFails(S)
    \/ MatchFails
    \/ \E u \in User : InsertFails(u) \/ PublishFails(u) \/ PublishLost(u)
    \/ ScraperCrash
    \/ SendFails
    \/ ConsumerCrash

Environment ==
    \/ \E c \in Config : SetActive(c) \/ SetOptedIn(c)
    \/ \E u \in User : DeleteAccount(u)
    \/ Migrate

Next ==
    \/ \E S \in SUBSET Listing : FetchListings(S)
    \/ ScrapeStep
    \/ ConsumeStep
    \/ Failure
    \/ Environment

(* A cycle that began runs on and the consumer keeps consuming: both        *)
(* processes are restarted by the orchestrator when they stop.  Nothing is  *)
(* assumed of users, of failures, or of when the next cycle begins.         *)
Fairness == WF_vars(ScrapeStep) /\ WF_vars(ConsumeStep)

Spec == Init /\ [][Next]_vars
FairSpec == Spec /\ Fairness

-----------------------------------------------------------------------------
(* Properties.                                                              *)

(* A row gets its sent_at only after a digest with it was handed to SMTP,   *)
(* also when rows arrive between FetchUnsentForBot and MarkSent.            *)
SentWasMailed == SmtpServer => \A k \in sent : mails[k] > 0

(* A match is mailed twice only if a mail went out whose MarkSent was lost, *)
(* and as many times more as that happened: several events for one user, a  *)
(* redelivery, two configs with the same match or a migration that makes    *)
(* every listing new again do not mail it again.                            *)
DuplicatesNeedLostMark == \A k \in Key : mails[k] <= 1 + lostMarks

(* A row of a user is about a listing that a config of that user matches.   *)
RowsAreOwnMatches ==
    \A k \in Key : \A c \in rowCfgs[k] : Owner[c] = k[1] /\ k[2] \in Match[c]

(* Events that will still read the unsent rows of u. *)
EventAhead(u) ==
    \E i \in 1 .. Len(queue) :
        queue[i] = u /\ (i = 1 => flush.step \in {"idle", "rows"})

(* No lost wakeup: while no call failed and no user changed anything, an    *)
(* unsent row of an opted-in user is in the digest in hand, or an event     *)
(* that will find it is queued or about to be published, whatever the       *)
(* interleaving of insert, publish, fetch and mark.                         *)
NoLostWakeup ==
    faults = 0 /\ changes = 0 =>
        \A k \in Unsent :
            \/ OptedInFor(k[1]) = {}
            \/ k[1] \in cycle.inserted
            \/ EventAhead(k[1])
            \/ flush.step \in {"send", "mark"} /\ k \in InHand

(* The pipeline implements at-least-once delivery without resurrection.     *)
Delivery == INSTANCE DigestDelivery
    WITH due <- Unsent, mailed <- {k \in Key : mails[k] > 0}, retired <- sent

DeliverySpec == Delivery!Spec

Willing(u) == u \in accounts /\ OptedInFor(u) # {}

(* While the allow-list refuses nobody, an unsent row whose user has an      *)
(* event in the queue is retired in the end, unless the user opts out:      *)
(* crashes, failed sends and failed marks only delay it.                    *)
AnnouncedIsRetired ==
    \A k \in Key :
        (Rejected = {} /\ k \in Unsent /\ EventAhead(k[1])) ~> (k \in sent \/ ~Willing(k[1]))

(* While the allow-list refuses nobody, a match the cycle computed is mailed *)
(* in the end, unless the user opts out or a call failed on the way.        *)
FoundIsMailed ==
    \A c \in Config, l \in Listing :
        (Rejected = {} /\ <<c, l>> \in cycle.found) ~>
            \/ mails[<<Owner[c], l>>] > 0
            \/ ~Willing(Owner[c])
            \/ faults > 0

(* "We'll email you the moment a new one appears": so it is for a user with  *)
(* an allowed address, whoever else is refused.                             *)
AllowedIsMailed ==
    \A c \in Config, l \in Listing :
        (Owner[c] \notin Rejected /\ <<c, l>> \in cycle.found) ~>
            \/ mails[<<Owner[c], l>>] > 0
            \/ ~Willing(Owner[c])
            \/ faults > 0

(* "We'll email you the moment a new one appears": between two cycles every *)
(* stored listing that a running config matches has a notification row.     *)
EveryNewListingIsReported ==
    cycle.step = "idle" =>
        \A c \in active \ Unusable :
            \A l \in listings \cap Match[c] : <<Owner[c], l>> \in Rows

(* The email switch of a bot decides whether its matches are mailed: a mail *)
(* carries no match that only configs with emails off found.                *)
EmailSwitchHonoured ==
    [][\A k \in Key : mails'[k] > mails[k] => rowCfgs[k] \cap optedIn # {}]_vars

-----------------------------------------------------------------------------
(* The inductive invariant behind the delivery properties.                  *)

(* What a cycle carries from matching to insertion are matches, and so are  *)
(* the rows made from it.                                                   *)
MatchInv ==
    /\ \A m \in cycle.found : m[2] \in Match[m[1]]
    /\ RowsAreOwnMatches

(* The delivery the consumer works on stays in the queue until its Ack.     *)
HeadHeld == flush.step # "idle" => queue # << >>

(* The rows in the consumer's hand stay unsent until it marks them: nobody  *)
(* else sets a sent_at.                                                     *)
HandInv ==
    /\ flush.step \in {"send", "mark"} => InHand \subseteq Unsent
    /\ SmtpServer /\ flush.step = "mark" => \A k \in InHand : mails[k] > 0

(* A row that is neither sent nor in a digest just mailed owes each of its  *)
(* mails to a lost mark.                                                    *)
MailBound ==
    \A k \in Key :
        /\ mails[k] <= 1 + lostMarks
        /\ ~(k \in sent \/ (flush.step = "mark" /\ k \in InHand)) =>
              mails[k] <= lostMarks

(* A row in the consumer's hand is nobody else's to mark, a sent row exists *)
(* and was mailed, and only lost marks leave a mailed row unsent.           *)
DeliveryInv ==
    /\ HeadHeld
    /\ HandInv
    /\ MailBound
    /\ sent \subseteq Rows
    /\ SentWasMailed
=============================================================================
