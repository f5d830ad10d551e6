------------------------------ MODULE Welcome ------------------------------
(***************************************************************************)
(* The mail that welcomes a new bot: from the dialog of the dashboard that  *)
(* mints and activates it, through the save of its configuration in the bot *)
(* service, the notify.bot.welcome event and its queue, to the notifier.    *)
(* Nothing retries a publish, and nothing but the broker remembers a        *)
(* delivery, so each failure on the way either loses the mail or repeats a  *)
(* step.                                                                    *)
(***************************************************************************)
EXTENDS Naturals, FiniteSets

CONSTANTS Bots,      \* config ids the dashboard may mint
          Saves,     \* requests that may be in flight at once
          SmtpServer,    \* whether the notifier has one
          WelcomeFaults  \* bound: failures of all kinds

ASSUME FaultsAssumption == WelcomeFaults \in Nat /\ SmtpServer \in BOOLEAN
ASSUME SavesAssumption == IsFiniteSet(Saves)

VARIABLES
    nest,      \* bots of the sreality service; the others are of a python one
    entry,     \* entry in users.bots: "none", "pending", "active", "stopped", "removed"
    mails,     \* bots with email_notifications on
    dialog,    \* the dialog of a new bot: "none", "form", "saved", "closed"
    config,    \* <bot>_config document: "none", "unmarked", "marked"
    save,      \* requests of the form
    channel,   \* of the sreality publisher: "none", "open", "dead"
    declared,  \* the notifier has declared its queue once
    notifier,  \* "down", "idle", or what it does with the event of a bot
    waiting,   \* events in the queue, the unacknowledged one included
    created, published, mailed,  \* how often, for each bot
    lost,      \* bots one of whose welcomes a failure has swallowed
    spared,    \* bots one of whose events came while they took no mail
    trouble

welcomeVars == <<nest, entry, mails, dialog, config, save, channel, declared, notifier,
                 waiting, created, published, mailed, lost, spared, trouble>>

dialogVars == <<nest, entry, mails, dialog>>
brokerVars == <<declared, notifier, waiting, mailed, spared>>

Never == [b \in Bots |-> 0]
NoSave == [step |-> "none", cfg |-> "none"]
At(step, b) == [step |-> step, cfg |-> b]

WelcomeInit ==
    /\ nest \in SUBSET Bots
    /\ entry = [b \in Bots |-> "none"] /\ mails = {}
    /\ dialog = [b \in Bots |-> "none"] /\ config = [b \in Bots |-> "none"]
    /\ save = [s \in Saves |-> NoSave]
    /\ channel \in {"none", "open"} /\ declared = FALSE /\ notifier = At("down", "none")
    /\ waiting = Never /\ created = Never /\ published = Never /\ mailed = Never
    /\ lost = {} /\ spared = {} /\ trouble = 0

Trouble == trouble < WelcomeFaults /\ trouble' = trouble + 1

-----------------------------------------------------------------------------
\* The dialog.  next: POST /api/bots, then the form of the service is shown.
Mint(b, on) ==
    /\ entry[b] = "none"
    /\ entry' = [entry EXCEPT ![b] = "pending"]
    /\ mails' = IF on THEN mails \cup {b} ELSE mails
    /\ dialog' = [dialog EXCEPT ![b] = "form"]
    /\ UNCHANGED <<nest, config, save, channel, brokerVars, created, published, lost, trouble>>

\* The form is submitted, twice by an impatient user, or later to edit.
Submit(s, b) ==
    /\ save[s] = NoSave
    /\ dialog[b] = "form" \/ entry[b] \in {"active", "stopped"}
    /\ save' = [save EXCEPT ![s] = At("write", b)]
    /\ UNCHANGED <<dialogVars, config, channel, brokerVars, created, published, lost, trouble>>

\* onSaved: PATCH the status; its update skips an entry that is gone.
Activate(b) ==
    /\ dialog[b] = "saved"
    /\ entry' = [entry EXCEPT ![b] = IF @ = "pending" THEN "active" ELSE @]
    /\ dialog' = [dialog EXCEPT ![b] = "closed"]
    /\ UNCHANGED <<nest, mails, config, save, channel, brokerVars, created, published, lost, trouble>>

ActivateFails(b) ==
    /\ dialog[b] = "saved" /\ Trouble
    /\ dialog' = [dialog EXCEPT ![b] = "form"]
    /\ UNCHANGED <<nest, entry, mails, config, save, channel, brokerVars, created, published, lost>>

\* cancel, DELETE of a bot, or the janitor's reaping: document and entry go.
RemoveBot(b) ==
    /\ entry[b] \in {"pending", "active", "stopped"}
    /\ entry' = [entry EXCEPT ![b] = "removed"] /\ mails' = mails \ {b}
    /\ dialog' = [dialog EXCEPT ![b] = "closed"]
    /\ config' = [config EXCEPT ![b] = "none"]
    /\ UNCHANGED <<nest, save, channel, brokerVars, created, published, lost, trouble>>

\* cancel closes the dialog though its DELETE has failed.
CancelFails(b) ==
    /\ dialog[b] \in {"form", "saved"} /\ Trouble
    /\ dialog' = [dialog EXCEPT ![b] = "closed"]
    /\ UNCHANGED <<nest, entry, mails, config, save, channel, brokerVars, created, published, lost>>

\* The switches of the bots page, and the unsubscribe page.
Switch(b) ==
    /\ entry[b] \in {"active", "stopped"}
    /\ \/ mails' = (mails \ {b}) \cup ({b} \ mails) /\ UNCHANGED entry
       \/ /\ entry' = [entry EXCEPT ![b] = IF @ = "active" THEN "stopped" ELSE "active"]
          /\ UNCHANGED mails
    /\ UNCHANGED <<nest, dialog, config, save, channel, brokerVars, created, published, lost, trouble>>

-----------------------------------------------------------------------------
\* The bot service.  The reply ends the request; an accepted form tells the
\* dialog, a refused one may be submitted again.
Replied(s, ok) ==
    LET b == save[s].cfg IN
    /\ save' = [save EXCEPT ![s] = NoSave]
    /\ dialog' = [dialog EXCEPT ![b] = IF ok /\ @ = "form" THEN "saved" ELSE @]

\* Mutant: whoever finds no mark welcomes.
Unwelcomed(b) == config[b] # "marked"

Creates(b) == config[b] = "none"

\* write_config: the upsert tells whether this request made the document.
WriteDocument(s) ==
    LET b == save[s].cfg IN
    /\ save[s].step = "write"
    /\ config' = [config EXCEPT ![b] = IF @ = "none" THEN "unmarked" ELSE @]
    /\ created' = [created EXCEPT ![b] = IF config[b] = "none" THEN @ + 1 ELSE @]
    /\ IF Creates(b)
       THEN save' = [save EXCEPT ![s] = At("emit", b)] /\ UNCHANGED dialog
       ELSE Replied(s, TRUE)
    /\ UNCHANGED <<nest, entry, mails, channel, brokerVars, published, lost, trouble>>

Published(b) == published' = [published EXCEPT ![b] = @ + 1]
Queued(b) == [waiting EXCEPT ![b] = @ + 1]

\* emit_welcome.  A fanout exchange without a queue drops the event; amqplib
\* connects when there is no channel.
Emit(s) ==
    LET b == save[s].cfg IN
    /\ save[s].step = "emit" /\ (b \in nest => channel # "dead")
    /\ channel' = IF b \in nest THEN "open" ELSE channel
    /\ Published(b)
    /\ waiting' = IF declared THEN Queued(b) ELSE waiting
    /\ lost' = IF declared THEN lost ELSE lost \cup {b}
    /\ save' = [save EXCEPT ![s].step = "mark"]
    /\ UNCHANGED <<dialogVars, config, declared, notifier, mailed, spared, created, trouble>>

\* amqplib publishes without confirms: an event written to a dying connection is
\* lost, and the request goes on as if it had been published.
EmitUnconfirmed(s) ==
    LET b == save[s].cfg IN
    /\ save[s].step = "emit" /\ b \in nest /\ channel # "dead" /\ Trouble
    /\ channel' = "dead"
    /\ Published(b) /\ lost' = lost \cup {b}
    /\ save' = [save EXCEPT ![s].step = "mark"]
    /\ UNCHANGED <<dialogVars, config, brokerVars, created>>

\* emit throws: python answers 500, sreality logs it and answers 200.
AfterThrow(s) == Replied(s, save[s].cfg \in nest)

\* Reading the advertisements or the region throws, connecting, or the publish.
EmitFails(s) ==
    LET b == save[s].cfg IN
    /\ save[s].step = "emit"
    /\ IF b \in nest /\ channel = "dead" THEN UNCHANGED trouble ELSE Trouble
    /\ lost' = lost \cup {b}
    /\ AfterThrow(s)
    /\ UNCHANGED <<nest, entry, mails, config, channel, brokerVars, created, published>>

\* The confirm is lost, or the channel fails to close: python raises although
\* the broker has the event.
EmitTaken(s) ==
    LET b == save[s].cfg IN
    /\ save[s].step = "emit" /\ b \notin nest /\ declared /\ Trouble
    /\ Published(b) /\ waiting' = Queued(b)
    /\ AfterThrow(s)
    /\ UNCHANGED <<nest, entry, mails, config, channel, declared, notifier, mailed, spared,
                   created, lost>>

MarkSent(s) ==
    LET b == save[s].cfg IN
    /\ save[s].step = "mark"
    /\ config' = [config EXCEPT ![b] = IF @ = "none" THEN @ ELSE "marked"]
    /\ Replied(s, TRUE)
    /\ UNCHANGED <<nest, entry, mails, channel, brokerVars, created, published, lost, trouble>>

MarkFails(s) ==
    /\ save[s].step = "mark" /\ Trouble
    /\ AfterThrow(s)
    /\ UNCHANGED <<nest, entry, mails, config, channel, brokerVars, created, published, lost>>

Emitting == {b \in Bots : \E s \in Saves : save[s] = At("emit", b)}

\* Both kinds of service restart; onModuleInit may not reach the broker.
ServicesDie ==
    /\ Trouble
    /\ lost' = lost \cup Emitting
    /\ save' = [s \in Saves |-> NoSave]
    /\ channel' \in {"none", "open"}
    /\ UNCHANGED <<dialogVars, config, brokerVars, created, published>>

\* A broker that shuts down in order closes the connection without an error:
\* the publisher keeps its channel, the notifier's process ends.
BrokerRestarts ==
    /\ Trouble
    /\ channel' = IF channel = "open" THEN "dead" ELSE channel
    /\ notifier' = At("down", "none")
    /\ UNCHANGED <<dialogVars, config, save, declared, waiting, created, published, mailed,
                   lost, spared>>

-----------------------------------------------------------------------------
\* The notifier.  startWelcome declares the durable queue and consumes.
StartWelcome ==
    /\ notifier.step = "down"
    /\ notifier' = At("idle", "none") /\ declared' = TRUE
    /\ UNCHANGED <<dialogVars, config, save, channel, waiting, created, published, mailed,
                   lost, spared, trouble>>

Mailable(b) == b \in mails /\ entry[b] \in {"active", "pending"}
Acked(b) == [waiting EXCEPT ![b] = @ - 1]

\* handleWelcome up to SendWelcome.  A user without the bot, an opted-out and
\* a stopped one are all skipped.
TakeEvent(b) ==
    /\ notifier.step = "idle" /\ waiting[b] > 0
    /\ IF Mailable(b) THEN notifier' = At("send", b) /\ UNCHANGED <<waiting, spared>>
       ELSE waiting' = Acked(b) /\ spared' = spared \cup {b} /\ UNCHANGED notifier
    /\ UNCHANGED <<dialogVars, config, save, channel, declared, created, published, mailed,
                   lost, trouble>>

\* Mutant: the Nack does not ask for another delivery.
Dropped(b) == Acked(b)

Requeued(b) == waiting

FetchUserFails(b) ==
    /\ notifier.step = "idle" /\ waiting[b] > 0 /\ Trouble
    /\ waiting' = Requeued(b)
    /\ UNCHANGED <<dialogVars, config, save, channel, declared, notifier, created, published,
                   mailed, lost, spared>>

\* Without an SMTP server the mail is only logged, and taken for sent.
SendMail ==
    /\ notifier.step = "send"
    /\ mailed' = IF SmtpServer THEN [mailed EXCEPT ![notifier.cfg] = @ + 1] ELSE mailed
    /\ notifier' = At("ack", notifier.cfg)
    /\ UNCHANGED <<dialogVars, config, save, channel, declared, waiting, created, published,
                   lost, spared, trouble>>

\* "send failed, dropping (no retry)"
SendFails ==
    /\ notifier.step = "send" /\ Trouble
    /\ lost' = lost \cup {notifier.cfg}
    /\ notifier' = At("ack", notifier.cfg)
    /\ UNCHANGED <<dialogVars, config, save, channel, declared, waiting, created, published,
                   mailed, spared>>

Ack ==
    /\ notifier.step = "ack"
    /\ waiting' = Acked(notifier.cfg)
    /\ notifier' = At("idle", "none")
    /\ UNCHANGED <<dialogVars, config, save, channel, declared, created, published, mailed,
                   lost, spared, trouble>>

\* What was not acknowledged is delivered again.
NotifierDies ==
    /\ notifier.step # "down" /\ Trouble
    /\ notifier' = At("down", "none")
    /\ UNCHANGED <<dialogVars, config, save, channel, declared, waiting, created, published,
                   mailed, lost, spared>>

SaveStep(s) == WriteDocument(s) \/ Emit(s) \/ EmitFails(s) \/ MarkSent(s)
SaveTrouble(s) == EmitUnconfirmed(s) \/ EmitTaken(s) \/ MarkFails(s)
NotifierStep == StartWelcome \/ SendMail \/ Ack \/ \E b \in Bots : TakeEvent(b)

WelcomeNext ==
    \/ \E b \in Bots :
        \/ \E on \in BOOLEAN : Mint(b, on)
        \/ \E s \in Saves : Submit(s, b)
        \/ Activate(b) \/ ActivateFails(b) \/ RemoveBot(b) \/ CancelFails(b) \/ Switch(b)
        \/ FetchUserFails(b)
    \/ \E s \in Saves : SaveStep(s) \/ SaveTrouble(s)
    \/ NotifierStep \/ SendFails \/ NotifierDies \/ ServicesDie \/ BrokerRestarts

WelcomeSpec == WelcomeInit /\ [][WelcomeNext]_welcomeVars

-----------------------------------------------------------------------------
\* However often a form is submitted, and by requests that overlap, one
\* document is welcomed once; a mail more takes a broken delivery.
OneWelcomePerCreation ==
    \A b \in Bots : /\ published[b] <= created[b]
                    /\ mailed[b] <= published[b] + trouble

\* With an SMTP server, a new bot is welcomed, unless it takes no mail when its
\* event comes or one of the failures that swallow an event has happened to it:
\* nothing reads the queue yet, a publish that fails or that nobody confirms, a
\* service that restarts before it publishes, a mail that is refused.  Restarts
\* of the notifier, failing reads of it, a publish that raises although the
\* event is in the queue and a failing mark do not swallow it.
WelcomeArrives ==
    SmtpServer => \A b \in Bots :
        created[b] > 0 ~> (mailed[b] > 0 \/ b \in spared \cup lost)
=============================================================================
