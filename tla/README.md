# Verification of the real-estate watcher

TLA+ models of the services in this repository, TLC runs that check them on
small instances, and theorems about them that TLAPS checks for every instance.
`PROJECT.json` lists the components, the runs, the lines every definition
stands for, the hazards and the theorems; this file explains them.

    tlc -workers 2 -config PipelineSafety.cfg MCNotifyPipeline
    tlapm NotifyPipeline_proofs.tla

## The system

Users describe, in a dashboard, the flats they look for. Three bot services
scrape one portal each, compare new listings with the users' configurations
and write a notification row for every match. A notifier mails each user a
digest of the rows not mailed yet. MongoDB holds all state, RabbitMQ carries
events, and no transaction spans two documents.

| Component | State it keeps | Operations | Talks to |
|---|---|---|---|
| Bot service: scrape cycle (`bot-bazos`, `bot-bezrealitky`, `bot-sreality`) | `listings_<bot>`, the failure counter in memory | read pages, upsert, match, insert rows, publish | MongoDB, the portal, the exchange `notify.bot.processed` |
| Bot service: configuration API | `<bot>_config` with its welcome mark | parse an address, check and upsert a form, welcome once | called by the dashboard's proxy; Nominatim; `notify.bot.welcome` |
| Bot service: geocoding | the catalogue of regions, a rate gate | seed, resolve, complete from Nominatim | MongoDB, Nominatim |
| Notifier (`email-notifier`) | nothing but the delivery in hand | consume an event, read the user and the unsent rows, send, set `sent_at`, ack; mail a welcome | MongoDB, RabbitMQ, SMTP |
| Dashboard API (`frontend/server`) | `users` with the embedded `bots`, `sessions`, `notifications` (read marks) | register, log in and out, change password and e-mail, delete; create, patch and delete bots | MongoDB, the bot services over HTTP |
| Janitor (scheduled task of the frontend) | nothing between passes | reap stale pending bots, sweep documents without an entry | MongoDB; one per frontend replica |
| Unsubscribe page | a snapshot and its boxes, in the browser | load, tick, apply | the dashboard API, authorised by a token in the mail that expires |
| Inbox | listener sets per user in memory; the list each page shows | broker event to server-sent event, read the list, mark | RabbitMQ, MongoDB |
| Heatmap cache | one entry per key, the refreshes in flight | answer, fill, refresh in the background | Nitro storage, MongoDB |
| Startup | indexes, migrations, the schema version | run once per process, in any order between services | MongoDB, RabbitMQ |

What is hard here:

* **Crashes between two writes.** A cycle is five separate writes, a digest is
  a mail and a mark, a status change is two updates, a seed is a row at a time.
  Any of them may be the last.
* **Redelivery.** The notifier acknowledges after the mail went out; a lost
  mark or a lost acknowledgement repeats the digest.
* **Stale reads.** The janitor, the unsubscribe page, the opt-in test of the
  notifier, the CSRF middleware and every dashboard handler act on what they
  read some time ago.
* **Interleavings.** Rows are inserted while a digest about the same user is
  being sent; two tabs write the two records of one bot, or rotate the token of
  one session; several janitors run; a list of ads shifts while its pages are
  read.
* **Order.** Responses reach a browser's cookie jar in any order, a stream is
  opened after the list it keeps fresh was read, processes start in any order.
* **Liveness.** Every match should be mailed, every abandoned dialog cleaned
  up, every process should come up, and an error must not block everybody.

What makes each component correct: a match is reported once and mailed at least
once, and again only for a lost mark (pipeline); no unsent row is left without
an event that finds it (pipeline); a user's rows are about that user's own
configurations (matching); the two records of a bot agree when nobody works on
it, a deleted bot stays deleted, the sweep spares every bot in use and leaves
nothing behind (bot records and janitor); what the unsubscribe page confirms is
so (unsubscribe); no handler acts unchecked, and nothing
revoked comes back (accounts); a page misses no row it could have heard of
(inbox); an answer is never replaced by an older one (heatmap); a shifting list
hides no ad (paging); a wider search finds no less, and what is imported,
saved and welcomed is the same search, but for what a form is known to drop
(filters).

## The modules

| Module | Models | Used by |
|---|---|---|
| `DigestDelivery` | what the pipeline promises: due, mailed, retired | `NotifyPipeline` (`INSTANCE ... WITH`) |
| `NotifyPipeline` | scrape cycle, notifications, queue, digest consumer | `MCNotifyPipeline`, `NotifyPipeline_proofs` |
| `BotLifecycle` | the two records of a bot, all their writers, the janitor | `MCBotLifecycle`, `BotLifecycle_proofs` |
| `Accounts` | users, sessions, CSRF tokens, browsers and the handlers about them | `MCAccounts`, `Accounts_proofs` |
| `UnsubscribePage` | the page's snapshot, its list of updates, the handler, the link | `MCDashboard`, `UnsubscribePage_proofs` |
| `InboxStream` | the broker, the bus, the streams and the inbox pages | `MCDashboard`, `InboxStream_proofs` |
| `HeatmapCache` | one key of the cache, its requests and its refresh; the quantiles | `MCDashboard`, `HeatmapCache_proofs` |
| `FetchListings` | the pages of a portal as the three services and the backfill read them | `MCServices`, `Services_proofs` |
| `RegionCatalogue` | the seed, the completion from Nominatim, the gate | `MCServices`, `Services_proofs` |
| `SearchFilters` | the three matchers, the filter of the welcome message | `MCServices`, `Search_proofs` |
| `PastedUrl` | from the address of a search to a saved bot | `MCServices`, `Search_proofs` |
| `Welcome` | dialog, save, event, queue and mail of the welcome | `MCServices`, `Services_proofs` |
| `Startup` | migrations, indexes and processes in any order | `MCServices`, `Services_proofs` |

Modules named `..._proofs` hold theorems only. `MCDashboard` and `MCServices`
put modules side by side that share no state: `part` says which of them a
behaviour is about, and the others keep their initial state. The mutated forms
of definitions stand before the definitions they replace and are marked
"Mutant"; no specification uses them.

### NotifyPipeline

One bot service, its users and the notifier. `cycle` is the running cycle: the
step it is at and the local variables of `run_cycle` and `_match_and_notify`
that are still needed (`batch`, `found`, `inserted`). `flush` is the same for
the consumer. The queue's head is the unacknowledged delivery, as the consumer
sets a prefetch of one; a requeued delivery is at the head again. A row of the
notifications collection is a user and a listing, its unique key;
`rowCfgs` holds its `config_ids`, and `{}` means there is no row.

| Action | Code |
|---|---|
| `FetchListings`, `UpsertListings`, `MatchConfigs`, `InsertNotifications`, `PublishBotProcessed` | the awaits of `bot-bazos/src/cycle.py`, in order |
| `FetchFails` ... `PublishFails` | the same calls when they raise, with whatever they had done by then; `FailCycle` is the `except` clause |
| `PublishLost` | `bot-sreality` publishes without confirms, so an event may vanish unnoticed |
| `ScraperCrash`, `ConsumerCrash` | the process dies, is restarted, and forgets its local state |
| `FetchUser`, `SkipEvent`, `FetchUnsent`, `SendDigest`, `SendRefused`, `MarkSent`, `Ack` | `handle` and `flush` of `consumer.go` with the emailer and repository calls |
| `SendFails`, `MarkFails` | SMTP fails before or after it took the mail; MarkSent fails after it wrote some rows |
| `SetActive`, `SetOptedIn`, `DeleteAccount`, `Migrate` | writers outside the pipeline whose writes it reads |

`mails` and `lostMarks` are history variables: nothing in the code reads them.
`Match` stands for the matchers, which `SearchFilters` models. Deleting an
account leaves the rows: `user.delete.ts` looks for them under an `ObjectId`,
the rows hold the id as a string.

`DigestDelivery` has neither queue nor processes. Under the mapping due =
`Unsent`, mailed = the matches with a mail, retired = `sent`, a cycle's insert
is `Report`, the SMTP call is `Mail`, MarkSent is `Retire`, and everything else
is a stutter.

### BotLifecycle

A bot is two records: its entry in `users.bots` (`row`, `emails`, `rowAge`) and
its document in `<bot>_config` (`doc`, `docAge`). `req[r]` is a request in
flight, with the step it is at and what it is about to write; the guards of its
`Start...` action are what the handler read at its beginning, so a write may
come when the read no longer holds. `pass[j]` is a pass of the janitor in one
frontend replica: the entries it read as stale, the claimed ids, the documents
left to sweep. Ages are ticks, and stop at `OldAge`, beyond which all
comparisons of the janitor have one outcome. One user is enough: no handler
touches another user's records, except the sweep, whose claimed ids are those
of all users.

Which requests are possible follows the dashboard as well as its API: the
dialog activates a pending bot after its form is saved, the bots page pauses,
resumes and deletes, the unsubscribe page stops and switches mails, with boxes
from a page loaded long before.

### Accounts

A request is its `kind`, the `step` it is at and what it holds of earlier
reads. Its steps are the awaits of the code: `Csrf` is the middleware, `Load`,
`Touch` and `LoadUser` are `getUserSession` and the look-up of its user, then
comes what the handler does, one write at a time, and `Reply` sets cookies in
the browser's `jar`. `sessions` maps the ids ever given out to rows; a token is
a session and a number of rotations. The middleware lets a request pass
unchecked when there is no usable session at that moment, and the handler
reads the session again: `checked` remembers which way a request went. A
response may be lost (`LoseReply`), the process may die (`Crash`), rows expire
(`Expires`) and a TTL monitor removes them some time after (`TtlMonitor`).
`EnsureIndexes` makes the unique e-mail index at any time, when there are no
duplicates yet. Passwords are a choice.

### UnsubscribePage

`page` is the snapshot and the boxes, `post` the list of updates still to be
applied by the handler and the one whose document is written but not its entry.
The bots page may write each entry once meanwhile (`touched`, a bound). `link`
is the token: it may expire while the page is open, and both the load and the
post check it.

### InboxStream

One user, one frontend process. A page (`tab[t]`) has a phase, the list it
shows, a read of the list with its answer, and a mark in flight. `cur` is the
listener set the bus maps the user to, `members` the content of every set ever
given out, for the closures `subscribe` returned keep theirs. A page that goes
while its session is looked up ("left") has its handler subscribe all the same
("ghost"). `gap` is a history variable: an event went past this page when it
did not listen, or was dropped with the queue. A read answers with one page of the
rows (`IsPage`): the newest, up to `Limit`, in any order among those of one
instant.

### HeatmapCache

One key. `entry` says of which crawl it was computed and when it was stored;
`caller[c]` is a request in the phases of the handler, `jobs` the background
refreshes, more than one of which only a mutant makes. `Response` is the
computed answer with the quantiles of `listings-heatmap.ts`. `Prices` maps the
listings of a crawl that are on the map to their prices, and `Sorted` puts each
at its `Rank`: a sort that can be reasoned about by counting.

### FetchListings

`board` is the list of a portal, newest first; ads are posted at its head and
withdrawn anywhere between two requests. `reader` chooses the service: bazos
and bezrealitky read `Pages` pages, sreality one; they differ in what a refusal, an
ad without coordinates and a failing detail do. `script` is the backfill of
sreality, with its page, its retries and what it owes. The ads of sreality
stand for its keys of deduplication: the key merges ads, and makes a change of
price a new one. What a cycle has read (`got`) is a set, as an upsert takes an ad
twice without harm and nothing looks at the order.

### RegionCatalogue, SearchFilters, PastedUrl

These choose a service in their initial state and model what each does.
`RegionCatalogue`: `gate` is the promise chain of `nominatim.service.ts`,
`quiet` the ticks since a request ended (a history variable), `torn` whether a
seed was interrupted. `SearchFilters`: a filter is a name with a kind, a
configuration a function from the names it sets to wanted values; every step
widens one filter, so that the search before and after can be compared.
A catalogue is seeded when it is empty, always or `never` (`GEO_SEED_MODE`).
`PastedUrl`: an address is a function from parameters to values of three
sorts (known, alien, absent); `Bazos`, `Bezrealitky` and `Sreality` say for
each kind of parameter whether the parser takes it, leaves it out or refuses
the address. What sreality reads may depend on the rest of the path: `velikost`
on `byty`, `typ` on `domy` (`Under`). `Import` is the form: bot-bezrealitky
presses the chips there are (`Chips`; `Chipless` are dispositions its parser
knows and no chip shows), takes the first `MaxRegions` regions
(`FirstRegions`), and may fail in between, with half of the filters there.

### Welcome

`nest` are the bots of bot-sreality, which is written with NestJS; the others are
of a python service. `dialog` is the dialog of a new bot, `config` its document
with the mark, `save[s]` a save in flight in the bot service: write the document, publish if
it was created, mark. `channel` is that of the publisher of bot-sreality, which
is never opened again. `waiting` counts the events in the queue, the first of
which the notifier holds until it acknowledges. `spared` and `lost` name the
bots whose event was skipped or swallowed, and by what: a publish while no queue is
declared, a read or a publish that raises, a publish of bot-sreality that no confirm
answers and that a dying connection loses (`EmitUnconfirmed`), a service that
dies before it published, a mail the SMTP server refused. A python publish may
also raise although the broker has the event (`EmitTaken`), and a mark may
fail (`MarkFails`): neither loses the mail. Without an SMTP server `SendMail` mails
nothing and the event is acknowledged.

### Startup

`indexes`, `doubled` (rows that break the unique index), `version` and `svc`
hold what is in MongoDB and where each process is. The two plugins of the
frontend are not ordered: `LookForLegacy`, `DropNotifications` are one,
`FirstIndexes`, `ListIndexes`, `FixIndexes`, `CreateIndexes` the other.
`FirstIndexes` stands for the indexes of `users` and `module_registry`, which rows
of theirs (two accounts with one e-mail, from before there was an index) may
refuse; like an error of the database (`IndexingRefused`,
`MigrationRefused`) that ends the plugin before its work, and nothing runs it
again until the frontend is replaced. `Abandoned` says that this has happened
while there was something to put right. Processes and the broker may be killed
and come back.

## The runs

| Run | Instance | What it shows |
|---|---|---|
| `pipeline_safety` | 2 users, 3 configs (two of one user that overlap), 2 listings, 2 cycles, 2 faults, 1 change, one refused recipient | types; no wrong row; a second mail only for a lost mark; without faults no lost wakeup; the refinement of `DigestDelivery` |
| `pipeline_liveness` | 2 users, 2 configs, 2 listings, 2 cycles, 1 fault, 1 change, nobody refused, fair | announced rows are retired although a call failed or an account is deleted; without faults each match found is mailed |
| `pipeline_refused` | violation, fair, no fault | one refused recipient at the head of the queue keeps everybody else from being mailed |
| `pipeline_lost_match` | violation | a cycle that dies after the upsert never reports its listings |
| `pipeline_email_switch` | violation | a digest carries matches of a bot whose mails are off |
| `lifecycle_safety` | 1 config, 2 requests, 2 janitors, 1 fault | types; the sweep deletes no document of a bot; no late write brings a deleted bot back; the two records agree at rest, unless two requests overlapped |
| `lifecycle_cleanup` | 1 config, 1 request, 2 janitors, 1 fault, fair | pending bots resolve, orphan documents are swept |
| `lifecycle_reaped_active` | violation | a pass removes a bot activated after it read it as pending |
| `lifecycle_zombie` | violation, fair | a save in flight revives the document of a removed bot for ever |
| `account_sessions` | 2 users, 2 e-mails, 1 browser, 2 requests of any kind, 2 sessions, 1 rotation | types; no change is made unchecked; e-mails stay unique once indexed; a browser with one request at a time keeps the right token; nothing revoked or deleted comes back |
| `dashboard` | 2 rows of which a list shows 1, 2 inbox pages; 2 callers, 3 crawls, 5 ticks; 2 bots, 1 fault | the bus holds the open streams; a page at rest misses nothing it could hear; read marks are real; one refresh at a time, which never rewinds; the quantiles; what the unsubscribe page confirms is so |
| `services` | paging: 3 ads (one unreadable, one without coordinates), pages of 1, 2 faults; regions: 3 (one a street, one not in the seed), 2 requests, 2 faults; filters: any two, over 2 letters, 2 numbers, 2 places; addresses: any three parameters; welcome: 1 bot, 2 saves, 2 faults; startup: 3 processes, 1 restart; fair | a shifting list hides no ad, and one that stays is stored; requests to Nominatim keep their distance and all end; holes in the catalogue come from interrupted seeds; wider searches find no less; the welcome counts what the cycle would report, and names what hides an ad; what was imported is saved, and only the form of bot-bezrealitky drops a choice silently; one welcome for each creation, which arrives unless a named failure swallows it; every process comes up, with the unique index, unless the plugin that clears the way was ended |

Every property of a passing run has a mutant in `PROJECT.json`: a plausible bug
of the code under which the same run finds the property violated.

**Bounds.** Two listings give batches that overlap, a listing already stored
and a row that exists; two users of whom one is gone, or refused in
`pipeline_safety` and `pipeline_refused`, give a queue with a neighbour; two configs of one user give rows with two ids. Two cycles
let rows arrive while a digest is sent, let a listing be seen again and let a
migration make it new again. Two faults give a fault while another is being
repaired, and the second failure is the one that exits (`MaxFailures` is 2
there, the code has 3). In the lifecycle one config is enough for the sweep and
deletion, as no operation relates two configs but the loops of a pass, whose
items are independent; the proofs cover any number. `PendingTTL` 1 and
`OrphanTTL` 2 keep the order of the code's 15 minutes and one hour; only that
order is used. `MaxPass` is 1: a pass may take a tick. It must not be 0 in the
liveness run, as time would stand still while a pass runs and passes could
follow one another without a pause.

One browser with two requests gives two tabs, whose responses cross; another
browser of the same user differs only in the session it holds, and two sessions
let one be revoked while the other is used. The proofs cover any number of each. One
rotation tells an old token from a new one. Two pages are what a listener set
needs to lose one listener and keep another. Five ticks let an entry turn stale
twice. Pages of one ad make every post or withdrawal shift a page boundary, and the
backfill's pages of two end in one that is full and one that is not. At most two
filters are set, as no matcher relates more than a place and its radius. At most
three parameters are: a parser relates a place with its radius, and a property
with the list that goes with it, and one more is there beside them; regions
two, of which the form holds one. A list of the inbox that shows one of two rows is
cut whenever both are there; pages of more rows are left to the proof. Two saves and one bot let two requests race for one creation.
Two dial attempts let the notifier give up.

`CHECK_DEADLOCK FALSE` is set where a behaviour may end: the pipeline when its
cycles are used up, the dashboard when time and crawls are, the services when an
address is saved or everything is up. `AccountsSafety` uses symmetry, as no
property singles out a user, an e-mail or a request; so do the safety runs of the lifecycle and the
dashboard. Runs with liveness use none. `LifecycleSafety` has a `VIEW`
that leaves out the ages of records that are not there, which no guard reads.

**Fairness.** The pipeline's `Fairness` is weak fairness of a cycle's steps and
of the consumer's: an await ends, and Kubernetes restarts both processes
(`k3s/base/bot-bazos/deployment.yaml`, `k3s/base/email-notifier/deployment.yaml`,
one replica each). Nothing is assumed about when the next cycle begins, about
users or failures. In `BotLifecycle` time passes, the scheduled task keeps
running (`nuxt.config.ts`, every five minutes), and a request in flight ends.
In `MCServices` cycles are started by a timer and go on; a request to Nominatim is answered
or fails, as it has a timeout; a save goes on and the notifier consumes; a
process that ended is started again and the broker comes back. Users, posted ads and
failures owe nothing. The pages of the dashboard have no fairness and no liveness property:
whether a page is fresh is stated for pages at rest.

## What is proved

The theorems hold for all values of the constants (users, configs, listings,
requests, replicas, pages, thresholds), from the named assumptions in the
modules alone.

* `NotifyPipeline_proofs!TypeCorrect`: `TypeOK`, with the bound of the failure
  counter. It needs `HeadHeld` beside it (the consumer works on a delivery
  that is in the queue), without which the tail of the queue has no type.
* `NotifyPipeline_proofs!RowsCorrect`: `RowsAreOwnMatches`. It is not
  inductive alone: a row comes from what the cycle carries from matching to
  insertion, so `MatchInv` also says that this is made of matches.
* `NotifyPipeline_proofs!NobodyIsForgotten`: `NoLostWakeup`, from `WakeInv`:
  while nothing failed, every unsent row has an event to come, one queued, or is
  in the digest in hand. An event that the consumer holds counts only until it
  has read the rows; the case that takes the argument is a row inserted between
  that read and the mark, whose event is published after the insert.
* `NotifyPipeline_proofs!DeliveryCorrect` and `DuplicatesBounded`:
  `DeliveryInv` is inductive. Its core is `HandInv`: the rows in the consumer's hand
  stay unsent until it marks them, since nobody else sets a `sent_at`;
  `MailBound` then owes every mail of an unsent row to a lost mark.
* `NotifyPipeline_proofs!Implements`: every step of the pipeline is a step of
  `DigestDelivery` or a stutter, given an SMTP server. Without one the notifier
  marks rows nobody mailed (it logs them), and the refinement does not hold.
* `BotLifecycle_proofs!TypeCorrect`, `SweepInductive` and `SweepIsSafe`:
  `TypeOK`, and `SweepSparesBots` from `SweepInv`. A document is no older than
  its entry, and an entry the pass does not know of was minted after it began;
  as a document must have been old when the pass began, it belongs to no such
  entry. This needs the documents' age to be measured at the beginning of the
  pass, and `created_at` of the entry to be no later than that of the document.
* `BotLifecycle_proofs!DeletionStays`: `DeletionIsFinal`, from
  `DeletedSilent`: a request that deletes also switches mails off.
* `BotLifecycle_proofs!RecordsStayInStep`: `RecordsAgree`, for any number of bots,
  requests and replicas. The history variable `crossed` holds the bots two
  requests were about at once, which alone are excepted while nothing has died.
  `AgreeInv` says what a request between its two writes may count on in the records
  (`Promised`), and that any other bot no janitor holds as stale agrees or has such a
  request at work. An entry that is out of use binds nobody, so reaping and
  sweeping disturb nothing.
* `Accounts_proofs!TypeCorrect`, `UniqueEmails`, `GoneForGood`,
  `RevokedForGood`, `CheckedBeforeActing`. The last is the one that needs an
  invariant of its own (`TokenInv`): a request the middleware let through unchecked
  names a row that is not there, and since ids are not used again and nothing
  inserts a row under an old id, `getUserSession` does not find one either. So
  it rests on the argument of `RevokedForGood`: every writer of `sessions`
  updates, and none upserts.
* `Accounts_proofs!CookiesMatch`: `CookiePair`, from `CookieInv`. The step of the
  handlers is first reduced to what it does to rows, jars and its own request
  (`HandlerEffect`); then a session is known to one browser only (`ApartAt`), nobody
  knows it before the response with its cookie arrives (`FreshAt`), so only the browser's
  own request rotates its token, and `OrderlyAt` says what that response owes.
* `UnsubscribePage_proofs!TypeCorrect` and `ConfirmationHolds`: `TypeOK` and
  `ConfirmedIsApplied`. The invariant `ApplyInv` says that what a
  request has not applied it still holds (`StillOwed`), and that an entry is stopped
  only after its document, so that an attempt that died half-way leaves nothing a second one
  would not find in its list. `TurnedOn` says where a mail may be on that the page means to
  be off: at a bot that sent none when the page was loaded, after a failed attempt.
* `HeatmapCache_proofs!OneRefresh` and `RefreshesAdvance`: from `HeatInv`. That a
  refresh never stores behind a newer answer needs the assumption `MaxQuery <=
  FreshTtl`: whoever found the cache cold has stored before the entry turns stale, so
  nobody else stores while a refresh runs (`RefreshAlone`).
* `InboxStream_proofs!ReadIsRead`, `BusIsExact` and `ListStaysFresh`.
  `PagesKnow` says that no list, answer or mark in flight knows more than the
  collection; `BusInv` that the streams and the one set in the map are the same
  listeners; `FreshInv` that a page that missed nothing accounts for each announced
  row, or has an answer, a read or an event coming that will. It holds for any limit:
  a list that is full shows rows as new as any it leaves out (`PageAccounts`).
* `Services_proofs!KeepsDistance`: `SpacedOut`, from `GateInv`: of bot-sreality's
  requests only the first of the chain is at Nominatim, and only after the
  interval. `SeededBeforeServing`: `HolesComeFromCrashes`, from `SeedInv`.
  `WelcomedOnce`: `OneWelcomePerCreation`, by counting: each creation has one request that
  publishes (`PublishInv`), and mails and waiting events together are no more than
  the events published, the failures and the delivery in hand (`MailInv`).
* `Services_proofs!PostsHide`: `PostsHideNothing`, from `FetchInv`. Between
  two requests an ad can only be pushed down, so `ReadSoFar` says of each ad of
  the first pages that was there at the beginning: if it stands above the place
  the cycle has come to (`Reach`), it was read. `OwedAhead` says that what
  the backfill owes is stored or stands below its place. That a post moves every
  ad by one and a page is a slice of the list are lemmas (`Pushed`, `Slice`).
* `Search_proofs!FiltersKeepShape` and `WideningIsSafe`: `WideningNeverLoses`.
  The matcher tests each filter on its own (`ReportedIsEach`), and every test
  grows with its value (`PassesWider`); for a place this must be shown of each
  service apart (`LocatedWider`), as each turns a place into a filter in its own way.
* `Search_proofs!WelcomeCounts`: `WelcomeCountsMatches`. The two ways to build the
  filter differ for bot-sreality, which asks for all regions in one and for some
  in the other; they agree (`FiltersAgree`) because its form saves one region,
  which `FilterInv` keeps. `HiddenIsTold`: `WhatHidesIsTold`, since the
  filter that hides the ad is the one test that fails.
* `Search_proofs!ImportIsSaved`: `ImportedIsSaved`, from `UrlInv`. `FormTaken` says
  that the form has what the parser took but for chips and regions it cannot hold, and
  `ReadableIsTaken` that an address which is not refused has each readable parameter
  taken. `FormAloneWidens`: `OnlyTheFormWidens`, from the same invariant.
* `HeatmapCache_proofs!CutsFifths`: `BreakpointsCutFifths`, for any listings. By
  counting, ranks are a bijection onto 1..n (`RanksFill`), so what
  stands at place k has fewer than k prices below it and at least k no higher
  (`SortedAt`); `QuantilePlace` bounds the index, for no prices as well. The
  invariant `FromACrawl` says that every answer comes from a crawl that took place.
* `Services_proofs!UpServicesHaveIndex`, the safety half of `UniqueInTheEnd` (no
  run states it apart): a service that makes its indexes with `ensure_indexes`
  is up with the unique index there, unless the collection was dropped under it.
  `IndexInv` says that old rows that are not unique go with the legacy index, and
  that no two indexes of one key stand together.

What the proofs assume of the constants is named in the modules: sizes of pages
are positive, crawls hold natural prices, and in `PastedUrl` the value no
service knows differs from every number, known value and list. The arms of
every `CASE` the proofs expand are disjoint, and mixed set operators are
parenthesised: TLC takes the first arm that is true where the logic allows any.

Every invariant and every action property of the passing runs, and the
refinement, is a theorem. Only model-checked are the nine liveness properties
(`AnnouncedIsRetired`, `FoundIsMailed`, `PendingResolves`, `OrphanIsSwept`,
`ShownIsStored`, `EveryAskEnds`, `WelcomeArrives`, `EveryoneComesUp`,
`UniqueInTheEnd`): they follow from fairness, which speaks of when an action is
`ENABLED`, and the prover has no rule for that. The runs with fairness are what
speaks for progress.

## Where the code and its texts disagree

Five runs end in a counterexample, each against a sentence of the repository
quoted in `PROJECT.json`. Other disagreements seen while reading the code have
no run:

* A pause and a resume from two tabs may leave an entry stopped with an active
  document (`[id].patch.ts:40`), which is why `RecordsAgree` excepts bots two
  requests were about at once.
* The unsubscribe page sends `email_notifications: true` for every bot whose mails
  are off and whose box is not ticked (`[token].vue:83`): applying any box turns them on,
  though the box says "Disable emails" (`[token].vue:212`). `EmailUpdate` has it so.
* After an unsubscribe that failed half-way the page compares with its first
  snapshot (`[token].vue:82`): it cannot turn off again what the failed attempt turned on.
  `ConfirmedIsApplied` names this as its one exception.
* "Paste any bezrealitky.cz /vyhledat?… URL and we'll fill the form below"
  (`configure.html:238`): dispositions without a chip (`DISP_7_KK`, `DISP_7_1` of
  `models.py:52`) and regions past `MAX_REGIONS` are dropped while the form says
  "Filters imported from URL.". `OnlyTheFormWidens` names both and allows nothing else.
* A `velikost` in an address of sreality whose path does not say `byty` is left out
  without a word (`parse-url.controller.ts:112`), and so is a radius without a region.
* Two accounts with one e-mail, from before the index, end the plugin that
  makes the indexes before it comes to notifications (`indexes.ts:61`): a service
  that a foreign index refuses then restarts for ever (`Abandoned` in `Startup`).
* Deleting an account leaves its notification rows (`user.delete.ts:11`).
* bot-bezrealitky's matcher ignores regions without a radius, while its welcome says
  "in ..." (`welcome.py:95`); the form refuses that combination
  (`configure.html:727`), the API takes it. Hence the guard of `FilterInit`.
* A parsed radius of bot-bezrealitky may exceed what the save accepts: the
  import succeeds and the save is refused (`TooWide`).
* `cenaod` of an address of bazos that is no number raises, and the import fails
  with a 500 instead of a message ("failed" in `PastedUrl`).
* bot-sreality's form says "Listings without coordinates are excluded when a
  radius is set" (`configure.html:283`); a region that is not in the catalogue sets
  no filter at all.
* The frontend drops the legacy notifications collection with any index made
  and any row inserted before (`raced` in `Startup`); the index comes back at
  the next start only.

## Abstractions

* The notifier's counters, traces and log lines, the text of mails and
  notifications, and the content of listings are left out.
* Every user has an email address, as registration demands; the notifier's
  branch for an empty one is left out.
* In `NotifyPipeline` the queue exists: the notifier was up once and declared
  it. `Welcome` and `InboxStream` do without that.
* Malformed events, which the services do not publish, are left out.
* A cursor and a bulk read are one snapshot; a bulk write that fails has done
  any subset of its work.
* Documents have no `expires_at`, and the expiry a login gives to a user's bots
  is left out; registry entries are present. The clocks of the services agree
  to within a tick.
* A process killed in the middle of a write has or has not done it; a request
  whose answer is lost counts as ended.
* After a fault of the unsubscribe request its handler does not go on.
* The dry run (`SmtpServer = FALSE`) of the digest and of the welcome is covered by
  the theorems other than `Implements`, not by a run: nothing is mailed in it, and
  `WelcomeArrives` asks for a server.
* The last command of the indexes plugin, about `sessions`, comes after those of
  notifications and is left out.
* One frontend starts at a time, as `Startup` has one set of plugins.
* What the backfill stores first is new to no cycle: nobody is told of it, by
  its design.
* The import adds to the filters already in the form; `PastedUrl` begins with
  an empty one.

## Not modelled

* Cryptography of the unsubscribe token and of passwords; HTML and JSON parsing;
  rendering and sanitising text; polygons and distances in floating point; search
  suggestions; telemetry and manifests. Nothing here has a state or an order.
* Pages that only read and draw: store, statistics, the map. The user menu's own state,
  with the logout whose failure it swallows; what the refused request leaves is in `Accounts`.
* `dump-regions.ts`, run by hand to make the seed.
* `BotLifecycle` and `NotifyPipeline` in one composition. The pipeline's
  `SetActive` and `SetOptedIn` may happen at any time, so it has every
  interleaving the real writers produce, and the number of requests in flight would
  multiply its states for no property that relates both.

## What could follow

`Accounts` with two browsers in a run, for which its states must first be halved
(the proofs cover any number); the filter of the inbox by module; abstract
specifications of the components beside the pipeline, as `DigestDelivery` is one
for it.
