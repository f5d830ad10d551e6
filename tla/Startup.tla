------------------------------ MODULE Startup ------------------------------
(***************************************************************************)
(* The processes start in any order, over data an older version left: the   *)
(* frontend drops the notifications collection when it finds the legacy     *)
(* index, and in a second plugin, not ordered after the first, makes the     *)
(* indexes of users and module_registry and then, if nothing failed, puts    *)
(* those of notifications right; every bot service makes the unique index of *)
(* notifications too; bot-bezrealitky drops its own collections once.  A     *)
(* process that fails at its start is started again, the frontend is not:    *)
(* it goes on without the plugin that failed.                                *)
(***************************************************************************)
EXTENDS Naturals, FiniteSets

CONSTANTS Processes,     \* those that start, besides the frontend
          DialAttempts,  \* attempts of dialRabbitMQ before its deadline
          Restarts       \* bound: processes and brokers killed, database errors in a plugin

ASSUME StartupAssumption ==
    /\ Processes \subseteq {"bazos", "bezrealitky", "sreality", "notifier"}
    /\ DialAttempts \in Nat \ {0}

VARIABLES
    indexes,   \* of the notifications collection, but for _id_
    doubled,   \* old rows that the unique index forbids
    raced,     \* history: the unique index was dropped with the collection
    migrating, \* plugin 0-notifications-migrate: "off", "look", "drop", "done",
               \* or "refused", ended by an error
    indexing,  \* plugin indexes: "off", "first", "look", "fix", "create", "done",
               \* "failed" at notifications, or "refused", ended before its work
    saw,       \* the indexes ensureIndexes listed
    svc,       \* what each of the other processes does: "off" ... "up"
    dials,     \* failed attempts of the notifier, while it dials
    version,   \* schema version in bezrealitky_meta
    broker, restarts

startVars == <<indexes, doubled, raced, migrating, indexing, saw, svc, dials,
               version, broker, restarts>>

notifVars == <<indexes, doubled, raced>>
pluginVars == <<migrating, indexing, saw>>

Services == Processes \ {"notifier"}

StartInit ==
    /\ indexes \in (SUBSET {"legacy", "auto"}) \cup {{"unique"}}
    /\ doubled \in BOOLEAN /\ (doubled => "legacy" \in indexes)
    /\ raced = FALSE
    /\ migrating = "off" /\ indexing = "off" /\ saw = {}
    /\ svc = [p \in Processes |-> "off"] /\ dials = 0
    /\ version \in {"old", "new"}
    /\ broker \in {"up", "down"} /\ restarts = 0

-----------------------------------------------------------------------------
\* Nitro starts its plugins one after the other and awaits none.
StartFrontend ==
    /\ migrating = "off" /\ indexing = "off"
    /\ migrating' = "look" /\ indexing' = "first" /\ saw' = {}
    /\ UNCHANGED <<notifVars, svc, dials, version, broker, restarts>>

HasLegacy == "legacy" \in indexes

LookForLegacy ==
    /\ migrating = "look"
    /\ migrating' = IF HasLegacy THEN "drop" ELSE "done"
    /\ UNCHANGED <<notifVars, indexing, saw, svc, dials, version, broker, restarts>>

\* The indexes go with the collection.
DropNotifications ==
    /\ migrating = "drop"
    /\ indexes' = {} /\ doubled' = FALSE
    /\ raced' = (raced \/ "unique" \in indexes)
    /\ migrating' = "done"
    /\ UNCHANGED <<indexing, saw, svc, dials, version, broker, restarts>>

\* email_unique, then bot_id_unique.  Rows they forbid, which accounts made
\* before there was an index may be, end the plugin before it comes to
\* notifications.
FirstIndexes ==
    /\ indexing = "first"
    /\ indexing' \in {"look", "refused"}
    /\ UNCHANGED <<notifVars, migrating, saw, svc, dials, version, broker, restarts>>

ListIndexes ==
    /\ indexing = "look"
    /\ saw' = indexes /\ indexing' = "fix"
    /\ UNCHANGED <<notifVars, migrating, svc, dials, version, broker, restarts>>

\* Mutant: indexes of other names are left alone.
NoForeign == {}

\* Same key as a desired index, another name.
Foreign == saw \cap {"auto"}

\* dropIndex throws when the index went in the meantime; the plugin ends, the
\* frontend goes on.
FixIndexes ==
    /\ indexing = "fix"
    /\ indexes' = indexes \ Foreign
    /\ indexing' = IF Foreign \subseteq indexes THEN "create" ELSE "failed"
    /\ UNCHANGED <<doubled, raced, migrating, saw, svc, dials, version, broker, restarts>>

\* An index of the same key and another name, or rows that are not unique.
Conflict == "auto" \in indexes \/ doubled

\* Mutant: the index is made without its name.
Unnamed == indexes \cup {"auto"}

Indexed == indexes \cup {"unique"}

CreateIndexes ==
    /\ indexing = "create"
    /\ indexing' = IF Conflict THEN "failed" ELSE "done"
    /\ indexes' = IF Conflict THEN indexes ELSE Indexed
    /\ UNCHANGED <<doubled, raced, migrating, saw, svc, dials, version, broker, restarts>>

-----------------------------------------------------------------------------
\* main of the bot services.  bot-bazos makes its indexes before it migrates,
\* bot-bezrealitky after; mongoose makes them whenever it is connected.
Begins(p) == CASE p = "bezrealitky" -> "migrate" [] p = "notifier" -> "dial" [] OTHER -> "index"

StartProcess(p) ==
    /\ svc[p] = "off"
    /\ svc' = [svc EXCEPT ![p] = Begins(p)]
    /\ UNCHANGED <<notifVars, pluginVars, dials, version, broker, restarts>>

Current == version = "new"

\* migrate of bot-bezrealitky: its own three collections, then the version.
MigrateOnce ==
    /\ "bezrealitky" \in Services /\ svc["bezrealitky"] = "migrate"
    /\ svc' = [svc EXCEPT !["bezrealitky"] = IF Current THEN "index" ELSE "version"]
    /\ UNCHANGED <<notifVars, pluginVars, dials, version, broker, restarts>>

WriteVersion ==
    /\ "bezrealitky" \in Services /\ svc["bezrealitky"] = "version"
    /\ version' = "new" /\ svc' = [svc EXCEPT !["bezrealitky"] = "index"]
    /\ UNCHANGED <<notifVars, pluginVars, dials, broker, restarts>>

\* ensure_indexes raises and ends the process; mongoose only reports.
EnsureIndexes(p) ==
    /\ svc[p] = "index"
    /\ indexes' = IF Conflict THEN indexes ELSE Indexed
    /\ svc' = [svc EXCEPT ![p] = IF p = "sreality" THEN "up" ELSE IF Conflict THEN "off" ELSE "connect"]
    /\ UNCHANGED <<doubled, raced, pluginVars, dials, version, broker, restarts>>

\* After the seed and upsert_registry: connect_robust, the schedule, the API.
Connect(p) ==
    /\ svc[p] = "connect"
    /\ svc' = [svc EXCEPT ![p] = IF broker = "up" THEN "up" ELSE "off"]
    /\ UNCHANGED <<notifVars, pluginVars, dials, version, broker, restarts>>

\* dialRabbitMQ, until its deadline.
Dial ==
    /\ svc["notifier"] = "dial"
    /\ IF broker = "up" THEN svc' = [svc EXCEPT !["notifier"] = "up"] /\ dials' = 0
       ELSE IF dials + 1 = DialAttempts
       THEN svc' = [svc EXCEPT !["notifier"] = "off"] /\ dials' = 0
       ELSE dials' = dials + 1 /\ UNCHANGED svc
    /\ UNCHANGED <<notifVars, pluginVars, version, broker, restarts>>

-----------------------------------------------------------------------------
Killed == restarts < Restarts /\ restarts' = restarts + 1

KillProcess(p) ==
    /\ svc[p] # "off" /\ Killed
    /\ svc' = [svc EXCEPT ![p] = "off"]
    /\ dials' = IF p = "notifier" THEN 0 ELSE dials
    /\ UNCHANGED <<notifVars, pluginVars, version, broker>>

\* The database fails a command of a plugin; nothing runs that plugin again.
MigrationRefused ==
    /\ migrating \in {"look", "drop"} /\ Killed
    /\ migrating' = "refused"
    /\ UNCHANGED <<notifVars, indexing, saw, svc, dials, version, broker>>

IndexingRefused ==
    /\ indexing \in {"first", "look", "fix", "create"} /\ Killed
    /\ indexing' = "refused"
    /\ UNCHANGED <<notifVars, migrating, saw, svc, dials, version, broker>>

KillFrontend ==
    /\ migrating # "off" /\ Killed
    /\ migrating' = "off" /\ indexing' = "off" /\ saw' = {}
    /\ UNCHANGED <<notifVars, svc, dials, version, broker>>

\* The notifier ends with its connection; the others reconnect or do not mind.
BrokerFails ==
    /\ broker = "up" /\ Killed
    /\ broker' = "down"
    /\ svc' = [svc EXCEPT !["notifier"] = IF @ = "up" THEN "off" ELSE @]
    /\ UNCHANGED <<notifVars, pluginVars, dials, version>>

BrokerReturns ==
    /\ broker = "down" /\ broker' = "up"
    /\ UNCHANGED <<notifVars, pluginVars, svc, dials, version, restarts>>

FrontendStep == StartFrontend \/ LookForLegacy \/ DropNotifications
IndexStep == FirstIndexes \/ ListIndexes \/ FixIndexes \/ CreateIndexes
ProcessStep(p) ==
    \/ StartProcess(p) \/ EnsureIndexes(p) \/ Connect(p)
    \/ p = "notifier" /\ Dial
    \/ p = "bezrealitky" /\ (MigrateOnce \/ WriteVersion)

StartNext ==
    \/ FrontendStep \/ IndexStep \/ MigrationRefused \/ IndexingRefused \/ KillFrontend
    \/ BrokerFails \/ BrokerReturns
    \/ \E p \in Processes : ProcessStep(p) \/ KillProcess(p)

StartSpec == StartInit /\ [][StartNext]_startVars

-----------------------------------------------------------------------------
\* A plugin was ended before its work, by accounts that break the index of
\* users or by an error of the database, and what it had to put right is there.
Abandoned == "refused" \in {migrating, indexing} /\ Conflict

\* In whatever order the processes start, over whatever notifications and
\* indexes, every one of them comes up in the end: a service whose index is
\* refused is restarted until the frontend has put the collection right.  Only
\* where the plugin that does so was ended before it got there do bot-bazos
\* and bot-bezrealitky restart for ever; a conflict the plugin did look at is
\* no excuse, and neither bot-sreality nor the notifier is ever held up.
EveryoneComesUp ==
    \A p \in Processes :
        (svc[p] # "up") ~> (svc[p] = "up" \/ (p \in Services \ {"sreality"} /\ Abandoned))

\* The unique index is there in the end, unless it was made before the
\* migration dropped the collection under it, or the plugin that clears the
\* way for it was ended before its work.
UniqueInTheEnd == <>[]("unique" \in indexes \/ raced \/ Abandoned)
=============================================================================
