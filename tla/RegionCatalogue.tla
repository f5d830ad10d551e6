-------------------------- MODULE RegionCatalogue --------------------------
(***************************************************************************)
(* The catalogue of regions a bot service keeps: seeded when the service    *)
(* starts, completed from Nominatim while requests are served.  bot-sreality*)
(* sends its requests one after the other through a promise chain that      *)
(* keeps a distance between them; bot-bezrealitky sends them as they come;  *)
(* bot-bazos has only what it seeded.                                       *)
(***************************************************************************)
EXTENDS Naturals, Sequences, FiniteSets

CONSTANTS Regions, Shipped,  \* regions asked for; those of the seed
          Streets,           \* regions that have no polygon
          Asks,              \* concurrent requests of the configuration form
          MinInterval,       \* ticks of minIntervalMs
          GeoFaults          \* bound on crashes and failing requests

ASSUME RegionAssumption ==
    Shipped \subseteq Regions /\ Streets \subseteq Regions /\ MinInterval \in Nat

VARIABLES
    catalogue,   \* which service, and its GEO_SEED_MODE
    region,      \* the collection: absent, centre or polygon
    serving,     \* "down", "seeding" or "up"
    seeded,      \* the rows the running bulk write has done
    torn,        \* history: a seed was interrupted
    ask, about,  \* what each request does, and for which region
    gate,        \* the requests chained on the gate, the first one's turn
    lastCallAt,  \* ticks since the field was set, at most MinInterval
    quiet,       \* history: ticks since a request to Nominatim ended
    geoFaults

regionVars == <<catalogue, region, serving, seeded, torn, ask, about, gate,
                lastCallAt, quiet, geoFaults>>

Gated == catalogue.of = "sreality"
NobodyAsks == [c \in Asks |-> "idle"]

RegionInit ==
    /\ catalogue \in {[of |-> "sreality", mode |-> "missing"]}
                     \cup [of : {"bazos", "bezrealitky"}, mode : {"missing", "always", "never"}]
    /\ region = [r \in Regions |-> "absent"]
    /\ serving = "down" /\ seeded = {} /\ torn = FALSE
    /\ ask = NobodyAsks /\ about \in [Asks -> {CHOOSE r \in Regions : TRUE}]
    /\ gate = <<>> /\ lastCallAt = MinInterval /\ quiet = MinInterval /\ geoFaults = 0

-----------------------------------------------------------------------------
Empty == \A r \in Regions : region[r] = "absent"

\* seed_if_needed.
Seeds == catalogue.mode = "always" \/ (catalogue.mode = "missing" /\ Empty)

Start ==
    /\ serving = "down"
    /\ serving' = IF Seeds THEN "seeding" ELSE "up"
    /\ seeded' = {}
    /\ UNCHANGED <<catalogue, region, torn, ask, about, gate, lastCallAt, quiet, geoFaults>>

\* The rows of the seed hold a polygon only in bezrealitky_geo; $set leaves the
\* geometry of a row of sreality_geo alone.
Row(r) == IF catalogue.of = "bezrealitky" THEN "polygon"
          ELSE IF region[r] = "absent" THEN "centre" ELSE region[r]

SeedRow(r) ==
    /\ serving = "seeding" /\ r \in Shipped \ seeded
    /\ region' = [region EXCEPT ![r] = Row(r)]
    /\ seeded' = seeded \cup {r}
    /\ UNCHANGED <<catalogue, serving, torn, ask, about, gate, lastCallAt, quiet, geoFaults>>

\* Mutant: the bulk write is not awaited.
NotAwaited == TRUE

SeedDone == Shipped \subseteq seeded

Listen ==
    /\ serving = "seeding" /\ SeedDone
    /\ serving' = "up"
    /\ UNCHANGED <<catalogue, region, seeded, torn, ask, about, gate, lastCallAt, quiet, geoFaults>>

GeoFault == geoFaults < GeoFaults /\ geoFaults' = geoFaults + 1

\* The process is replaced; its requests are gone with it, their last one no
\* longer counts for the new process.
Crash ==
    /\ serving # "down" /\ GeoFault
    /\ serving' = "down" /\ torn' = (torn \/ serving = "seeding")
    /\ ask' = NobodyAsks /\ gate' = <<>> /\ lastCallAt' = MinInterval /\ quiet' = MinInterval
    /\ UNCHANGED <<catalogue, region, seeded, about>>

-----------------------------------------------------------------------------
\* ensureResolved and resolve_or_fetch answer from the collection when they
\* can; a region bot-sreality or bot-bazos does not have is an error.
Held(r) == IF Gated THEN region[r] = "polygon" \/ r \in Streets
            ELSE region[r] # "absent"
Answerable(r) == Held(r) \/ catalogue.of = "bazos" \/ (Gated /\ region[r] = "absent")

Resolve(c, r) ==
    /\ serving = "up" /\ ask[c] = "idle" /\ ~Answerable(r)
    /\ about' = [about EXCEPT ![c] = r]
    /\ IF Gated
       THEN gate' = Append(gate, c) /\ ask' = [ask EXCEPT ![c] = "queued"]
       ELSE ask' = [ask EXCEPT ![c] = "sent"] /\ UNCHANGED gate
    /\ UNCHANGED <<catalogue, region, serving, seeded, torn, lastCallAt, quiet, geoFaults>>

GeoTick ==
    /\ quiet < MinInterval \/ lastCallAt < MinInterval
    /\ quiet' = IF quiet < MinInterval THEN quiet + 1 ELSE quiet
    /\ lastCallAt' = IF lastCallAt < MinInterval THEN lastCallAt + 1 ELSE lastCallAt
    /\ UNCHANGED <<catalogue, region, serving, seeded, torn, ask, about, gate, geoFaults>>

Send(c) ==
    /\ gate # <<>> /\ c = Head(gate) /\ ask[c] = "queued"
    /\ lastCallAt = MinInterval
    /\ ask' = [ask EXCEPT ![c] = "sent"]
    /\ UNCHANGED <<catalogue, region, serving, seeded, torn, about, gate, lastCallAt, quiet, geoFaults>>

\* Mutant: a rejection stays on the chain and ends whoever waits there.
Rejected(answered) == IF answered THEN Tail(gate) ELSE <<>>
\* Mutant: lastCallAt is set after an answer only.
OnlyAnswers(answered) == IF answered THEN 0 ELSE lastCallAt

Chained(answered) == Tail(gate)
CallAt(answered) == 0

\* What the finally and the catch of throttle do.
RequestEnds(answered) ==
    /\ gate' = IF gate = <<>> THEN gate ELSE Chained(answered)
    /\ lastCallAt' = CallAt(answered) /\ quiet' = 0

Answer(c) ==
    /\ ask[c] = "sent"
    /\ RequestEnds(TRUE)
    /\ \E kind \in {"polygon", "centre"} : ask' = [ask EXCEPT ![c] = kind]
    /\ UNCHANGED <<catalogue, region, serving, seeded, torn, about, geoFaults>>

\* The request fails, or Nominatim has no such relation.
NoAnswer(c) ==
    /\ ask[c] = "sent" /\ GeoFault
    /\ RequestEnds(FALSE)
    /\ ask' = [ask EXCEPT ![c] = "idle"]
    /\ UNCHANGED <<catalogue, region, serving, seeded, torn, about>>

WithGeometry(r, kind) == IF region[r] = "polygon" THEN "polygon" ELSE kind

StoreRegion(c) ==
    /\ ask[c] \in {"polygon", "centre"}
    /\ region' = [region EXCEPT ![about[c]] = WithGeometry(about[c], ask[c])]
    /\ ask' = [ask EXCEPT ![c] = "idle"]
    /\ UNCHANGED <<catalogue, serving, seeded, torn, about, gate, lastCallAt, quiet, geoFaults>>

Serve == \/ Start \/ Listen \/ GeoTick
         \/ \E r \in Regions : SeedRow(r)
         \/ \E c \in Asks : Send(c) \/ Answer(c) \/ StoreRegion(c)

RegionNext ==
    \/ Serve \/ Crash
    \/ \E c \in Asks : NoAnswer(c) \/ \E r \in Regions : Resolve(c, r)

RegionSpec == RegionInit /\ [][RegionNext]_regionVars

-----------------------------------------------------------------------------
\* bot-sreality has one request at Nominatim at a time, and starts it only when
\* minIntervalMs have gone by since the previous one ended, well or badly.
SpacedOut ==
    Gated => \A c \in Asks : ask[c] = "sent"
                    => quiet = MinInterval /\ \A d \in Asks \ {c} : ask[d] # "sent"

\* A failing request is its caller's affair: whoever waits behind it on the
\* gate is served all the same.
EveryAskEnds == \A c \in Asks : ask[c] # "idle" ~> ask[c] = "idle"

\* A service listens only with the whole seed in its catalogue, unless it was
\* told never to seed, or a seed was interrupted once and the mode leaves it at
\* that.
HolesComeFromCrashes ==
    serving = "up" /\ (\E r \in Shipped : region[r] = "absent")
        => catalogue.mode = "never" \/ (torn /\ catalogue.mode = "missing")
=============================================================================
