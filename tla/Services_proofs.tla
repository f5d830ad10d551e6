--------------------------- MODULE Services_proofs ---------------------------
(***************************************************************************)
(* Proofs about four parts of the bot services: RegionCatalogue, for any    *)
(* regions, any seed, any number of concurrent requests and any distance    *)
(* between two calls of Nominatim; Welcome, for any bots, any number of     *)
(* concurrent saves and of failures; FetchListings, for any ads, any size   *)
(* of a page and any number of pages, posts and withdrawals; and Startup,   *)
(* for any of the processes and any number of restarts.                     *)
(***************************************************************************)
EXTENDS RegionCatalogue, Welcome, FetchListings, Startup,
        SequenceTheorems, FiniteSetTheorems, TLAPS


RegionType ==
    /\ catalogue \in [of : {"sreality", "bazos", "bezrealitky"}, mode : {"missing", "always", "never"}]
    /\ region \in [Regions -> {"absent", "centre", "polygon"}]
    /\ serving \in {"down", "seeding", "up"}
    /\ seeded \subseteq Regions
    /\ torn \in BOOLEAN
    /\ ask \in [Asks -> {"idle", "queued", "sent", "polygon", "centre"}]
    /\ gate \in Seq(Asks)
    /\ lastCallAt \in 0..MinInterval /\ quiet = lastCallAt

LEMMA RegionTypeInit == RegionInit => RegionType
<1> SUFFICES ASSUME RegionInit PROVE RegionType
    OBVIOUS
<1>1. MinInterval \in 0..MinInterval
    BY RegionAssumption
<1>2. gate \in Seq(Asks)
    BY EmptySeq DEF RegionInit
<1>3. catalogue \in [of : {"sreality", "bazos", "bezrealitky"}, mode : {"missing", "always", "never"}]
    BY DEF RegionInit
<1>4. QED
    BY <1>1, <1>2, <1>3 DEF RegionInit, RegionType, NobodyAsks

LEMMA RegionTypeStep == RegionType /\ [RegionNext]_regionVars => RegionType'
<1> SUFFICES ASSUME RegionType, [RegionNext]_regionVars PROVE RegionType'
    OBVIOUS
<1> USE RegionAssumption DEF RegionType
<1>1. CASE Start \/ Listen
    BY <1>1 DEF Start, Listen
<1>1a. CASE Crash
    <2>1. gate' \in Seq(Asks)
        BY <1>1a, EmptySeq DEF Crash
    <2>2. MinInterval \in 0..MinInterval
        OBVIOUS
    <2>3. QED
        BY <1>1a, <2>1, <2>2 DEF Crash, NobodyAsks
<1>2. CASE GeoTick
    BY <1>2 DEF GeoTick
<1>3. ASSUME NEW r \in Regions, SeedRow(r) PROVE RegionType'
    BY <1>3 DEF SeedRow, Row
<1>4. ASSUME NEW c \in Asks, Send(c) PROVE RegionType'
    BY <1>4 DEF Send
<1>5. ASSUME NEW c \in Asks, Answer(c) \/ NoAnswer(c) PROVE RegionType'
    <2>1. gate' \in Seq(Asks)
        <3>1. gate' = gate \/ (gate # <<>> /\ gate' = Tail(gate))
            <4>1. gate' = IF gate = <<>> THEN gate ELSE Tail(gate)
                BY <1>5 DEF Answer, NoAnswer, RequestEnds, Chained
            <4>2. QED
                BY <4>1
        <3>2. ASSUME gate # <<>> PROVE Tail(gate) \in Seq(Asks)
            BY <3>2, HeadTailProperties
        <3>3. QED
            BY <3>1, <3>2
    <2>2. lastCallAt' = 0 /\ quiet' = 0
        BY <1>5 DEF Answer, NoAnswer, RequestEnds, CallAt
    <2>3. ask' \in [Asks -> {"idle", "queued", "sent", "polygon", "centre"}]
        BY <1>5 DEF Answer, NoAnswer
    <2>4. 0 \in 0..MinInterval
        OBVIOUS
    <2>5. UNCHANGED <<catalogue, region, serving, seeded, torn>>
        BY <1>5 DEF Answer, NoAnswer
    <2>6. QED
        BY <2>1, <2>2, <2>3, <2>4, <2>5
<1>6. ASSUME NEW c \in Asks, StoreRegion(c) PROVE RegionType'
    BY <1>6 DEF StoreRegion, WithGeometry
<1>7. ASSUME NEW c \in Asks, NEW r \in Regions, Resolve(c, r) PROVE RegionType'
    <2>1. gate' = gate \/ gate' = Append(gate, c)
        BY <1>7 DEF Resolve
    <2>2. gate' \in Seq(Asks)
        BY <2>1, AppendProperties
    <2>3. QED
        BY <1>7, <2>2 DEF Resolve
<1>8. CASE UNCHANGED regionVars
    BY <1>8 DEF regionVars
<1>9. QED
    BY <1>1, <1>2, <1>3, <1>4, <1>5, <1>6, <1>7, <1>8, <1>1a DEF RegionNext, Serve
-----------------------------------------------------------------------------
(* Of bot-sreality's requests only the first of the chain is at Nominatim,  *)
(* and it was sent when the distance had gone by.                           *)
HeadIsSent ==
    Gated => \A c \in Asks : ask[c] = "sent" =>
                gate # <<>> /\ c = Head(gate) /\ quiet = MinInterval

GateInv == RegionType /\ HeadIsSent

LEMMA GateStep == GateInv /\ [RegionNext]_regionVars => HeadIsSent'
<1> SUFFICES ASSUME GateInv, [RegionNext]_regionVars, Gated,
                    NEW c \in Asks, ask'[c] = "sent"
             PROVE  gate' # <<>> /\ c = Head(gate') /\ quiet' = MinInterval
    BY DEF HeadIsSent, Gated, RegionNext, Serve, Start, Listen, Crash, GeoTick, SeedRow,
           Send, Answer, NoAnswer, StoreRegion, Resolve, regionVars
<1> USE DEF GateInv, RegionType, HeadIsSent
<1>1. CASE Start \/ Listen
    BY <1>1 DEF Start, Listen
<1>2. CASE Crash
    BY <1>2 DEF Crash, NobodyAsks
<1>3. CASE GeoTick
    BY <1>3 DEF GeoTick
<1>4. ASSUME NEW r \in Regions, SeedRow(r) PROVE gate' # <<>> /\ c = Head(gate') /\ quiet' = MinInterval
    BY <1>4 DEF SeedRow
<1>5. ASSUME NEW d \in Asks, Send(d) PROVE gate' # <<>> /\ c = Head(gate') /\ quiet' = MinInterval
    <2>1. c = d \/ ask[c] = "sent"
        BY <1>5 DEF Send
    <2>2. QED
        BY <1>5, <2>1 DEF Send
(* The one that was at Nominatim has its answer, and no other was there.    *)
<1>6. ASSUME NEW d \in Asks, Answer(d) \/ NoAnswer(d) PROVE FALSE
    <2>1. ask[d] = "sent" /\ ask'[d] # "sent" /\ \A a \in Asks \ {d} : ask'[a] = ask[a]
        BY <1>6 DEF Answer, NoAnswer
    <2>2. ask[c] = "sent" /\ c # d
        BY <2>1
    <2>3. QED
        BY <2>1, <2>2
<1>7. ASSUME NEW d \in Asks, StoreRegion(d)
      PROVE  gate' # <<>> /\ c = Head(gate') /\ quiet' = MinInterval
    BY <1>7 DEF StoreRegion
<1>8. ASSUME NEW d \in Asks, NEW r \in Regions, Resolve(d, r)
      PROVE  gate' # <<>> /\ c = Head(gate') /\ quiet' = MinInterval
    <2>1. gate' = Append(gate, d) /\ ask[c] = "sent" /\ quiet' = quiet
        BY <1>8 DEF Resolve
    <2>2. gate # <<>> /\ c = Head(gate) /\ quiet = MinInterval
        BY <2>1
    <2>3. QED
        BY <2>1, <2>2
<1>9. CASE UNCHANGED regionVars
    BY <1>9 DEF regionVars
<1>10. QED
    BY <1>1, <1>2, <1>3, <1>4, <1>5, <1>6, <1>7, <1>8, <1>9 DEF RegionNext, Serve

LEMMA GateInvariant == RegionSpec => []GateInv
<1>1. RegionInit => GateInv
    BY RegionTypeInit DEF GateInv, HeadIsSent, RegionInit, NobodyAsks
<1>2. GateInv /\ [RegionNext]_regionVars => GateInv'
    BY RegionTypeStep, GateStep DEF GateInv
<1>3. QED
    BY <1>1, <1>2, PTL DEF RegionSpec

(* bot-sreality has one request at Nominatim at a time, and starts it only  *)
(* when minIntervalMs have gone by since the previous one ended, however    *)
(* many requests are chained and whichever of them fail.                    *)
THEOREM KeepsDistance == RegionSpec => []SpacedOut
<1>1. GateInv => SpacedOut
    BY DEF GateInv, HeadIsSent, SpacedOut
<1>2. QED
    BY <1>1, GateInvariant, PTL
-----------------------------------------------------------------------------
Whole == \A r \in Shipped : region[r] # "absent"

(* What is seeded stays; what is not down has looked at an empty or a whole *)
(* catalogue, unless a seed was interrupted or the mode forbids one.        *)
SeedInv ==
    /\ serving = "down" => \A c \in Asks : ask[c] = "idle"
    /\ serving = "down" /\ ~torn /\ catalogue.mode # "never" => Empty \/ Whole
    /\ serving = "seeding" => \A r \in seeded : region[r] # "absent"
    /\ serving = "up" => Whole \/ catalogue.mode = "never" \/ (torn /\ catalogue.mode = "missing")

LEMMA SeedStep == RegionType /\ SeedInv /\ [RegionNext]_regionVars => SeedInv'
<1> SUFFICES ASSUME RegionType, SeedInv, [RegionNext]_regionVars PROVE SeedInv'
    OBVIOUS
<1> USE RegionAssumption DEF RegionType, SeedInv
<1>1. CASE Start
    BY <1>1 DEF Start, Seeds, Whole, Empty
<1>2. CASE Listen
    BY <1>2 DEF Listen, SeedDone, Whole
<1>3. CASE Crash
    BY <1>3 DEF Crash, NobodyAsks, Whole, Empty
<1>4. CASE GeoTick
    BY <1>4 DEF GeoTick, Whole, Empty
<1>5. ASSUME NEW r \in Regions, SeedRow(r) PROVE SeedInv'
    <2>1. \A q \in Regions : region'[q] = IF q = r THEN Row(r) ELSE region[q]
        BY <1>5 DEF SeedRow
    <2>2. Row(r) # "absent"
        BY DEF Row
    <2>3. /\ serving = "seeding" /\ seeded' = seeded \cup {r}
          /\ UNCHANGED <<catalogue, serving, torn, ask>>
        BY <1>5 DEF SeedRow
    <2>4. QED
        BY <2>1, <2>2, <2>3
<1>6. ASSUME NEW c \in Asks, Send(c) \/ Answer(c) \/ NoAnswer(c) PROVE SeedInv'
    BY <1>6 DEF Send, Answer, NoAnswer, Whole, Empty
<1>7. ASSUME NEW c \in Asks, StoreRegion(c) PROVE SeedInv'
    <2>1. serving # "down" /\ UNCHANGED <<serving, seeded, torn, catalogue>>
        BY <1>7 DEF StoreRegion
    <2>2. WithGeometry(about[c], ask[c]) # "absent"
        BY <1>7 DEF StoreRegion, WithGeometry
    <2>3. \A q \in Regions : region[q] # "absent" => region'[q] # "absent"
        BY <1>7, <2>2 DEF StoreRegion
    <2>4. QED
        BY <2>1, <2>3 DEF Whole
<1>8. ASSUME NEW c \in Asks, NEW r \in Regions, Resolve(c, r) PROVE SeedInv'
    BY <1>8 DEF Resolve, Whole, Empty
<1>9. CASE UNCHANGED regionVars
    BY <1>9 DEF regionVars, Whole, Empty
<1>10. QED
    BY <1>1, <1>2, <1>3, <1>4, <1>5, <1>6, <1>7, <1>8, <1>9 DEF RegionNext, Serve

(* A service that listens has the whole seed in its catalogue; if it has    *)
(* not, GEO_SEED_MODE forbids the seed, or a seed was interrupted and the    *)
(* mode leaves it at that.                                                   *)
THEOREM SeededBeforeServing == RegionSpec => []HolesComeFromCrashes
<1>1. RegionInit => RegionType /\ SeedInv
    BY RegionTypeInit DEF RegionInit, SeedInv, NobodyAsks, Empty
<1>2. RegionType /\ SeedInv /\ [RegionNext]_regionVars => RegionType' /\ SeedInv'
    BY RegionTypeStep, SeedStep
<1>3. RegionType /\ SeedInv => HolesComeFromCrashes
    BY DEF SeedInv, Whole, HolesComeFromCrashes
<1>4. QED
    BY <1>1, <1>2, <1>3, PTL DEF RegionSpec
-----------------------------------------------------------------------------
Requests == [step : {"none", "write", "emit", "mark"}, cfg : Bots \cup {"none"}]

WelcomeType ==
    /\ save \in [Saves -> Requests]
    /\ \A s \in Saves : save[s].step # "none" => save[s].cfg \in Bots
    /\ notifier.step \in {"down", "idle", "send", "ack"}
    /\ notifier.step \in {"send", "ack"} => notifier.cfg \in Bots
    /\ created \in [Bots -> Nat] /\ published \in [Bots -> Nat]
    /\ waiting \in [Bots -> Nat] /\ mailed \in [Bots -> Nat]
    /\ trouble \in Nat

Emitters(b) == {s \in Saves : save[s] = At("emit", b)}

(* Each creation has one request that publishes.                            *)
PublishInv ==
    \A b \in Bots : published[b] + Cardinality(Emitters(b)) <= created[b]

(* An event is in the queue until it is acknowledged.                       *)
InHand(b) == IF notifier.step = "ack" /\ notifier.cfg = b THEN 1 ELSE 0

MailInv ==
    /\ notifier.step \in {"send", "ack"} => waiting[notifier.cfg] > 0
    /\ \A b \in Bots : mailed[b] + waiting[b] <= published[b] + trouble + InHand(b)

WelcomeInv == WelcomeType /\ PublishInv /\ MailInv

LEMMA EmittersFinite ==
    \A b \in Bots : IsFiniteSet(Emitters(b)) /\ Cardinality(Emitters(b)) \in Nat
<1>1. SUFFICES ASSUME NEW b \in Bots
               PROVE  IsFiniteSet(Emitters(b)) /\ Cardinality(Emitters(b)) \in Nat
    OBVIOUS
<1>2. Emitters(b) \subseteq Saves
    BY DEF Emitters
<1>3. IsFiniteSet(Emitters(b))
    BY <1>2, SavesAssumption, FS_Subset
<1>4. QED
    BY <1>3, FS_CardinalityType

(* What a request does to its own part of the count.                        *)
LEMMA RequestMoves ==
    ASSUME WelcomeType, NEW s \in Saves, NEW q \in Requests, save' = [save EXCEPT ![s] = q],
           NEW b \in Bots
    PROVE  /\ Emitters(b)' = IF q = At("emit", b) THEN Emitters(b) \cup {s}
                             ELSE Emitters(b) \ {s}
           /\ Cardinality(Emitters(b))' \in Nat
           /\ Cardinality(Emitters(b))'
                <= Cardinality(Emitters(b)) + (IF q = At("emit", b) THEN 1 ELSE 0)
           /\ q # At("emit", b) /\ save[s] = At("emit", b)
                => Cardinality(Emitters(b))' = Cardinality(Emitters(b)) - 1
<1>1. Emitters(b)' = IF q = At("emit", b) THEN Emitters(b) \cup {s}
                     ELSE Emitters(b) \ {s}
    BY DEF WelcomeType, Emitters
<1>2. IsFiniteSet(Emitters(b)) /\ Cardinality(Emitters(b)) \in Nat
    BY EmittersFinite
<1>3. CASE q = At("emit", b)
    <2>1. /\ IsFiniteSet(Emitters(b) \cup {s})
          /\ Cardinality(Emitters(b) \cup {s}) =
               IF s \in Emitters(b) THEN Cardinality(Emitters(b))
               ELSE Cardinality(Emitters(b)) + 1
        BY <1>2, FS_AddElement
    <2>2. Cardinality(Emitters(b))' = Cardinality(Emitters(b) \cup {s})
        BY <1>1, <1>3
    <2>3. /\ Cardinality(Emitters(b))' \in Nat
          /\ Cardinality(Emitters(b))' <= Cardinality(Emitters(b)) + 1
        BY <1>2, <2>1, <2>2
    <2>4. QED
        BY <1>1, <1>3, <2>3
<1>4. CASE q # At("emit", b)
    <2>1. Cardinality(Emitters(b) \ {s}) =
            IF s \in Emitters(b) THEN Cardinality(Emitters(b)) - 1
            ELSE Cardinality(Emitters(b))
        BY <1>2, FS_RemoveElement
    <2>2. IsFiniteSet(Emitters(b) \ {s}) /\ Cardinality(Emitters(b) \ {s}) \in Nat
        BY <1>2, FS_Subset, FS_CardinalityType
    <2>3. save[s] = At("emit", b) => s \in Emitters(b)
        BY DEF Emitters
    <2>4. QED
        BY <1>1, <1>2, <1>4, <2>1, <2>2, <2>3
<1>5. QED
    BY <1>3, <1>4, <1>1

LEMMA AtRequests ==
    /\ NoSave \in Requests
    /\ \A b \in Bots : At("write", b) \in Requests /\ At("emit", b) \in Requests
                       /\ At("mark", b) \in Requests
    /\ \A b, c : /\ At("write", b) # At("emit", c) /\ At("mark", b) # At("emit", c)
                 /\ NoSave # At("emit", c)
                 /\ At("emit", b) = At("emit", c) => b = c
    /\ \A step, b : At(step, b).step = step /\ At(step, b).cfg = b
    /\ NoSave.step = "none"
BY DEF NoSave, At, Requests

(* The dashboard's steps, and failures of them, touch neither.              *)
LEMMA PageKeeps ==
    ASSUME WelcomeInv, trouble' \in {trouble, trouble + 1},
           UNCHANGED <<save, notifier, waiting, created, published, mailed>>
    PROVE  WelcomeInv'
<1>1. WelcomeType'
    BY DEF WelcomeInv, WelcomeType
<1>2. PublishInv'
    BY DEF WelcomeInv, PublishInv, Emitters
<1>3. MailInv'
    <2>1. \A b \in Bots : InHand(b)' = InHand(b) /\ InHand(b) \in Nat
        BY DEF InHand
    <2>2. QED
        BY <2>1 DEF WelcomeInv, WelcomeType, MailInv
<1>4. QED
    BY <1>1, <1>2, <1>3 DEF WelcomeInv

LEMMA HandIsNat == \A b \in Bots : InHand(b) \in {0, 1}
BY DEF InHand

(* A request that is over, or goes on without publishing.                   *)
LEMMA RequestKeeps ==
    ASSUME WelcomeInv, trouble' \in {trouble, trouble + 1},
           NEW s \in Saves, NEW q \in Requests, save' = [save EXCEPT ![s] = q],
           q.step # "none" => q.cfg \in Bots, \A b \in Bots : q # At("emit", b),
           UNCHANGED <<notifier, waiting, created, published, mailed>>
    PROVE  WelcomeInv'
<1>1. WelcomeType'
    BY DEF WelcomeInv, WelcomeType
<1>2. PublishInv'
    <2>1. ASSUME NEW b \in Bots
          PROVE  published[b] + Cardinality(Emitters(b))' <= created[b]
        <3>1. /\ Cardinality(Emitters(b))' \in Nat /\ Cardinality(Emitters(b)) \in Nat
              /\ Cardinality(Emitters(b))' <= Cardinality(Emitters(b)) + 0
            BY RequestMoves, EmittersFinite DEF WelcomeInv
        <3>2. published[b] \in Nat /\ created[b] \in Nat
            BY DEF WelcomeInv, WelcomeType
        <3>3. published[b] + Cardinality(Emitters(b)) <= created[b]
            BY DEF WelcomeInv, PublishInv
        <3>4. QED
            BY <3>1, <3>2, <3>3
    <2>2. QED
        BY <2>1 DEF PublishInv
<1>3. MailInv'
    <2>1. \A b \in Bots : InHand(b)' = InHand(b)
        BY DEF InHand
    <2>2. QED
        BY <2>1, HandIsNat DEF WelcomeInv, WelcomeType, MailInv
<1>4. QED
    BY <1>1, <1>2, <1>3 DEF WelcomeInv

LEMMA WriteKeeps ==
    ASSUME WelcomeInv, NEW s \in Saves, WriteDocument(s)
    PROVE  WelcomeInv'
<1> DEFINE b == save[s].cfg
<1>1. b \in Bots /\ save[s].step = "write"
    BY DEF WriteDocument, WelcomeInv, WelcomeType
<1>2. UNCHANGED <<notifier, waiting, mailed, published, trouble>>
    BY DEF WriteDocument, brokerVars
<1>3. CASE config[b] = "none"
    <2>1. /\ created' = [created EXCEPT ![b] = created[b] + 1]
          /\ save' = [save EXCEPT ![s] = At("emit", b)]
        BY <1>3 DEF WriteDocument, Creates
    <2>2. WelcomeType'
        BY <1>1, <1>2, <2>1, AtRequests DEF WelcomeInv, WelcomeType
    <2>3. PublishInv'
        <3>1. ASSUME NEW c \in Bots
              PROVE  published[c] + Cardinality(Emitters(c))' <= created'[c]
            <4>1. /\ Cardinality(Emitters(c))' \in Nat /\ Cardinality(Emitters(c)) \in Nat
                  /\ Cardinality(Emitters(c))' <= Cardinality(Emitters(c))
                       + (IF At("emit", b) = At("emit", c) THEN 1 ELSE 0)
                BY <1>1, <2>1, RequestMoves, EmittersFinite, AtRequests DEF WelcomeInv
            <4>2. created'[c] = IF b = c THEN created[c] + 1 ELSE created[c]
                BY <1>1, <2>1 DEF WelcomeInv, WelcomeType
            <4>3. At("emit", b) = At("emit", c) => b = c
                BY AtRequests
            <4>4. published[c] \in Nat /\ created[c] \in Nat
                  /\ published[c] + Cardinality(Emitters(c)) <= created[c]
                BY DEF WelcomeInv, WelcomeType, PublishInv
            <4>5. QED
                BY <4>1, <4>2, <4>3, <4>4
        <3>2. QED
            BY <1>2, <3>1 DEF PublishInv
    <2>4. MailInv'
        <3>1. \A c \in Bots : InHand(c)' = InHand(c)
            BY <1>2 DEF InHand
        <3>2. QED
            BY <1>2, <3>1 DEF WelcomeInv, MailInv
    <2>5. QED
        BY <2>2, <2>3, <2>4 DEF WelcomeInv
<1>4. CASE config[b] # "none"
    <2>1. save' = [save EXCEPT ![s] = NoSave]
        BY <1>4 DEF WriteDocument, Creates, Replied
    <2>2. created' = created
        <3>1. created' = [created EXCEPT ![b] = created[b]]
            BY <1>4 DEF WriteDocument
        <3>2. QED
            BY <3>1 DEF WelcomeInv, WelcomeType
    <2>3. QED
        BY <1>2, <2>1, <2>2, RequestKeeps, AtRequests
<1>5. QED
    BY <1>3, <1>4

(* A publish uses the creation its request stands for up, whether the queue *)
(* gets the event or not.                                                   *)
LEMMA PublishKeeps ==
    ASSUME WelcomeInv, NEW s \in Saves, NEW b \in Bots, save[s] = At("emit", b),
           NEW q \in {NoSave, At("mark", b)}, save' = [save EXCEPT ![s] = q],
           Published(b), waiting' \in {waiting, Queued(b)},
           trouble' \in {trouble, trouble + 1}, UNCHANGED <<notifier, mailed, created>>
    PROVE  WelcomeInv'
<1>1. /\ q \in Requests /\ (q.step # "none" => q.cfg = b)
      /\ \A c \in Bots : q # At("emit", c)
    BY AtRequests
<1>2. WelcomeType'
    BY <1>1 DEF WelcomeInv, WelcomeType, Published, Queued
<1>3. \A c \in Bots : published'[c] = IF b = c THEN published[c] + 1 ELSE published[c]
    BY DEF WelcomeInv, WelcomeType, Published
<1>4. PublishInv'
    <2>1. ASSUME NEW c \in Bots
          PROVE  published'[c] + Cardinality(Emitters(c))' <= created[c]
        <3>1. /\ Cardinality(Emitters(c))' \in Nat /\ Cardinality(Emitters(c)) \in Nat
              /\ Cardinality(Emitters(c))' <= Cardinality(Emitters(c)) + 0
              /\ b = c => Cardinality(Emitters(c))' = Cardinality(Emitters(c)) - 1
            BY <1>1, RequestMoves, EmittersFinite DEF WelcomeInv
        <3>2. published[c] \in Nat /\ created[c] \in Nat
              /\ published[c] + Cardinality(Emitters(c)) <= created[c]
            BY DEF WelcomeInv, WelcomeType, PublishInv
        <3>3. QED
            BY <1>3, <3>1, <3>2
    <2>2. QED
        BY <2>1 DEF PublishInv
<1>5. MailInv'
    <2>1. \A c \in Bots : /\ InHand(c)' = InHand(c)
                          /\ waiting'[c] \in {waiting[c], waiting[c] + (IF b = c THEN 1 ELSE 0)}
        BY DEF InHand, WelcomeInv, WelcomeType, Queued
    <2>2. QED
        BY <1>3, <2>1, HandIsNat DEF WelcomeInv, WelcomeType, MailInv
<1>6. QED
    BY <1>2, <1>4, <1>5 DEF WelcomeInv

LEMMA EmitKeeps ==
    ASSUME WelcomeInv, NEW s \in Saves, Emit(s) \/ EmitUnconfirmed(s) \/ EmitTaken(s)
    PROVE  WelcomeInv'
<1> DEFINE b == save[s].cfg
<1>1. b \in Bots /\ save[s] = At("emit", b)
    BY DEF Emit, EmitUnconfirmed, EmitTaken, WelcomeInv, WelcomeType, At, Requests
<1>2. save' \in {[save EXCEPT ![s] = NoSave], [save EXCEPT ![s] = At("mark", b)]}
    <2>1. [save[s] EXCEPT !.step = "mark"] = At("mark", b)
        BY <1>1 DEF At
    <2>2. QED
        BY <2>1 DEF Emit, EmitUnconfirmed, EmitTaken, AfterThrow, Replied
<1>3. /\ Published(b) /\ waiting' \in {waiting, Queued(b)}
      /\ UNCHANGED <<notifier, mailed, created>>
    BY DEF Emit, EmitUnconfirmed, EmitTaken, brokerVars
<1>4. trouble' \in {trouble, trouble + 1}
    BY DEF Emit, EmitUnconfirmed, EmitTaken, Trouble
<1>5. QED
    BY <1>1, <1>2, <1>3, <1>4, PublishKeeps

LEMMA SavesKeep ==
    ASSUME WelcomeInv, NEW s \in Saves,
           \/ \E b \in Bots : Submit(s, b)
           \/ EmitFails(s) \/ MarkSent(s) \/ MarkFails(s)
    PROVE  WelcomeInv'
<1>1. ASSUME NEW b \in Bots, Submit(s, b) PROVE WelcomeInv'
    <2>1. save' = [save EXCEPT ![s] = At("write", b)] /\ trouble' = trouble
          /\ UNCHANGED <<notifier, waiting, created, published, mailed>>
        BY <1>1 DEF Submit, brokerVars
    <2>2. At("write", b) \in Requests /\ At("write", b).cfg = b
          /\ \A c \in Bots : At("write", b) # At("emit", c)
        BY AtRequests
    <2>3. QED
        BY <2>1, <2>2, RequestKeeps
<1>2. CASE EmitFails(s) \/ MarkSent(s) \/ MarkFails(s)
    <2>1. save' = [save EXCEPT ![s] = NoSave]
        BY <1>2 DEF EmitFails, MarkSent, MarkFails, AfterThrow, Replied
    <2>2. trouble' \in {trouble, trouble + 1}
          /\ UNCHANGED <<notifier, waiting, created, published, mailed>>
        BY <1>2 DEF EmitFails, MarkSent, MarkFails, Trouble, brokerVars
    <2>3. QED
        BY <2>1, <2>2, RequestKeeps, AtRequests
<1>3. QED
    BY <1>1, <1>2

(* A restart of the services forgets the requests.                          *)
LEMMA ServicesKeep ==
    ASSUME WelcomeInv, ServicesDie
    PROVE  WelcomeInv'
<1>1. /\ save' = [s \in Saves |-> NoSave] /\ trouble' = trouble + 1
      /\ UNCHANGED <<notifier, waiting, created, published, mailed>>
    BY DEF ServicesDie, Trouble, brokerVars
<1>2. WelcomeType'
    BY <1>1, AtRequests DEF WelcomeInv, WelcomeType
<1>3. PublishInv'
    <2>1. ASSUME NEW b \in Bots
          PROVE  published[b] + Cardinality(Emitters(b))' <= created[b]
        <3>1. Emitters(b)' = {}
            BY <1>1, AtRequests DEF Emitters
        <3>2. Cardinality(Emitters(b))' = 0
            BY <3>1, FS_EmptySet
        <3>3. published[b] \in Nat /\ created[b] \in Nat
              /\ published[b] + Cardinality(Emitters(b)) <= created[b]
            BY DEF WelcomeInv, WelcomeType, PublishInv
        <3>4. Cardinality(Emitters(b)) \in Nat
            BY EmittersFinite
        <3>5. QED
            BY <3>2, <3>3, <3>4
    <2>2. QED
        BY <1>1, <2>1 DEF PublishInv
<1>4. MailInv'
    <2>1. \A b \in Bots : InHand(b)' = InHand(b)
        BY <1>1 DEF InHand
    <2>2. QED
        BY <1>1, <2>1, HandIsNat DEF WelcomeInv, WelcomeType, MailInv
<1>5. QED
    BY <1>2, <1>3, <1>4 DEF WelcomeInv

(* The notifier: an event leaves the queue when it is acknowledged, and a   *)
(* death between mail and acknowledgement costs one mail more.              *)
LEMMA NotifierKeeps ==
    ASSUME WelcomeInv,
           \/ StartWelcome \/ SendMail \/ SendFails \/ Ack \/ NotifierDies \/ BrokerRestarts
           \/ \E b \in Bots : TakeEvent(b) \/ FetchUserFails(b)
    PROVE  WelcomeInv'
<1> USE DEF WelcomeInv
<1>1. /\ UNCHANGED <<save, created, published>>
      /\ trouble' \in {trouble, trouble + 1}
    BY DEF StartWelcome, SendMail, SendFails, Ack, NotifierDies, BrokerRestarts, TakeEvent,
           FetchUserFails, Trouble
<1>2. PublishInv'
    BY <1>1 DEF PublishInv, Emitters
<1>3. \A b \in Bots : /\ mailed[b] \in Nat /\ waiting[b] \in Nat /\ published[b] \in Nat
                      /\ mailed[b] + waiting[b] <= published[b] + trouble + InHand(b)
    BY DEF WelcomeType, MailInv
<1>4. trouble \in Nat /\ trouble' \in Nat
    BY <1>1 DEF WelcomeType
<1>5. SUFFICES WelcomeType' /\ MailInv'
    BY <1>2
<1>6. ASSUME NEW b \in Bots, TakeEvent(b) PROVE WelcomeType' /\ MailInv'
    <2>1. notifier.step = "idle" /\ waiting[b] > 0 /\ mailed' = mailed /\ trouble' = trouble
        BY <1>6 DEF TakeEvent
    <2>2. \/ notifier' = At("send", b) /\ waiting' = waiting
          \/ notifier' = notifier /\ waiting' = [waiting EXCEPT ![b] = waiting[b] - 1]
        BY <1>6 DEF TakeEvent, Acked
    <2>3. waiting' \in [Bots -> Nat] /\ \A c \in Bots : waiting'[c] <= waiting[c]
        BY <2>1, <2>2 DEF WelcomeType
    <2>4. WelcomeType'
        BY <1>1, <2>1, <2>2, <2>3, AtRequests DEF WelcomeType
    <2>5. \A c \in Bots : InHand(c) = 0 /\ InHand(c)' = 0
        BY <2>1, <2>2, AtRequests DEF InHand
    <2>6. notifier'.step \in {"send", "ack"} => waiting'[notifier'.cfg] > 0
        BY <2>1, <2>2, AtRequests
    <2>7. QED
        BY <1>1, <1>3, <1>4, <2>1, <2>3, <2>4, <2>5, <2>6 DEF MailInv
<1>7. ASSUME NEW b \in Bots, FetchUserFails(b) PROVE WelcomeType' /\ MailInv'
    <2>1. UNCHANGED <<notifier, waiting, mailed>>
        BY <1>7 DEF FetchUserFails, Requeued
    <2>2. QED
        BY <1>1, <2>1, PageKeeps
<1>8. CASE StartWelcome \/ NotifierDies \/ BrokerRestarts
    <2>1. /\ notifier' \in {At("idle", "none"), At("down", "none")}
          /\ UNCHANGED <<waiting, mailed>>
        BY <1>8 DEF StartWelcome, NotifierDies, BrokerRestarts
    <2>2. \A c \in Bots : InHand(c)' = 0
        BY <2>1, AtRequests DEF InHand
    <2>3. StartWelcome => \A c \in Bots : InHand(c) = 0
        BY DEF StartWelcome, InHand
    <2>4. ~StartWelcome => trouble' = trouble + 1
        BY <1>8 DEF NotifierDies, BrokerRestarts, Trouble
    <2>5. WelcomeType'
        BY <1>1, <1>4, <2>1, AtRequests DEF WelcomeType
    <2>6. QED
        BY <1>1, <1>3, <1>4, <2>1, <2>2, <2>3, <2>4, <2>5, HandIsNat, AtRequests DEF MailInv
<1>9. CASE SendMail \/ SendFails
    <2>1. DEFINE b == notifier.cfg
    <2>2. /\ notifier.step = "send" /\ b \in Bots /\ notifier' = At("ack", b)
          /\ waiting' = waiting /\ waiting[b] > 0
        BY <1>9 DEF SendMail, SendFails, WelcomeType, MailInv
    <2>3. mailed' = mailed \/ mailed' = [mailed EXCEPT ![b] = mailed[b] + 1]
        BY <1>9 DEF SendMail, SendFails
    <2>4. \A c \in Bots : /\ InHand(c) = 0 /\ InHand(c)' = (IF c = b THEN 1 ELSE 0)
                          /\ mailed'[c] \in {mailed[c], mailed[c] + (IF c = b THEN 1 ELSE 0)}
        BY <2>2, <2>3, AtRequests DEF InHand, WelcomeType
    <2>5. WelcomeType'
        BY <1>1, <1>4, <2>2, <2>3, AtRequests DEF WelcomeType
    <2>6. \A c \in Bots : mailed'[c] + waiting[c] <= published[c] + trouble' + InHand(c)'
        BY <1>1, <1>3, <1>4, <2>4
    <2>7. QED
        BY <1>1, <2>2, <2>5, <2>6, AtRequests DEF MailInv
<1>10. CASE Ack
    <2>1. DEFINE b == notifier.cfg
    <2>2. /\ notifier.step = "ack" /\ b \in Bots /\ waiting[b] > 0
          /\ waiting' = [waiting EXCEPT ![b] = waiting[b] - 1]
          /\ notifier' = At("idle", "none") /\ mailed' = mailed /\ trouble' = trouble
        BY <1>10 DEF Ack, Acked, WelcomeType, MailInv
    <2>3. /\ waiting' \in [Bots -> Nat]
          /\ \A c \in Bots : waiting'[c] = waiting[c] - (IF c = b THEN 1 ELSE 0)
        BY <2>2 DEF WelcomeType
    <2>4. \A c \in Bots : InHand(c) = (IF c = b THEN 1 ELSE 0) /\ InHand(c)' = 0
        BY <2>2, AtRequests DEF InHand
    <2>5. WelcomeType'
        BY <1>1, <1>4, <2>2, <2>3, AtRequests DEF WelcomeType
    <2>6. \A c \in Bots : mailed[c] + waiting'[c] <= published[c] + trouble + InHand(c)'
        BY <1>3, <1>4, <2>3, <2>4
    <2>7. QED
        BY <1>1, <2>2, <2>5, <2>6, AtRequests DEF MailInv
<1>11. QED
    BY <1>6, <1>7, <1>8, <1>9, <1>10

LEMMA WelcomeStep == WelcomeInv /\ [WelcomeNext]_welcomeVars => WelcomeInv'
<1> SUFFICES ASSUME WelcomeInv, [WelcomeNext]_welcomeVars PROVE WelcomeInv'
    OBVIOUS
<1>1. ASSUME NEW b \in Bots,
             \/ \E on \in BOOLEAN : Mint(b, on)
             \/ Activate(b) \/ ActivateFails(b) \/ RemoveBot(b) \/ CancelFails(b) \/ Switch(b)
      PROVE  WelcomeInv'
    <2>1. /\ trouble' \in {trouble, trouble + 1}
          /\ UNCHANGED <<save, notifier, waiting, created, published, mailed>>
        BY <1>1 DEF Mint, Activate, ActivateFails, RemoveBot, CancelFails, Switch, Trouble,
                    brokerVars
    <2>2. QED
        BY <2>1, PageKeeps
<1>2. ASSUME NEW s \in Saves, SaveStep(s) \/ SaveTrouble(s) PROVE WelcomeInv'
    BY <1>2, WriteKeeps, EmitKeeps, SavesKeep DEF SaveStep, SaveTrouble
<1>3. ASSUME NEW s \in Saves, NEW b \in Bots, Submit(s, b) PROVE WelcomeInv'
    BY <1>3, SavesKeep
<1>4. CASE UNCHANGED welcomeVars
    BY <1>4, PageKeeps DEF welcomeVars
<1>5. QED
    BY <1>1, <1>2, <1>3, <1>4, NotifierKeeps, ServicesKeep DEF WelcomeNext, NotifierStep

LEMMA WelcomeStart == WelcomeInit => WelcomeInv
<1> SUFFICES ASSUME WelcomeInit PROVE WelcomeInv
    OBVIOUS
<1>1. \A s \in Saves : save[s] = NoSave
    BY DEF WelcomeInit
<1>2. WelcomeType
    BY AtRequests DEF WelcomeInit, WelcomeType, Never
<1>3. \A b \in Bots : Emitters(b) = {}
    BY <1>1, AtRequests DEF Emitters
<1>4. PublishInv
    BY <1>3, FS_EmptySet DEF PublishInv, WelcomeInit, Never
<1>5. MailInv
    BY AtRequests DEF MailInv, WelcomeInit, Never, InHand
<1>6. QED
    BY <1>2, <1>4, <1>5 DEF WelcomeInv

(* However many requests save a bot at once, whatever fails or restarts on   *)
(* the way, one event is published for each creation of its document, and a  *)
(* mail more than events takes a failure.                                    *)
THEOREM WelcomedOnce == WelcomeSpec => []OneWelcomePerCreation
<1>1. WelcomeInv => OneWelcomePerCreation
    <2> SUFFICES ASSUME WelcomeInv, NEW b \in Bots
                 PROVE  published[b] <= created[b] /\ mailed[b] <= published[b] + trouble
        BY DEF OneWelcomePerCreation
    <2>1. /\ published[b] \in Nat /\ created[b] \in Nat /\ mailed[b] \in Nat
          /\ waiting[b] \in Nat /\ trouble \in Nat /\ Cardinality(Emitters(b)) \in Nat
        BY EmittersFinite DEF WelcomeInv, WelcomeType
    <2>2. published[b] <= created[b]
        BY <2>1 DEF WelcomeInv, PublishInv
    <2>3. InHand(b) = 0 \/ (InHand(b) = 1 /\ waiting[b] > 0)
        BY DEF WelcomeInv, MailInv, InHand
    <2>4. mailed[b] + waiting[b] <= published[b] + trouble + InHand(b)
        BY DEF WelcomeInv, MailInv
    <2>5. QED
        BY <2>1, <2>2, <2>3, <2>4
<1>2. QED
    BY <1>1, WelcomeStart, WelcomeStep, PTL DEF WelcomeSpec


Scripts == [step : {"idle", "page", "complete", "gave up"}, page : Nat, tries : Nat,
            owed : SUBSET Ads]

FetchType ==
    /\ reader \in Readers
    /\ board \in Seq(Ads)
    /\ page \in Nat
    /\ script \in Scripts

ReadingPhases == {"list", "fetched", "detail", "stored"}

(* How far down the list the cycle has come.                                 *)
Reach == IF phase = "list" THEN page * Size ELSE Size * PagesOf(reader)

(* Of the ads that were on the first pages when the cycle began, it has      *)
(* those still found above where it stands.                                  *)
ReadSoFar ==
    /\ window \subseteq ToSet(board) \cup gone
    /\ phase \in ReadingPhases /\ ~shrunk =>
         \A i \in DOMAIN board : i <= Reach /\ board[i] \in window => board[i] \in got \cup Odd

(* What the script owes is stored or still below where it stands.            *)
OwedAhead ==
    /\ script.step = "page" =>
         \A x \in script.owed :
            \/ x \in stored
            \/ /\ x \notin Odd \cup Unplaced
               /\ \E i \in DOMAIN board : script.page * PerPage < i /\ board[i] = x
    /\ script.step = "complete" => script.owed \subseteq stored

FetchInv == FetchType /\ ReadSoFar /\ OwedAhead

LEMMA PageSizes ==
    /\ Size \in Nat /\ PerPage \in Nat
    /\ 0 * Size = 0 /\ 0 * PerPage = 0
    /\ \A b : PagesOf(b) \in Nat
    /\ \A p \in Nat : /\ p * Size \in Nat /\ Size * p = p * Size
                      /\ (p + 1) * Size = p * Size + Size
                      /\ p * PerPage \in Nat
                      /\ (p + 1) * PerPage = p * PerPage + PerPage
<1>1. Size \in Nat /\ PerPage \in Nat /\ Pages \in Nat
  BY FetchAssumption
<1>2. \A b : PagesOf(b) \in Nat
  BY <1>1 DEF PagesOf
<1>3. QED
  BY <1>1, <1>2

(* What lies between two places of the list.                                 *)
LEMMA Slice ==
    ASSUME FetchType, NEW m \in Nat, NEW n \in Nat
    PROVE  /\ ToSet(SubSeq(board, m + 1, Upto(n)))
                = {board[i] : i \in {j \in DOMAIN board : m < j /\ j <= n}}
           /\ SubSeq(board, m + 1, Upto(n)) = <<>> => Len(board) <= m \/ n <= m
           /\ Len(SubSeq(board, m + 1, Upto(n))) < n - m => Len(board) < n
<1>0. /\ board \in Seq(Ads) /\ Len(board) \in Nat /\ DOMAIN board = 1 .. Len(board)
      /\ \A i \in 1 .. Len(board) : board[i] \in Ads
  BY LenProperties, ElementOfSeq DEF FetchType
<1>1. /\ board \in Seq(Ads) /\ Len(board) \in Nat /\ DOMAIN board = 1 .. Len(board)
      /\ \A i \in 1 .. Len(board) : board[i] \in Ads
      /\ Upto(n) \in Nat /\ Upto(n) <= Len(board) /\ Upto(n) <= n
      /\ n <= Len(board) => Upto(n) = n
      /\ Len(board) <= n => Upto(n) = Len(board)
  <2>1. /\ Upto(n) \in Nat /\ Upto(n) <= Len(board) /\ Upto(n) <= n
        /\ n <= Len(board) => Upto(n) = n
        /\ Len(board) <= n => Upto(n) = Len(board)
    <3>1. Len(board) \in Nat
      BY <1>0
    <3>2. QED
      BY <3>1 DEF Upto
  <2>2. QED
    BY <1>0, <2>1
<1> DEFINE s == SubSeq(board, m + 1, Upto(n))
<1>2. /\ Len(s) = IF m + 1 <= Upto(n) THEN Upto(n) - m ELSE 0
      /\ DOMAIN s = 1 .. Len(s)
      /\ \A i \in 1 .. Len(s) : s[i] = board[m + i]
  <2>1. \A i \in m + 1 .. Upto(n) : board[i] \in Ads
    BY <1>1
  <2>2. /\ s \in Seq(Ads)
        /\ Len(s) = IF m + 1 <= Upto(n) THEN Upto(n) - (m + 1) + 1 ELSE 0
        /\ \A i \in 1 .. Upto(n) - (m + 1) + 1 : s[i] = board[m + 1 + i - 1]
    BY <1>1, <2>1, SubSeqProperties
  <2>3. DOMAIN s = 1 .. Len(s)
    BY <2>2, LenProperties
  <2>4. QED
    BY <1>1, <2>2, <2>3
<1> HIDE DEF s
<1>3. ToSet(s) = {board[i] : i \in {j \in DOMAIN board : m < j /\ j <= n}}
  <2>1. ASSUME NEW x \in ToSet(s)
        PROVE  x \in {board[i] : i \in {j \in DOMAIN board : m < j /\ j <= n}}
    <3>1. PICK i \in 1 .. Len(s) : x = board[m + i]
      BY <1>2 DEF ToSet
    <3>2. m + i \in {j \in DOMAIN board : m < j /\ j <= n}
      BY <1>1, <1>2
    <3>3. QED
      BY <3>1, <3>2
  <2>2. ASSUME NEW j \in DOMAIN board, m < j, j <= n
        PROVE  board[j] \in ToSet(s)
    <3>1. j - m \in 1 .. Len(s) /\ m + (j - m) = j
      BY <1>1, <1>2, <2>2
    <3>2. QED
      BY <1>2, <3>1 DEF ToSet
  <2>3. QED
    BY <2>1, <2>2
<1>4. s = <<>> => Len(board) <= m \/ n <= m
  <2>1. s = <<>> => Len(s) = 0
    OBVIOUS
  <2>2. QED
    BY <1>1, <1>2, <2>1
<1>5. Len(s) < n - m => Len(board) < n
  BY <1>1, <1>2
<1>6. QED
  BY <1>3, <1>4, <1>5 DEF s

LEMMA FirstOnes ==
    ASSUME FetchType
    PROVE  ToSet(FirstPages)
              = {board[i] : i \in {j \in DOMAIN board : 0 < j /\ j <= Size * PagesOf(reader)}}
<1>1. Size * PagesOf(reader) \in Nat
  BY PageSizes
<1>2. QED
  BY <1>1, Slice DEF FirstPages

(* A new ad pushes every other one place down.                               *)
LEMMA Pushed ==
    ASSUME FetchType, NEW a \in Ads, Post(a)
    PROVE  /\ board' \in Seq(Ads)
           /\ \A j \in DOMAIN board' : board'[j] = a \/ (j - 1 \in DOMAIN board /\ board'[j] = board[j - 1])
           /\ \A i \in DOMAIN board : i + 1 \in DOMAIN board' /\ board'[i + 1] = board[i]
<1>1. board' = <<a>> \o board /\ board \in Seq(Ads) /\ <<a>> \in Seq(Ads)
  <2>1. <<a>> \in Seq(Ads)
    OBVIOUS
  <2>2. QED
    BY <2>1 DEF Post, FetchType
<1>2. /\ board' \in Seq(Ads) /\ Len(board') = Len(board) + 1
      /\ Len(board) \in Nat
      /\ \A j \in 1 .. Len(board) + 1 : board'[j] = IF j <= 1 THEN a ELSE board[j - 1]
  <2>1. Len(<<a>>) = 1 /\ <<a>>[1] = a
    OBVIOUS
  <2>2. Len(board) \in Nat
    BY <1>1, LenProperties
  <2>3. /\ board' \in Seq(Ads) /\ Len(board') = 1 + Len(board)
        /\ \A j \in 1 .. 1 + Len(board) : board'[j] = IF j <= 1 THEN <<a>>[j] ELSE board[j - 1]
    BY <1>1, <2>1, ConcatProperties
  <2>4. QED
    BY <2>1, <2>2, <2>3
<1>3. DOMAIN board = 1 .. Len(board) /\ DOMAIN board' = 1 .. Len(board) + 1
  BY <1>1, <1>2, LenProperties
<1>4. ASSUME NEW j \in DOMAIN board'
      PROVE  board'[j] = a \/ (j - 1 \in DOMAIN board /\ board'[j] = board[j - 1])
  BY <1>2, <1>3
<1>5. ASSUME NEW i \in DOMAIN board
      PROVE  i + 1 \in DOMAIN board' /\ board'[i + 1] = board[i]
  <2>1. i + 1 \in 1 .. Len(board) + 1 /\ ~(i + 1 <= 1) /\ (i + 1) - 1 = i
    BY <1>2, <1>3
  <2>2. QED
    BY <1>2, <1>3, <2>1
<1>6. QED
  BY <1>2, <1>4, <1>5

(* An ad that is withdrawn is the only one to go.                            *)
LEMMA Left ==
    ASSUME FetchType, NEW a \in Ads, Withdraw(a)
    PROVE  /\ board' \in Seq(Ads)
           /\ ToSet(board) \subseteq ToSet(board') \cup {a}
<1>1. PICK i \in DOMAIN board : board[i] = a /\ board' = RemoveAt(board, i)
  BY DEF Withdraw
<1>2. /\ board \in Seq(Ads) /\ Len(board) \in Nat
      /\ DOMAIN board = 1 .. Len(board) /\ i \in 1 .. Len(board)
  BY <1>1, LenProperties DEF FetchType
<1>2a. \A j \in 1 .. Len(board) : board[j] \in Ads
  BY <1>2, ElementOfSeq
<1> DEFINE s == SubSeq(board, 1, i - 1)
           t == SubSeq(board, i + 1, Len(board))
<1>3. /\ s \in Seq(Ads) /\ Len(s) = i - 1 /\ \A j \in 1 .. (i - 1) : s[j] = board[j]
  <2>1. \A j \in 1 .. i - 1 : board[j] \in Ads
    BY <1>2, <1>2a
  <2>2. /\ s \in Seq(Ads) /\ Len(s) = IF 1 <= i - 1 THEN i - 1 - 1 + 1 ELSE 0
        /\ \A j \in 1 .. i - 1 - 1 + 1 : s[j] = board[1 + j - 1]
    BY <1>2, <2>1, SubSeqProperties
  <2>3. QED
    BY <1>2, <2>2
<1>4. /\ t \in Seq(Ads) /\ Len(t) = Len(board) - i
      /\ \A j \in 1 .. (Len(board) - i) : t[j] = board[i + j]
  <2>1. \A j \in i + 1 .. Len(board) : board[j] \in Ads
    BY <1>2, <1>2a
  <2>2. /\ t \in Seq(Ads) /\ Len(t) = IF i + 1 <= Len(board) THEN Len(board) - (i + 1) + 1 ELSE 0
        /\ \A j \in 1 .. Len(board) - (i + 1) + 1 : t[j] = board[i + 1 + j - 1]
    BY <1>2, <2>1, SubSeqProperties
  <2>3. QED
    BY <1>2, <2>2
<1>5. board' = s \o t
  BY <1>1 DEF RemoveAt
<1> HIDE DEF s, t
<1>6. /\ board' \in Seq(Ads) /\ Len(board') = Len(board) - 1
      /\ \A j \in 1 .. (Len(board) - 1) : board'[j] = IF j <= i - 1 THEN s[j] ELSE t[j - (i - 1)]
  <2>1. /\ board' \in Seq(Ads) /\ Len(board') = Len(s) + Len(t)
        /\ \A j \in 1 .. Len(s) + Len(t) : board'[j] = IF j <= Len(s) THEN s[j] ELSE t[j - Len(s)]
    BY <1>3, <1>4, <1>5, ConcatProperties
  <2>2. QED
    BY <1>2, <1>3, <1>4, <2>1
<1>7. \A j \in 1 .. Len(board) : j # i => board[j] \in ToSet(board')
  <2> SUFFICES ASSUME NEW j \in 1 .. Len(board), j # i PROVE board[j] \in ToSet(board')
    OBVIOUS
  <2>0. DOMAIN board' = 1 .. (Len(board) - 1)
    BY <1>6, LenProperties
  <2>1. CASE j < i
    <3>1. j \in DOMAIN board' /\ board'[j] = board[j]
      BY <1>2, <1>3, <1>6, <2>0, <2>1
    <3>2. QED
      BY <3>1 DEF ToSet
  <2>2. CASE j > i
    <3>1. j - 1 \in DOMAIN board' /\ board'[j - 1] = t[j - i] /\ j - i \in 1 .. (Len(board) - i)
      BY <1>2, <1>6, <2>0, <2>2
    <3>2. board'[j - 1] = board[j]
      BY <1>2, <1>4, <2>2, <3>1
    <3>3. QED
      BY <3>1, <3>2 DEF ToSet
  <2>3. QED
    BY <1>2, <2>1, <2>2
<1>8. QED
  BY <1>1, <1>2, <1>6, <1>7 DEF ToSet

LEMMA FetchInitially == FetchInit => FetchInv
<1> SUFFICES ASSUME FetchInit PROVE FetchInv
  OBVIOUS
<1>1. FetchType
  <2>1. board \in Seq(Ads)
    BY EmptySeq DEF FetchInit
  <2>2. QED
    BY <2>1 DEF FetchInit, FetchType, NoScript, Scripts
<1>2. ReadSoFar /\ OwedAhead
  BY DEF FetchInit, ReadSoFar, ReadingPhases, OwedAhead, NoScript
<1>3. QED
  BY <1>1, <1>2 DEF FetchInv

LEMMA PostKeeps ==
    ASSUME FetchInv, NEW a \in Ads, Post(a)
    PROVE  FetchInv'
<1> USE DEF FetchInv
<1>1. /\ UNCHANGED <<reader, gone, phase, page, got, window, shrunk, stored, script>>
      /\ a \notin ToSet(board) \cup gone
  BY DEF Post
<1>2. /\ board' \in Seq(Ads)
      /\ \A j \in DOMAIN board' : board'[j] = a \/ (j - 1 \in DOMAIN board /\ board'[j] = board[j - 1])
      /\ \A i \in DOMAIN board : i + 1 \in DOMAIN board' /\ board'[i + 1] = board[i]
  BY Pushed
<1>3. FetchType'
  BY <1>1, <1>2 DEF FetchType
<1>4. a \notin window /\ Reach' = Reach
  BY <1>1 DEF ReadSoFar, Reach
<1>5. Reach \in Nat /\ \A i \in DOMAIN board : i \in Nat
  <2>1. Reach \in Nat
    BY PageSizes DEF FetchType, Reach
  <2>2. DOMAIN board = 1 .. Len(board) /\ Len(board) \in Nat
    BY LenProperties DEF FetchType
  <2>3. QED
    BY <2>1, <2>2
<1>6. ToSet(board) \subseteq ToSet(board')
  BY <1>2 DEF ToSet
<1>7. ReadSoFar'
  <2> SUFFICES ASSUME phase \in ReadingPhases, ~shrunk, NEW j \in DOMAIN board', j <= Reach, board'[j] \in window
               PROVE  board'[j] \in got \cup Odd
    BY <1>1, <1>4, <1>6 DEF ReadSoFar
  <2>1. j - 1 \in DOMAIN board /\ board'[j] = board[j - 1]
    BY <1>2, <1>4
  <2>2. j - 1 <= Reach
    <3>1. j \in Nat
      BY <1>2, LenProperties
    <3>2. QED
      BY <1>5, <3>1
  <2>3. QED
    BY <2>1, <2>2 DEF ReadSoFar
<1>8. OwedAhead'
  <2> SUFFICES ASSUME script.step = "page", NEW x \in script.owed, x \notin stored
               PROVE  /\ x \notin Odd \cup Unplaced
                      /\ \E j \in DOMAIN board' : script.page * PerPage < j /\ board'[j] = x
    BY <1>1 DEF OwedAhead
  <2>1. PICK i \in DOMAIN board : script.page * PerPage < i /\ board[i] = x
    BY DEF OwedAhead
  <2>2. script.page * PerPage \in Nat
    BY PageSizes DEF FetchType, Scripts
  <2>3. script.page * PerPage < i + 1
    BY <1>5, <2>1, <2>2
  <2>4. QED
    BY <1>2, <2>1, <2>3 DEF OwedAhead
<1>9. QED
  BY <1>3, <1>7, <1>8

LEMMA WithdrawKeeps ==
    ASSUME FetchInv, NEW a \in Ads, Withdraw(a)
    PROVE  FetchInv'
<1> USE DEF FetchInv
<1>1. /\ UNCHANGED <<reader, phase, page, window, stored>>
      /\ gone' = gone \cup {a} /\ shrunk' = TRUE
      /\ script' = [script EXCEPT !.owed = {}]
  BY DEF Withdraw
<1>2. board' \in Seq(Ads) /\ ToSet(board) \subseteq ToSet(board') \cup {a}
  BY Left
<1>3. FetchType'
  BY <1>1, <1>2 DEF FetchType, Scripts
<1>4. ReadSoFar'
  BY <1>1, <1>2 DEF ReadSoFar
<1>5. script'.owed = {}
  BY <1>1 DEF FetchType
<1>6. OwedAhead'
  BY <1>5 DEF OwedAhead
<1>7. QED
  BY <1>3, <1>4, <1>6

(* A step of the cycle that neither reads a page nor begins a cycle.         *)
LEMMA CycleGoesOn ==
    ASSUME FetchInv, UNCHANGED <<reader, board, gone, script>>, page' \in {page, 0},
           window' \in {window, {}}, stored \subseteq stored',
           \/ phase' \notin ReadingPhases
           \/ shrunk'
           \/ /\ phase \in ReadingPhases /\ UNCHANGED <<got, window, shrunk>>
              /\ Reach' = Reach
    PROVE  FetchInv'
<1> USE DEF FetchInv
<1>1. FetchType'
  <2>1. page' \in Nat
    BY DEF FetchType
  <2>2. QED
    BY <2>1 DEF FetchType
<1>2. ReadSoFar'
  BY DEF ReadSoFar
<1>3. OwedAhead'
  BY DEF OwedAhead
<1>4. QED
  BY <1>1, <1>2, <1>3

LEMMA StartCycleKeeps == FetchInv /\ StartCycle => FetchInv'
<1> SUFFICES ASSUME FetchInv, StartCycle PROVE FetchInv'
  OBVIOUS
<1> USE DEF FetchInv
<1>1. FetchType' /\ OwedAhead'
  BY DEF StartCycle, FetchType, OwedAhead
<1>2. window' \subseteq ToSet(board) /\ board' = board /\ gone' = gone
  <2>1. ToSet(FirstPages) \subseteq ToSet(board)
    BY FirstOnes DEF ToSet
  <2>2. QED
    BY <2>1 DEF StartCycle
<1>3. phase' = "list" /\ Reach' = 0
  BY PageSizes DEF StartCycle, Reach
<1>4. \A i \in DOMAIN board : ~(i <= 0)
  BY LenProperties DEF FetchType
<1>5. ReadSoFar'
  BY <1>2, <1>3, <1>4 DEF ReadSoFar
<1>6. QED
  BY <1>1, <1>5

(* Reading a page: what lies on it is taken over, and if the reading ends    *)
(* there it has come to the end of the first pages or of the list.           *)
LEMMA FetchPageKeeps == FetchInv /\ FetchPage => FetchInv'
<1> SUFFICES ASSUME FetchInv, FetchPage PROVE FetchInv'
  OBVIOUS
<1> USE DEF FetchInv
<1>1. /\ UNCHANGED <<reader, board, gone, window, shrunk, stored, script>>
      /\ phase = "list" /\ got' = got \cup Sound
      /\ \/ phase' = "fetched" /\ page' = page /\ (Items = <<>> \/ page + 1 = PagesOf(reader))
         \/ phase' = "list" /\ page' = page + 1
  BY DEF FetchPage
<1>2. FetchType' /\ OwedAhead'
  <2>1. page' \in Nat
    BY <1>1 DEF FetchType
  <2>2. FetchType'
    BY <1>1, <2>1 DEF FetchType
  <2>3. OwedAhead'
    BY <1>1 DEF OwedAhead
  <2>4. QED
    BY <2>2, <2>3
<1>3. /\ page * Size \in Nat /\ Size \in Nat
      /\ (page + 1) * Size = page * Size + Size
      /\ PagesOf(reader) \in Nat /\ Size * PagesOf(reader) = PagesOf(reader) * Size
  BY PageSizes DEF FetchType
<1>4. /\ ToSet(Items) = {board[i] : i \in {j \in DOMAIN board : page * Size < j /\ j <= page * Size + Size}}
      /\ Items = <<>> => Len(board) <= page * Size
  <2>1. Size # 0
    BY FetchAssumption
  <2>2. Items = SubSeq(board, page * Size + 1, Upto(page * Size + Size))
    BY DEF Items, Offset
  <2>3. QED
    BY <1>3, <2>1, <2>2, Slice
<1>5. DOMAIN board = 1 .. Len(board) /\ Len(board) \in Nat
  BY LenProperties DEF FetchType
<1>6. ASSUME NEW i \in DOMAIN board, i <= page * Size + Size, board[i] \in window, ~shrunk
      PROVE  board[i] \in got' \cup Odd
  <2>1. CASE i <= page * Size
    BY <1>1, <1>6, <2>1 DEF ReadSoFar, Reach, ReadingPhases
  <2>2. CASE page * Size < i
    BY <1>1, <1>4, <1>6, <2>2 DEF Sound
  <2>3. QED
    BY <1>3, <1>5, <2>1, <2>2
<1>7. ASSUME NEW i \in DOMAIN board, i <= Reach'
      PROVE  i <= page * Size + Size
  <2>1. CASE phase' = "list"
    BY <1>1, <1>3, <1>7, <2>1 DEF Reach
  <2>2. CASE phase' = "fetched" /\ page + 1 = PagesOf(reader)
    BY <1>1, <1>3, <1>7, <2>2 DEF Reach
  <2>3. CASE Items = <<>>
    BY <1>3, <1>4, <1>5, <2>3
  <2>4. QED
    BY <1>1, <2>1, <2>2, <2>3
<1>8. ReadSoFar'
  BY <1>1, <1>6, <1>7 DEF ReadSoFar
<1>9. QED
  BY <1>2, <1>8

LEMMA CycleKeeps ==
    ASSUME FetchInv,
           \/ PageThrows \/ NotFound \/ RequestFails \/ Refused \/ Upsert \/ Enrich
           \/ EnrichFails \/ EndCycle \/ Restart \/ Tick \/ UNCHANGED fetchVars
    PROVE  FetchInv'
<1>1. UNCHANGED <<reader, board, gone, script>> /\ stored \subseteq stored'
  BY DEF PageThrows, NotFound, RequestFails, Refused, Upsert, Enrich, EnrichFails, EndCycle,
         Restart, Tick, fetchVars
<1>2. page' \in {page, 0} /\ window' \in {window, {}}
  BY DEF PageThrows, NotFound, RequestFails, Refused, Upsert, Enrich, EnrichFails, EndCycle,
         Restart, Tick, fetchVars
<1>3. CASE PageThrows \/ EnrichFails \/ EndCycle \/ Restart \/ Refused
  <2>1. phase' = "idle"
    BY <1>3 DEF PageThrows, EnrichFails, EndCycle, Restart, Refused, Failed, StopOnRefusal
  <2>2. QED
    BY <1>1, <1>2, <2>1, CycleGoesOn DEF ReadingPhases
<1>4. CASE NotFound
  BY <1>1, <1>2, <1>4, CycleGoesOn DEF NotFound
<1>5. CASE RequestFails /\ phase' = "idle"
  BY <1>1, <1>2, <1>5, CycleGoesOn DEF ReadingPhases
<1>6. CASE (RequestFails /\ phase' # "idle") \/ Tick \/ UNCHANGED fetchVars
  <2>1. UNCHANGED <<phase, page, got, window, shrunk, reader>>
    BY <1>6 DEF RequestFails, Failed, Tick, fetchVars
  <2>2. Reach' = Reach
    BY <2>1 DEF Reach
  <2>3. QED
    BY <1>1, <1>2, <2>1, <2>2, CycleGoesOn
<1>7. CASE Upsert \/ Enrich
  <2>1. UNCHANGED <<page, got, window, shrunk, reader>> /\ phase \in {"fetched", "detail"}
        /\ phase' \in {"detail", "stored"}
    BY <1>7 DEF Upsert, Enrich
  <2>2. Reach' = Reach
    BY <2>1 DEF Reach
  <2>3. QED
    BY <1>1, <1>2, <2>1, <2>2, CycleGoesOn DEF ReadingPhases
<1>8. QED
  BY <1>3, <1>4, <1>5, <1>6, <1>7

(* The script has nothing to do with the cycle beside it.                    *)
LEMMA ScriptAside ==
    ASSUME FetchInv, UNCHANGED <<reader, board, gone, cycleVars>>
    PROVE  ReadSoFar' /\ (FetchType' <=> (script \in Scripts)')
<1>1. UNCHANGED <<reader, board, gone, phase, page, tries, got, window, shrunk>>
  BY DEF cycleVars
<1>2. Reach' = Reach
  BY <1>1 DEF Reach
<1>3. QED
  BY <1>1, <1>2 DEF FetchInv, FetchType, ReadSoFar

LEMMA BackfillKeeps ==
    ASSUME FetchInv,
           StartBackfill \/ BackfillPage \/ BackfillRequestFails \/ BackfillDies
    PROVE  FetchInv'
<1> USE DEF FetchInv
<1>1. UNCHANGED <<reader, board, gone, cycleVars>>
  BY DEF StartBackfill, BackfillPage, BackfillRequestFails, BackfillDies
<1>2. DOMAIN board = 1 .. Len(board) /\ Len(board) \in Nat
      /\ \A i \in 1 .. Len(board) : board[i] \in Ads
  BY LenProperties, ElementOfSeq DEF FetchType
<1>3. CASE StartBackfill
  <2>1. /\ script'.step = "page" /\ script'.page = 0 /\ script'.tries = 0
        /\ script'.owed = ToSet(board) \ (Odd \cup Unplaced)
        /\ script' \in Scripts
    BY <1>2, <1>3 DEF StartBackfill, NoScript, ToSet, Scripts
  <2>2. script'.page * PerPage = 0
    BY <2>1, PageSizes
  <2>3. \A i \in DOMAIN board : 0 < i
    BY <1>2
  <2>4. OwedAhead'
    BY <1>1, <2>1, <2>2, <2>3 DEF OwedAhead, ToSet
  <2>5. QED
    BY <1>1, <2>1, <2>4, ScriptAside
<1>4. CASE BackfillPage
  <2>1. /\ script.page \in Nat /\ script.page * PerPage \in Nat /\ PerPage \in Nat
        /\ (script.page + 1) * PerPage = script.page * PerPage + PerPage
    BY PageSizes DEF FetchType, Scripts
  <2>2. /\ ToSet(ScriptItems) = {board[i] : i \in {j \in DOMAIN board :
               script.page * PerPage < j /\ j <= script.page * PerPage + PerPage}}
        /\ Len(ScriptItems) < PerPage => Len(board) < script.page * PerPage + PerPage
    <3>1. ScriptItems = SubSeq(board, script.page * PerPage + 1, Upto(script.page * PerPage + PerPage))
      BY <2>1 DEF ScriptItems
    <3>2. PICK m \in Nat, n \in Nat :
             m = script.page * PerPage /\ n = script.page * PerPage + PerPage
      BY <2>1
    <3>3. n - m = PerPage
      BY <2>1, <3>2
    <3>4. /\ ToSet(SubSeq(board, m + 1, Upto(n)))
                = {board[i] : i \in {j \in DOMAIN board : m < j /\ j <= n}}
          /\ Len(SubSeq(board, m + 1, Upto(n))) < n - m => Len(board) < n
      BY Slice
    <3>5. QED
      BY <3>1, <3>2, <3>3, <3>4
  <2>3. script.step = "page" /\ stored' = Flushed
    BY <1>4 DEF BackfillPage
  <2>4. ASSUME NEW x \in script.owed, x \notin stored'
        PROVE  /\ x \notin Odd \cup Unplaced
               /\ \E i \in DOMAIN board : script.page * PerPage + PerPage < i /\ board[i] = x
    <3>1. PICK i \in DOMAIN board : script.page * PerPage < i /\ board[i] = x
      BY <2>3, <2>4 DEF OwedAhead, Flushed
    <3>2. x \notin Odd \cup Unplaced
      BY <2>3, <2>4 DEF OwedAhead, Flushed
    <3>3. ~(i <= script.page * PerPage + PerPage)
      BY <2>2, <2>3, <2>4, <3>1, <3>2 DEF Flushed
    <3>4. QED
      BY <1>2, <2>1, <3>1, <3>2, <3>3
  <2>5. CASE Len(ScriptItems) < PerPage
    <3>1. /\ script'.step = "complete" /\ script'.owed = script.owed
          /\ script' \in Scripts
      BY <1>4, <2>5 DEF BackfillPage, NoScript, FetchType, Scripts
    <3>2. \A i \in DOMAIN board : ~(script.page * PerPage + PerPage < i)
      BY <1>2, <2>1, <2>2, <2>5
    <3>3. script.owed \subseteq stored'
      BY <2>4, <3>2
    <3>4. OwedAhead'
      BY <3>1, <3>3 DEF OwedAhead
    <3>5. QED
      BY <1>1, <3>1, <3>4, ScriptAside
  <2>6. CASE ~(Len(ScriptItems) < PerPage)
    <3>1. /\ script'.step = "page" /\ script'.page = script.page + 1 /\ script'.owed = script.owed
          /\ script' \in Scripts
      <4>1. script' = [script EXCEPT !.tries = 0, !.page = script.page + 1]
        BY <1>4, <2>6 DEF BackfillPage
      <4>2. script \in Scripts /\ script.step = "page"
        BY <2>3 DEF FetchType
      <4>3. script.page + 1 \in Nat
        BY <2>1
      <4>4. QED
        BY <4>1, <4>2, <4>3 DEF Scripts
    <3>2. OwedAhead'
      BY <1>1, <2>1, <2>4, <3>1 DEF OwedAhead
    <3>3. QED
      BY <1>1, <3>1, <3>2, ScriptAside
  <2>7. QED
    BY <2>5, <2>6
<1>5. CASE BackfillRequestFails \/ BackfillDies
  <2>1. stored \subseteq stored'
    BY <1>5 DEF BackfillRequestFails, BackfillDies
  <2>2. /\ script' \in Scripts
        /\ \/ script'.step = "gave up"
           \/ script'.step = script.step /\ script'.page = script.page /\ script'.owed = script.owed
    <3>1. script' = GaveUp \/ script' = [script EXCEPT !.tries = script.tries + 1]
      BY <1>5 DEF BackfillRequestFails, BackfillDies
    <3>2. CASE script' = GaveUp
      BY <3>2 DEF GaveUp, NoScript, Scripts
    <3>3. CASE script' = [script EXCEPT !.tries = script.tries + 1]
      <4>1. script \in Scripts
        BY DEF FetchType
      <4>2. script.tries \in Nat
        BY <4>1 DEF Scripts
      <4>3. script.tries + 1 \in Nat
        BY <4>2
      <4>4. QED
        BY <3>3, <4>1, <4>3 DEF Scripts
    <3>4. QED
      BY <3>1, <3>2, <3>3
  <2>3. OwedAhead'
    BY <1>1, <2>1, <2>2 DEF OwedAhead
  <2>4. QED
    BY <1>1, <2>2, <2>3, ScriptAside
<1>6. QED
  BY <1>3, <1>4, <1>5

LEMMA FetchInvStep == FetchInv /\ [FetchNext]_fetchVars => FetchInv'
<1>1. ASSUME FetchInv, Cycle PROVE FetchInv'
  BY <1>1, StartCycleKeeps, FetchPageKeeps, CycleKeeps DEF Cycle
<1>2. ASSUME FetchInv, NEW a \in Ads, Post(a) \/ Withdraw(a) PROVE FetchInv'
  BY <1>2, PostKeeps, WithdrawKeeps
<1>3. QED
  BY <1>1, <1>2, CycleKeeps, BackfillKeeps DEF FetchNext

(* An ad on the first pages when the cycle began, and one on the board when  *)
(* the backfill script began, is read unless it is one the parser leaves out: *)
(* posting only pushes ads further down, to pages still ahead. The promise is *)
(* off once an ad was withdrawn, which pulls the others up.                  *)
THEOREM PostsHide == FetchSpec => []PostsHideNothing
<1>1. FetchInv => PostsHideNothing
  <2> SUFFICES ASSUME FetchInv PROVE PostsHideNothing
    OBVIOUS
  <2>2. ToSet(FirstPages) = {board[i] : i \in {j \in DOMAIN board : 0 < j /\ j <= Size * PagesOf(reader)}}
    BY FirstOnes DEF FetchInv
  <2>3. phase \in {"fetched", "detail", "stored"} => phase \in ReadingPhases /\ Reach = Size * PagesOf(reader)
    BY DEF ReadingPhases, Reach
  <2>4. QED
    BY <2>2, <2>3 DEF FetchInv, ReadSoFar, OwedAhead, PostsHideNothing
<1>2. QED
  BY <1>1, FetchInitially, FetchInvStep, PTL DEF FetchSpec

(* What a started process may count on.  Old rows that break the unique      *)
(* index go with the legacy index, and once the migration is through there   *)
(* are neither; nobody makes an index beside another one of the same key.    *)
IndexInv ==
    /\ svc = [p \in Processes |-> svc[p]]
    /\ doubled => "legacy" \in indexes
    /\ migrating = "done" => "legacy" \notin indexes
    /\ "unique" \in indexes => "auto" \notin indexes /\ ~doubled
    /\ indexing = "done" => "unique" \in indexes \/ raced

(* A bot service that makes its indexes itself goes on only once the unique  *)
(* index is there.                                                           *)
UpWithIndex ==
    \A p \in Services \ {"sreality"} :
        svc[p] \in {"connect", "up"} => "unique" \in indexes \/ raced

LEMMA IndexInitially == StartInit => IndexInv /\ UpWithIndex
BY DEF StartInit, IndexInv, UpWithIndex, Services

(* The steps of the two plugins of the frontend.                             *)
LEMMA PluginsKeepIndex ==
    ASSUME IndexInv, UpWithIndex,
           \/ FrontendStep \/ IndexStep \/ MigrationRefused \/ IndexingRefused
           \/ KillFrontend
    PROVE  (IndexInv /\ UpWithIndex)'
<1> USE DEF IndexInv, UpWithIndex, Services
<1>1. CASE StartFrontend \/ LookForLegacy
  BY <1>1 DEF StartFrontend, LookForLegacy, HasLegacy, notifVars
<1>2. CASE DropNotifications
  BY <1>2 DEF DropNotifications
<1>3. CASE ListIndexes \/ KillFrontend \/ FirstIndexes
  BY <1>3 DEF ListIndexes, KillFrontend, FirstIndexes, notifVars
<1>4. CASE FixIndexes
  BY <1>4 DEF FixIndexes, Foreign
<1>5. CASE CreateIndexes
  BY <1>5 DEF CreateIndexes, Conflict, Indexed
<1>6. CASE MigrationRefused \/ IndexingRefused
  BY <1>6 DEF MigrationRefused, IndexingRefused, notifVars
<1>7. QED
  BY <1>1, <1>2, <1>3, <1>4, <1>5, <1>6 DEF FrontendStep, IndexStep

(* The steps of the other processes: only EnsureIndexes makes an index, and  *)
(* only with it, or from it, does a service come up.                         *)
LEMMA ProcessesKeepIndex ==
    ASSUME IndexInv, UpWithIndex, NEW p \in Processes, ProcessStep(p) \/ KillProcess(p)
    PROVE  (IndexInv /\ UpWithIndex)'
<1> USE DEF IndexInv, UpWithIndex, Services
<1>1. CASE EnsureIndexes(p)
  BY <1>1 DEF EnsureIndexes, Conflict, Indexed, pluginVars
<1>2. ASSUME UNCHANGED <<notifVars, pluginVars>>, NEW q \in Processes, NEW v,
             svc' = [svc EXCEPT ![q] = v],
             q \in Services \ {"sreality"} /\ v \in {"connect", "up"} => svc[q] = "connect"
      PROVE  (IndexInv /\ UpWithIndex)'
  BY <1>2 DEF notifVars, pluginVars
<1>3. CASE StartProcess(p)
  <2>1. Begins(p) \notin {"connect", "up"}
    BY DEF Begins
  <2>2. QED
    BY <1>2, <1>3, <2>1 DEF StartProcess
<1>4. CASE Connect(p)
  BY <1>2, <1>4 DEF Connect
<1>5. CASE p = "notifier" /\ Dial
  BY <1>2, <1>5 DEF Dial
<1>6. CASE p = "bezrealitky" /\ (MigrateOnce \/ WriteVersion)
  BY <1>2, <1>6 DEF MigrateOnce, WriteVersion
<1>7. CASE KillProcess(p)
  BY <1>2, <1>7 DEF KillProcess
<1>8. QED
  BY <1>1, <1>3, <1>4, <1>5, <1>6, <1>7 DEF ProcessStep

LEMMA BrokerKeepsIndex ==
    ASSUME IndexInv, UpWithIndex, BrokerFails \/ BrokerReturns \/ UNCHANGED startVars
    PROVE  (IndexInv /\ UpWithIndex)'
<1> USE DEF IndexInv, UpWithIndex, Services, notifVars, pluginVars
<1>1. CASE BrokerFails
  BY <1>1 DEF BrokerFails
<1>2. CASE BrokerReturns \/ UNCHANGED startVars
  BY <1>2 DEF BrokerReturns, startVars
<1>3. QED
  BY <1>1, <1>2

(* A bot service that is up has the unique index under it, whatever order    *)
(* the processes started in and whatever rows and indexes an older version   *)
(* left, unless the migration of the frontend dropped the collection after   *)
(* the index was made.  It is the safety half of UniqueInTheEnd.             *)
THEOREM UpServicesHaveIndex == StartSpec => []UpWithIndex
<1>1. IndexInv /\ UpWithIndex /\ [StartNext]_startVars => (IndexInv /\ UpWithIndex)'
  BY PluginsKeepIndex, ProcessesKeepIndex, BrokerKeepsIndex DEF StartNext
<1>2. QED
  BY <1>1, IndexInitially, PTL DEF StartSpec
=============================================================================
