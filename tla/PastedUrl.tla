----------------------------- MODULE PastedUrl -----------------------------
(***************************************************************************)
(* From the address of a search on a portal to the filters a bot saves: the *)
(* service parses the address, the configuration form takes the filters     *)
(* over, the form checks them, and the service checks them again when they  *)
(* are saved.  The three services differ in what they refuse and in what    *)
(* they leave out without a word.                                           *)
(***************************************************************************)
EXTENDS Naturals, FiniteSets

CONSTANTS Known,       \* values the service knows for an enumerated parameter
          Chipless,    \* dispositions bot-bezrealitky knows and its form has no chip for
          Alien,       \* a value the service does not know, or no number
          Catalogued,  \* regions and PSC it can resolve
          Nowhere,     \* a well-formed one it cannot
          MaxRadius,   \* the largest radius, in km
          MaxRegions,  \* MAX_REGIONS of bot-bezrealitky's form
          MaxParams    \* bound: parameters of an address

\* Alien is no number and no value a service knows, nor a list of values.
ASSUME UrlAssumption ==
    /\ MaxRadius \in Nat /\ MaxRadius > 0
    /\ MaxRegions \in Nat /\ MaxRegions > 0
    /\ Alien \notin Nat \cup Known \cup Catalogued \cup {"byty", "domy"}
    /\ \A list \in SUBSET (Known \cup Catalogued \cup {Nowhere, Alien}) : Alien # list

VARIABLES
    portal,  \* which service
    url,     \* the parameters of the address, as written
    stage,   \* "pasted", "refused", "failed", "imported", "half", "blocked",
             \* "rejected" or "saved"
    form     \* the filters the form, then the service, has

urlVars == <<portal, url, stage, form>>

\* Of parameters a parser treats alike, one; of a sreality address, the segment
\* of the path that says "byty" or "domy", and the list each of them goes with.
Params(s) ==
    CASE s = "bazos" -> [category_main |-> "enum", category_sub |-> "enum",
                         cenaod |-> "number", hlokalita |-> "place", humkreis |-> "radius"]
      [] s = "bezrealitky" -> [offerType |-> "enum", disposition |-> "enums", condition |-> "enums",
                               surfaceFrom |-> "number", regionOsmIds |-> "places",
                               polygonBuffer |-> "radius"]
      [] s = "sreality" -> [property |-> "property", velikost |-> "enums", typ |-> "enums",
                            stav |-> "enum", cenaod |-> "number", region |-> "place",
                            vzdalenost |-> "radius"]

ListKinds == {"enums", "places"}

Written(k) ==
    CASE k = "enum" -> Known \cup {Alien}
      [] k = "property" -> {"byty", "domy", Alien}
      [] k = "enums" -> (SUBSET (Known \cup {Alien})) \ {{}}
      [] k = "number" -> {0, 1, Alien}
      [] k = "place" -> Catalogued \cup {Nowhere, Alien}
      [] k = "places" -> (SUBSET (Catalogued \cup {Nowhere, Alien})) \ {{}}
      [] k = "radius" -> {0, 1, MaxRadius + 1, Alien}

UrlInit ==
    /\ portal \in {"bazos", "bezrealitky", "sreality"}
    /\ url = <<>> /\ stage = "pasted" /\ form = <<>>

PlaceOf(s) == CHOOSE f \in DOMAIN Params(s) : Params(s)[f] \in {"place", "places"}
RadiusOf(s) == CHOOSE f \in DOMAIN Params(s) : Params(s)[f] = "radius"

\* The owner sets one more filter at the portal.  A path has a second segment
\* only after a first.
WriteParam(f, v) ==
    /\ stage = "pasted"
    /\ f \notin DOMAIN url /\ Cardinality(DOMAIN url) < MaxParams
    /\ f = "category_sub" => "category_main" \in DOMAIN url
    /\ url' = [x \in DOMAIN url \cup {f} |-> IF x = f THEN v ELSE url[x]]
    /\ UNCHANGED <<portal, stage, form>>

-----------------------------------------------------------------------------
\* What each parser makes of one parameter: "refuse", "fail", "leave" or "take".
Bazos(k, v) ==
    CASE v = Alien -> IF k = "enum" THEN "leave" ELSE IF k = "place" THEN "refuse" ELSE "fail"
      [] k = "number" /\ v = 0 -> "leave"
      [] k = "radius" /\ v \notin 1 .. MaxRadius \cup {Alien} -> "refuse"
      [] OTHER -> "take"

\* Mutant: an unknown disposition is skipped.
Skipping(k, v) ==
    IF v = Alien THEN "leave" ELSE IF k \in {"number", "radius"} /\ v = 0 THEN "leave" ELSE "take"

Bezrealitky(k, v) ==
    CASE v = Alien /\ k = "enum" -> "refuse"
      [] k \in ListKinds /\ Alien \in v -> "refuse"
      [] k \in {"number", "radius"} /\ v \in {0, Alien} -> "leave"
      [] OTHER -> "take"

\* velikost is read under "byty" only, typ under "domy".
Under(f) ==
    LET property == IF f = "velikost" THEN "byty" ELSE "domy"
    IN  f \in {"velikost", "typ"} =>
            "property" \in DOMAIN url /\ url["property"] = property

Sreality(f, v) ==
    LET k == Params("sreality")[f]
        nothing == v = Alien \/ (k = "enums" /\ v = {Alien}) \/ (k = "radius" /\ v = 0)
    IN  IF nothing \/ ~Under(f) THEN "leave" ELSE "take"

Reading(f) == LET k == Params(portal)[f] IN
    CASE portal = "bazos" -> Bazos(k, url[f])
      [] portal = "bezrealitky" -> Bezrealitky(k, url[f])
      [] portal = "sreality" -> Sreality(f, url[f])

Taken == {f \in DOMAIN url : Reading(f) = "take"}

\* A parser of a list of values takes those it knows.
Clean(f) == IF Params(portal)[f] = "enums" THEN url[f] \ {Alien} ELSE url[f]

\* parse of bot-sreality takes a region with a radius or not at all.
Lonely == portal = "sreality" /\ PlaceOf(portal) \in Taken
          /\ (RadiusOf(portal) \notin Taken \/ url[PlaceOf(portal)] \notin Catalogued)

Parsed == IF portal = "sreality" /\ PlaceOf(portal) \notin Taken
           THEN Taken \ {RadiusOf(portal)} ELSE Taken

Outcomes ==
    {IF Reading(f) = "fail" THEN "failed" ELSE "refused" :
        f \in {g \in DOMAIN url : Reading(g) \in {"fail", "refuse"}}}
    \cup (IF Lonely \/ Parsed = {} THEN {"refused"} ELSE {})

\* lookupRegions throws for the whole list when one region is not found.
Unfound == {f \in Parsed \cap {PlaceOf(portal)} :
                portal = "bezrealitky" /\ ~(url[f] \subseteq Catalogued)}

\* setPressed presses the chips there are.
Chips(f) == IF f = "disposition" THEN Clean(f) \ Chipless ELSE Clean(f)

Unpressed == {f \in Parsed \cap {"disposition"} : Chips(f) = {}}

\* regions.slice(0, MAX_REGIONS): which come first is the address's affair.
FirstRegions(S) ==
    IF Cardinality(S) > MaxRegions
    THEN {kept \in SUBSET S : Cardinality(kept) = MaxRegions} ELSE {S}

KeptRegions ==
    IF "regionOsmIds" \in Parsed \ Unfound THEN FirstRegions(url["regionOsmIds"]) ELSE {{}}

\* The form of bot-bezrealitky looks the regions up after it has taken the other
\* filters over; a chip that is not there and a region too many go unnoticed.
Import ==
    /\ stage = "pasted"
    /\ IF Outcomes # {} THEN stage' \in Outcomes /\ UNCHANGED form
       ELSE \E kept \in KeptRegions :
               /\ form' = [f \in Parsed \ (Unfound \cup Unpressed) |->
                             IF f = "regionOsmIds" THEN kept ELSE Chips(f)]
               /\ stage' = IF Unfound = {} THEN "imported" ELSE "half"
    /\ UNCHANGED <<portal, url>>

\* validate of bot-bezrealitky's form, the submit handler of bot-bazos's.
Blocked ==
    LET place == PlaceOf(portal) \in DOMAIN form  radius == RadiusOf(portal) \in DOMAIN form
    IN  \/ portal = "bezrealitky" /\ place /\ ~radius
        \/ portal = "bazos" /\ radius /\ ~place

\* Mutant: the region is not saved.
Placeless(c) == [f \in DOMAIN c \ {PlaceOf(portal), RadiusOf(portal)} |-> c[f]]

\* normalizeConfig; the models of the other two save what they accept.
Normalized(c) ==
    IF portal = "sreality" /\ ~ {PlaceOf(portal), RadiusOf(portal)} \subseteq DOMAIN c
    THEN [f \in DOMAIN c \ {PlaceOf(portal), RadiusOf(portal)} |-> c[f]] ELSE c

\* BotConfig of bot-bezrealitky takes radii up to a limit its parser ignores.
TooWide == portal = "bezrealitky" /\ RadiusOf(portal) \in DOMAIN form
           /\ form[RadiusOf(portal)] > MaxRadius

Save ==
    /\ stage \in {"imported", "half"}
    /\ IF Blocked THEN stage' = "blocked" /\ UNCHANGED form
       ELSE IF TooWide THEN stage' = "rejected" /\ UNCHANGED form
       ELSE stage' = "saved" /\ form' = Normalized(form)
    /\ UNCHANGED <<portal, url>>

UrlNext ==
    \/ \E f \in DOMAIN Params(portal) : \E v \in Written(Params(portal)[f]) : WriteParam(f, v)
    \/ Import \/ Save

UrlSpec == UrlInit /\ [][UrlNext]_urlVars

-----------------------------------------------------------------------------
\* The service knows the value, or some value of the list.
Readable(f) == CASE Params(portal)[f] = "enums" -> url[f] # {Alien}
                 [] Params(portal)[f] = "places" -> url[f] \subseteq Catalogued
                 [] Params(portal)[f] = "place" -> url[f] \in Catalogued
                 [] Params(portal)[f] \in {"enum", "property"} -> url[f] # Alien
                 [] OTHER -> url[f] \notin {Alien, 0}

\* What the services and forms leave out although they could read it: at
\* bot-sreality a radius without a place, and a velikost or typ the path does
\* not go with; at bot-bezrealitky dispositions none of which has a chip.
LeftOut(f) ==
    \/ portal = "sreality" /\ f = RadiusOf(portal) /\ PlaceOf(portal) \notin DOMAIN form
    \/ portal = "sreality" /\ ~Under(f)
    \/ portal = "bezrealitky" /\ f = "disposition" /\ url[f] \subseteq Chipless

\* When the address was imported and saved, each filter of it the service could
\* read is in the bot, but for what LeftOut names; and the bot has no value
\* there that the address does not have.
ImportedIsSaved ==
    stage = "saved" =>
        \A f \in DOMAIN url : Readable(f) /\ ~LeftOut(f) =>
            /\ f \in DOMAIN form
            /\ IF Params(portal)[f] \in ListKinds THEN form[f] \subseteq url[f]
               ELSE form[f] = url[f]

\* "Paste any bezrealitky.cz /vyhledat?... URL and we'll fill the form below":
\* when it says that it has, each choice and the regions of the address are a
\* filter as written, but for what the form drops silently against that text:
\* a disposition without a chip, and regions beyond the number it holds.
OnlyTheFormWidens ==
    stage = "imported" /\ portal = "bezrealitky"
        => \A f \in DOMAIN url : Params(portal)[f] \in {"enum", "enums", "places"} =>
              \/ f \in DOMAIN form /\ form[f] = url[f]
              \/ f = "disposition" /\ url[f] \cap Chipless # {}
              \/ f = "regionOsmIds" /\ Cardinality(url[f]) > MaxRegions
=============================================================================
