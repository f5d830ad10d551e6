--------------------------- MODULE SearchFilters ---------------------------
(***************************************************************************)
(* What the three matchers let through: a configuration sets some filters,  *)
(* each of a kind, and an advertisement has a value (or none) for what the  *)
(* filter is about.  The cycle and the welcome message each build the       *)
(* region filter on their own.                                              *)
(***************************************************************************)
EXTENDS Naturals, FiniteSets

CONSTANTS None,          \* an absent value
          Letters,       \* values of an enumeration, a tag set, keywords
          Numbers,       \* prices, areas, distances, radii
          Places         \* regions or PSC anchors

ASSUME FilterAssumption == Numbers \subseteq Nat /\ 0 \in Numbers

VARIABLES
    service,   \* which bot
    catalogued,\* places the service's collection holds
    wanted,    \* config: the filters set, with their values
    advert     \* what the advertisement has, filter by filter

filterVars == <<service, catalogued, wanted, advert>>

\* The filters of BotConfig and SrealityBotConfig.
Kinds(s) ==
    CASE s = "bazos" ->
            [category_main |-> "equal", category_sub |-> "equal", price_min |-> "least",
             price_max |-> "most", keywords |-> "every", place |-> "place"]
      [] s = "bezrealitky" ->
            [offer_type |-> "equal", estate_type |-> "equal", disposition_in |-> "among",
             ownership_in |-> "among", condition_in |-> "among", price_min |-> "least",
             price_max |-> "most", surface_min |-> "least", surface_max |-> "most",
             place |-> "place"]
      [] s = "sreality" ->
            [category_main_cb |-> "equal", category_type_cb |-> "equal",
             category_sub_cb |-> "among", price_min |-> "least", price_max |-> "most",
             ownership_in |-> "among", building_type_in |-> "among", furnished_in |-> "among",
             condition_in |-> "some", amenities_all |-> "every", media_required |-> "every",
             exclude_rk_exclusive |-> "lacks", place |-> "place"]

\* price_min and price_max are about one price.
About(f) == CASE f \in {"price_min", "price_max"} -> "price"
              [] f \in {"surface_min", "surface_max"} -> "surface"
              [] OTHER -> f

Wanted(k) ==
    CASE k = "equal" -> Letters
      [] k \in {"among", "some", "every"} -> (SUBSET Letters) \ {{}}
      [] k \in {"least", "most"} -> Numbers
      [] k = "lacks" -> {TRUE}
      [] k = "place" -> [of : (SUBSET Places) \ {{}}, radius : Numbers \cup {None}]

\* A distance for every place, or None without coordinates (a PSC).
Has(k) ==
    CASE k \in {"equal", "among"} -> Letters \cup {None}
      [] k \in {"some", "every"} -> SUBSET Letters
      [] k \in {"least", "most"} -> Numbers \cup {None}
      [] k = "lacks" -> BOOLEAN
      [] k = "place" -> [Places -> Numbers] \cup {None}

\* At most two filters are set: a matcher tests each on its own.
FilterInit ==
    /\ service \in {"bazos", "bezrealitky", "sreality"}
    /\ catalogued \in SUBSET Places
    /\ \E f, g \in DOMAIN Kinds(service) :
          \E v \in Wanted(Kinds(service)[f]), w \in Wanted(Kinds(service)[g]),
             a \in Has(Kinds(service)[f]), b \in Has(Kinds(service)[g]) :
                /\ wanted = [x \in {f, g} |-> IF x = f THEN v ELSE w]
                /\ advert = [x \in {About(f), About(g)} |-> IF x = About(f) THEN a ELSE b]
    /\ "place" \in DOMAIN wanted /\ service # "bezrealitky"
          => /\ \E r \in Places : wanted["place"].of = {r}
             /\ wanted["place"].radius # 0

-----------------------------------------------------------------------------
Within(p, known, has) == has # None /\ \E r \in p.of \cap known : has[r] <= p.radius

\* What becomes of a place and a radius before the listings are matched: "none"
\* is no filter, "skip" and "error" leave the bot out.
PscFilter(p, known) ==
    IF p.radius = None THEN "none" ELSE IF p.of \subseteq known THEN "within" ELSE "skip"
RecordsFilter(p, known) == IF p.radius = None \/ p.of \cap known = {} THEN "none" ELSE "within"
PredicateFor(p, known) == IF p.radius # None /\ p.of \subseteq known THEN "within" ELSE "none"

CycleFilter(s, p, known) == CASE s = "bazos" -> PscFilter(p, known)
                              [] s = "bezrealitky" -> RecordsFilter(p, known)
                              [] s = "sreality" -> PredicateFor(p, known)

\* Mutant: the welcome message counts without the place.
PlaceForgotten(s, p, known) == "none"

\* The welcome message builds its filter on its own.
WelcomeFilter(s, p, known) ==
    CASE s = "bazos" -> IF p.radius # None /\ ~ p.of \subseteq known THEN "error"
                        ELSE IF p.radius # None THEN "within" ELSE "none"
      [] s = "bezrealitky" -> IF known \cap p.of # {} /\ p.radius # None THEN "within" ELSE "none"
      [] s = "sreality" -> IF p.radius = None \/ p.of \cap known = {} THEN "none" ELSE "within"

\* bot-bazos compares the PSC itself when there is no radius; bot-bezrealitky
\* lets nothing through when it found no record, and forgets the regions when
\* there is no radius; bot-sreality lets everything through without a region.
InPscs(p, has, filter) == filter = "none" => has # None /\ \E r \in p.of : has[r] = 0
InRecords(p, has, filter) == p.radius = None \/ filter = "within"

Located(s, p, has, known, filter) ==
    /\ filter \notin {"skip", "error"}
    /\ filter = "within" => Within(p, known, has)
    /\ s = "bazos" => InPscs(p, has, filter)
    /\ s = "bezrealitky" => InRecords(p, has, filter)

\* Mutant: the two bounds are swapped.
Swapped(k, w, has) == has # None /\ (IF k = "least" THEN has <= w ELSE has >= w)

InRange(k, w, has) == has # None /\ (IF k = "least" THEN has >= w ELSE has <= w)

Passes(k, w, has) ==
    CASE k = "equal" -> has = w
      [] k = "among" -> has \in w
      [] k = "some" -> w \cap has # {}
      [] k = "every" -> w \subseteq has
      [] k \in {"least", "most"} -> InRange(k, w, has)
      [] k = "lacks" -> ~has

Matches(w, filter) ==
    \A f \in DOMAIN w :
        IF f = "place" THEN Located(service, w[f], advert[f], catalogued, filter)
        ELSE Passes(Kinds(service)[f], w[f], advert[About(f)])

Reported(w) ==
    Matches(w, IF "place" \in DOMAIN w THEN CycleFilter(service, w["place"], catalogued) ELSE "none")

Counted(w) ==
    Matches(w, IF "place" \in DOMAIN w THEN WelcomeFilter(service, w["place"], catalogued) ELSE "none")

\* Mutant: a price is told when both its bounds are set.
OnlyRanges(s, w, known) ==
    {f \in DOMAIN w : About(f) = "price" => {"price_min", "price_max"} \subseteq DOMAIN w}

\* _format_filter_summary and summariseFilter: the filters a welcome message
\* tells.  A size without a kind of property and a region without a record are
\* left out.
Told(s, w, known) ==
    {f \in DOMAIN w :
        /\ s = "sreality" /\ f = "category_sub_cb" => "category_main_cb" \in DOMAIN w
        /\ s = "sreality" /\ f = "place" => w[f].radius # None
        /\ s = "bezrealitky" /\ f = "place" => w[f].of \cap known # {}}

-----------------------------------------------------------------------------
\* What a user would call a wider search.
Wider(k, v, w) ==
    CASE k \in {"among", "some"} -> v \subseteq w
      [] k = "every" -> w \subseteq v
      [] k = "least" -> w <= v
      [] k = "most" -> v <= w
      [] k = "place" -> v.radius # None /\ w.radius # None
                        /\ (IF service = "bezrealitky" THEN v.of \subseteq w.of ELSE v.of = w.of)
                        /\ v.radius <= w.radius
      [] OTHER -> FALSE

Without(f) == [g \in DOMAIN wanted \ {f} |-> wanted[g]]

\* The form of the service saves the configuration again with one filter left
\* out or wider.
Widen(f) ==
    /\ \/ wanted' = Without(f)
       \/ \E w \in Wanted(Kinds(service)[f]) :
             Wider(Kinds(service)[f], wanted[f], w) /\ wanted' = [wanted EXCEPT ![f] = w]
    /\ UNCHANGED <<service, catalogued, advert>>

FilterNext == \E f \in DOMAIN wanted : Widen(f)

FilterSpec == FilterInit /\ [][FilterNext]_filterVars

-----------------------------------------------------------------------------
\* A wider search never loses an advertisement a narrower one found.
WideningNeverLoses ==
    [][Reported(wanted) => Reported(wanted)']_filterVars

\* The number in the welcome message counts the advertisements the cycle would
\* have notified of, as far as a message is sent at all.
WelcomeCountsMatches ==
    ("place" \in DOMAIN wanted
        => WelcomeFilter(service, wanted["place"], catalogued) # "error")
    => (Counted(wanted) <=> Reported(wanted))

\* The filter that keeps an advertisement out is one the welcome message told
\* the user of, but for the two it leaves out.
WhatHidesIsTold ==
    \A f \in DOMAIN wanted :
        Reported(Without(f)) /\ ~Reported(wanted)
            => \/ f \in Told(service, wanted, catalogued)
               \/ f = "category_sub_cb"
               \/ f = "place" /\ wanted[f].of \cap catalogued = {}
=============================================================================
