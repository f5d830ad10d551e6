---------------------------- MODULE Search_proofs ----------------------------
(***************************************************************************)
(* Proofs about what a search keeps of what its owner asked for:            *)
(* SearchFilters, for any catalogue of places, any numbers and any choices  *)
(* a filter may have, and PastedUrl, for any address of the three portals.  *)
(***************************************************************************)
EXTENDS SearchFilters, PastedUrl, TLAPS


FilterServices == {"bazos", "bezrealitky", "sreality"}

(* A filter that is set is one of the service's and has a value of its kind, *)
(* and the advertisement has a value of that kind for what it is about.      *)
FilterShape ==
    /\ service \in FilterServices
    /\ catalogued \in SUBSET Places
    /\ DOMAIN wanted \subseteq DOMAIN Kinds(service)
    /\ wanted = [f \in DOMAIN wanted |-> wanted[f]]
    /\ \A f \in DOMAIN wanted :
          /\ wanted[f] \in Wanted(Kinds(service)[f])
          /\ advert[About(f)] \in Has(Kinds(service)[f])

(* bot-bazos and bot-sreality take one place, with a radius that is not 0.   *)
OnePlace ==
    "place" \in DOMAIN wanted /\ service # "bezrealitky"
        => /\ \E r \in Places : wanted["place"].of = {r}
           /\ wanted["place"].radius # 0

FilterInv == FilterShape /\ OnePlace

FilterNames == {"category_main", "category_sub", "price_min", "price_max", "keywords", "place",
   "offer_type", "estate_type", "disposition_in", "ownership_in", "condition_in",
   "surface_min", "surface_max", "category_main_cb", "category_type_cb", "category_sub_cb",
   "building_type_in", "furnished_in", "amenities_all", "media_required", "exclude_rk_exclusive"}

FilterKinds == {"equal", "least", "most", "every", "place", "among", "some", "lacks"}

LEMMA KindsTyped ==
    ASSUME NEW s \in FilterServices
    PROVE  /\ DOMAIN Kinds(s) \subseteq FilterNames
           /\ \A f \in DOMAIN Kinds(s) : Kinds(s)[f] \in FilterKinds
           /\ \A f \in DOMAIN Kinds(s) : Kinds(s)[f] = "place" <=> f = "place"
<1>1. CASE s = "bazos"
  BY <1>1 DEF Kinds, FilterNames, FilterKinds
<1>2. CASE s = "bezrealitky"
  BY <1>2 DEF Kinds, FilterNames, FilterKinds
<1>3. CASE s = "sreality"
  BY <1>3 DEF Kinds, FilterNames, FilterKinds
<1>4. QED
  BY <1>1, <1>2, <1>3 DEF FilterServices

(* Two filters about one thing are the two bounds of a range.                *)
LEMMA AboutOne ==
    ASSUME NEW s \in FilterServices, NEW f \in DOMAIN Kinds(s), NEW g \in DOMAIN Kinds(s),
           About(f) = About(g)
    PROVE  Has(Kinds(s)[f]) = Has(Kinds(s)[g])
<1>1. f = g \/ (f \in {"price_min", "price_max"} /\ g \in {"price_min", "price_max"})
            \/ (f \in {"surface_min", "surface_max"} /\ g \in {"surface_min", "surface_max"})
  <2>1. f \in FilterNames /\ g \in FilterNames
    BY KindsTyped
  <2>2. QED
    BY <2>1 DEF About, FilterNames
<1>2. \A h \in DOMAIN Kinds(s) : h \in {"price_min", "price_max", "surface_min", "surface_max"} =>
         Kinds(s)[h] \in {"least", "most"}
  <2>1. CASE s = "bazos"
    BY <2>1 DEF Kinds
  <2>2. CASE s = "bezrealitky"
    BY <2>2 DEF Kinds
  <2>3. CASE s = "sreality"
    BY <2>3 DEF Kinds
  <2>4. QED
    BY <2>1, <2>2, <2>3 DEF FilterServices
<1>3. Has("least") = Has("most")
  BY DEF Has
<1>4. QED
  BY <1>1, <1>2, <1>3

LEMMA FilterInitially == FilterInit => FilterInv
<1> SUFFICES ASSUME FilterInit PROVE FilterInv
  OBVIOUS
<1>0. service \in FilterServices /\ catalogued \in SUBSET Places
  BY DEF FilterInit, FilterServices
<1>1. PICK f \in DOMAIN Kinds(service), g \in DOMAIN Kinds(service) :
          \E v \in Wanted(Kinds(service)[f]), w \in Wanted(Kinds(service)[g]),
             a \in Has(Kinds(service)[f]), b \in Has(Kinds(service)[g]) :
                /\ wanted = [x \in {f, g} |-> IF x = f THEN v ELSE w]
                /\ advert = [x \in {About(f), About(g)} |-> IF x = About(f) THEN a ELSE b]
  BY DEF FilterInit
<1>2. PICK v \in Wanted(Kinds(service)[f]), w \in Wanted(Kinds(service)[g]),
             a \in Has(Kinds(service)[f]), b \in Has(Kinds(service)[g]) :
                /\ wanted = [x \in {f, g} |-> IF x = f THEN v ELSE w]
                /\ advert = [x \in {About(f), About(g)} |-> IF x = About(f) THEN a ELSE b]
  BY <1>1
<1>3. DOMAIN wanted = {f, g} /\ wanted = [x \in DOMAIN wanted |-> wanted[x]]
  BY <1>2
<1>4. wanted[f] = v /\ (g # f => wanted[g] = w) /\ advert[About(f)] = a
      /\ (About(g) # About(f) => advert[About(g)] = b)
  BY <1>2
<1>5. About(f) = About(g) => advert[About(g)] \in Has(Kinds(service)[g])
  BY <1>0, <1>4, AboutOne
<1>6. FilterShape
  BY <1>0, <1>3, <1>4, <1>5 DEF FilterShape
<1>7. QED
  BY <1>6 DEF FilterInv, OnePlace, FilterInit

(* A step leaves one filter out or replaces its value by a wider one.        *)
LEMMA FilterInvStep == FilterInv /\ [FilterNext]_filterVars => FilterInv'
<1> SUFFICES ASSUME FilterInv, [FilterNext]_filterVars PROVE FilterInv'
  OBVIOUS
<1> USE DEF FilterInv
<1>1. CASE UNCHANGED filterVars
  BY <1>1 DEF filterVars, FilterShape, OnePlace
<1>2. ASSUME NEW f \in DOMAIN wanted, Widen(f) PROVE FilterInv'
  <2>1. UNCHANGED <<service, catalogued, advert>>
    BY <1>2 DEF Widen
  <2>2. CASE wanted' = Without(f)
    <3>1. DOMAIN wanted' = DOMAIN wanted \ {f} /\ \A g \in DOMAIN wanted' : wanted'[g] = wanted[g]
      BY <2>2 DEF Without
    <3>2. wanted' = [g \in DOMAIN wanted' |-> wanted'[g]]
      BY <2>2 DEF Without
    <3>3. FilterShape'
      BY <2>1, <3>1, <3>2 DEF FilterShape
    <3>4. OnePlace'
      BY <2>1, <3>1 DEF OnePlace
    <3>5. QED
      BY <3>3, <3>4
  <2>3. ASSUME NEW w \in Wanted(Kinds(service)[f]), Wider(Kinds(service)[f], wanted[f], w),
               wanted' = [wanted EXCEPT ![f] = w]
        PROVE  FilterInv'
    <3>1. DOMAIN wanted' = DOMAIN wanted /\ wanted'[f] = w
          /\ \A g \in DOMAIN wanted \ {f} : wanted'[g] = wanted[g]
      BY <2>3 DEF FilterShape
    <3>2. wanted' = [g \in DOMAIN wanted' |-> wanted'[g]]
      BY <2>3 DEF FilterShape
    <3>3. FilterShape'
      BY <2>1, <2>3, <3>1, <3>2 DEF FilterShape
    <3>4. CASE f # "place"
      BY <2>1, <3>1, <3>3, <3>4 DEF OnePlace
    <3>5. CASE f = "place"
      <4>1. Kinds(service)[f] = "place"
        BY <3>5, KindsTyped DEF FilterShape
      <4>2. /\ wanted[f].radius \in Numbers /\ w.radius \in Numbers
            /\ service # "bezrealitky" => wanted[f].of = w.of
            /\ wanted[f].radius <= w.radius
        <5>1. wanted[f] \in [of : (SUBSET Places) \ {{}}, radius : Numbers \cup {None}]
              /\ w \in [of : (SUBSET Places) \ {{}}, radius : Numbers \cup {None}]
          BY <2>3, <4>1 DEF FilterShape, Wanted
        <5>2. QED
          BY <2>3, <4>1, <5>1 DEF Wider
      <4>3. service # "bezrealitky" => wanted[f].radius > 0
        <5>1. service # "bezrealitky" => wanted[f].radius # 0
          BY <3>5 DEF OnePlace
        <5>2. wanted[f].radius \in Nat
          BY <4>2, FilterAssumption
        <5>3. QED
          BY <5>1, <5>2
      <4>4. service # "bezrealitky" => w.radius # 0
        <5>1. wanted[f].radius \in Nat /\ w.radius \in Nat
          BY <4>2, FilterAssumption
        <5>2. QED
          BY <4>2, <4>3, <5>1
      <4>5. service # "bezrealitky" => \E r \in Places : w.of = {r}
        BY <3>5, <4>2 DEF OnePlace
      <4>6. OnePlace'
        BY <2>1, <3>1, <3>5, <4>4, <4>5 DEF OnePlace
      <4>7. QED
        BY <3>3, <4>6
    <3>6. QED
      BY <3>4, <3>5
  <2>4. QED
    BY <1>2, <2>2, <2>3 DEF Widen
<1>3. QED
  BY <1>1, <1>2 DEF FilterNext

(* Whatever is widened, each filter keeps a value of its kind, and the place of *)
(* bot-bazos and bot-sreality stays one region with a radius above 0.        *)
THEOREM FiltersKeepShape == FilterSpec => []FilterInv
BY FilterInitially, FilterInvStep, PTL DEF FilterSpec

(* A wider value lets through whatever the narrower one did.                 *)
LEMMA PassesWider ==
    ASSUME NEW k \in FilterKinds \ {"place"}, NEW v \in Wanted(k), NEW w \in Wanted(k),
           NEW has \in Has(k), Wider(k, v, w), Passes(k, v, has)
    PROVE  Passes(k, w, has)
<1>1. CASE k \in {"among", "some"}
  BY <1>1 DEF Wider, Passes, FilterKinds
<1>2. CASE k = "every"
  BY <1>2 DEF Wider, Passes
<1>3. CASE k \in {"least", "most"}
  <2>1. v \in Nat /\ w \in Nat /\ (has # None => has \in Nat)
    BY <1>3, FilterAssumption DEF Wanted, Has
  <2>2. InRange(k, v, has)
    BY <1>3 DEF Passes
  <2>3. InRange(k, w, has)
    BY <1>3, <2>1, <2>2 DEF Wider, InRange
  <2>4. QED
    BY <1>3, <2>3 DEF Passes
<1>4. CASE k \in {"equal", "lacks"}
  BY <1>4 DEF Wider
<1>5. QED
  BY <1>1, <1>2, <1>3, <1>4 DEF FilterKinds

LocatedBy(p, has) == Located(service, p, has, catalogued, CycleFilter(service, p, catalogued))

(* So does a wider place, whichever way the service turns it into a filter.  *)
LEMMA LocatedWider ==
    ASSUME FilterInv, NEW v \in Wanted("place"), NEW w \in Wanted("place"),
           NEW has \in Has("place"), Wider("place", v, w), LocatedBy(v, has)
    PROVE  LocatedBy(w, has)
<1>1. service \in FilterServices
  BY DEF FilterInv, FilterShape
<1>2. /\ v \in [of : (SUBSET Places) \ {{}}, radius : Numbers \cup {None}]
      /\ w \in [of : (SUBSET Places) \ {{}}, radius : Numbers \cup {None}]
  BY DEF Wanted
<1>3. /\ v.radius # None /\ w.radius # None /\ v.radius <= w.radius
      /\ v.of \subseteq w.of
      /\ service # "bezrealitky" => v.of = w.of
  BY DEF Wider
<1>4. v.radius \in Nat /\ w.radius \in Nat
  BY <1>2, <1>3, FilterAssumption
<1>5. has # None => has \in [Places -> Numbers]
  BY DEF Has
<1>6. Within(v, catalogued, has) => Within(w, catalogued, has)
  <2> SUFFICES ASSUME Within(v, catalogued, has) PROVE Within(w, catalogued, has)
    OBVIOUS
  <2>1. PICK r \in v.of \cap catalogued : has[r] <= v.radius
    BY DEF Within
  <2>2. has # None /\ has[r] \in Nat
    BY <1>2, <1>5, FilterAssumption DEF Within
  <2>3. has[r] <= w.radius
    BY <1>3, <1>4, <2>1, <2>2
  <2>4. QED
    BY <1>3, <2>2, <2>3 DEF Within
<1>7. CASE service = "bazos"
  BY <1>3, <1>6, <1>7 DEF LocatedBy, Located, CycleFilter, PscFilter, InPscs
<1>8. CASE service = "sreality"
  BY <1>3, <1>6, <1>8 DEF LocatedBy, Located, CycleFilter, PredicateFor
<1>9. CASE service = "bezrealitky"
  <2>1. RecordsFilter(v, catalogued) = "within"
    BY <1>3, <1>9 DEF LocatedBy, Located, CycleFilter, RecordsFilter, InRecords
  <2>2. v.of \cap catalogued # {} /\ Within(v, catalogued, has)
    BY <2>1, <1>9, <1>3 DEF LocatedBy, Located, CycleFilter, RecordsFilter
  <2>3. RecordsFilter(w, catalogued) = "within"
    BY <1>3, <2>2 DEF RecordsFilter
  <2>4. QED
    BY <1>6, <1>9, <2>2, <2>3 DEF LocatedBy, Located, CycleFilter, InRecords
<1>10. QED
  BY <1>1, <1>7, <1>8, <1>9 DEF FilterServices

Lets(w, f) ==
    IF f = "place" THEN LocatedBy(w[f], advert[f])
    ELSE Passes(Kinds(service)[f], w[f], advert[About(f)])

(* The matcher tests each filter on its own.                                 *)
LEMMA ReportedIsEach ==
    ASSUME NEW w
    PROVE  Reported(w) <=> \A f \in DOMAIN w : Lets(w, f)
BY DEF Reported, Matches, Lets, LocatedBy

LEMMA WidenReports ==
    ASSUME FilterInv, FilterInv', NEW f \in DOMAIN wanted, Widen(f), Reported(wanted)
    PROVE  Reported(wanted)'
<1>1. UNCHANGED <<service, catalogued, advert>>
  BY DEF Widen
<1>2. \A g \in DOMAIN wanted : Lets(wanted, g)
  BY ReportedIsEach
<1>3. SUFFICES \A g \in DOMAIN wanted' : Lets(wanted', g)
  <2>1. Reported(wanted') <=> \A g \in DOMAIN wanted' : Lets(wanted', g)
    BY ReportedIsEach
  <2>2. Reported(wanted)' <=> Reported(wanted')
    BY <1>1 DEF Reported, Matches, CycleFilter, Located, InRecords, InPscs
  <2>3. QED
    BY <2>1, <2>2
<1>4. CASE wanted' = Without(f)
  BY <1>2, <1>4 DEF Without, Lets
<1>5. ASSUME NEW w \in Wanted(Kinds(service)[f]), Wider(Kinds(service)[f], wanted[f], w),
             wanted' = [wanted EXCEPT ![f] = w]
      PROVE  \A g \in DOMAIN wanted' : Lets(wanted', g)
  <2>1. DOMAIN wanted' = DOMAIN wanted /\ wanted'[f] = w
        /\ \A g \in DOMAIN wanted \ {f} : wanted'[g] = wanted[g]
    BY <1>5 DEF FilterInv, FilterShape
  <2>2. \A g \in DOMAIN wanted \ {f} : Lets(wanted', g)
    BY <1>2, <2>1 DEF Lets
  <2>3. /\ wanted[f] \in Wanted(Kinds(service)[f])
        /\ advert[About(f)] \in Has(Kinds(service)[f])
        /\ Kinds(service)[f] \in FilterKinds
        /\ Kinds(service)[f] = "place" <=> f = "place"
    BY KindsTyped DEF FilterInv, FilterShape
  <2>4. CASE f = "place"
    <3>1. About(f) = f
      BY <2>4 DEF About
    <3>2. LocatedBy(wanted[f], advert[f])
      BY <1>2, <2>4 DEF Lets
    <3>3. LocatedBy(w, advert[f])
      BY <1>5, <2>3, <2>4, <3>1, <3>2, LocatedWider
    <3>4. QED
      BY <2>1, <2>2, <2>4, <3>3 DEF Lets
  <2>5. CASE f # "place"
    <3>1. Passes(Kinds(service)[f], wanted[f], advert[About(f)])
      BY <1>2, <2>5 DEF Lets
    <3>2. Passes(Kinds(service)[f], w, advert[About(f)])
      BY <1>5, <2>3, <2>5, <3>1, PassesWider
    <3>3. QED
      BY <2>1, <2>2, <2>5, <3>2 DEF Lets
  <2>6. QED
    BY <2>4, <2>5
<1>6. QED
  BY <1>4, <1>5 DEF Widen

(* Leaving a filter out, or giving it a wider value, never hides an ad the   *)
(* matcher reported before: the three matchers test each filter on its own   *)
(* (ReportedIsEach), and each of their tests grows with its value.           *)
THEOREM WideningIsSafe == FilterSpec => WideningNeverLoses
<1>1. FilterInv /\ FilterInv' /\ [FilterNext]_filterVars
        => [Reported(wanted) => Reported(wanted)']_filterVars
  BY WidenReports DEF FilterNext
<1>2. QED
  BY <1>1, FilterInitially, FilterInvStep, PTL DEF FilterSpec, WideningNeverLoses

LEMMA FiltersAgree ==
    ASSUME FilterInv, "place" \in DOMAIN wanted,
           WelcomeFilter(service, wanted["place"], catalogued) # "error"
    PROVE  WelcomeFilter(service, wanted["place"], catalogued)
             = CycleFilter(service, wanted["place"], catalogued)
<1>1. service \in FilterServices
  BY DEF FilterInv, FilterShape
<1>2. CASE service = "bazos"
  BY <1>2 DEF WelcomeFilter, CycleFilter, PscFilter
<1>3. CASE service = "bezrealitky"
  BY <1>3 DEF WelcomeFilter, CycleFilter, RecordsFilter
<1>4. CASE service = "sreality"
  <2>1. PICK r \in Places : wanted["place"].of = {r}
    BY <1>4 DEF FilterInv, OnePlace
  <2>2. wanted["place"].of \subseteq catalogued <=> wanted["place"].of \cap catalogued # {}
    BY <2>1
  <2>3. QED
    BY <1>4, <2>2 DEF WelcomeFilter, CycleFilter, PredicateFor
<1>5. QED
  BY <1>1, <1>2, <1>3, <1>4 DEF FilterServices

(* The welcome mail counts an ad exactly when a cycle would report it, unless *)
(* the filter could not be built and no count is given: the two paths through *)
(* the code turn one place into the same filter (FiltersAgree).              *)
THEOREM WelcomeCounts == FilterSpec => []WelcomeCountsMatches
<1>1. FilterInv => WelcomeCountsMatches
  BY FiltersAgree DEF WelcomeCountsMatches, Counted, Reported
<1>2. QED
  BY <1>1, FilterInitially, FilterInvStep, PTL DEF FilterSpec

(* A filter that alone hides an ad is named in the welcome mail, but for the *)
(* layouts of bot-sreality and a place none of whose regions is catalogued.  *)
THEOREM HiddenIsTold == FilterSpec => []WhatHidesIsTold
<1>1. FilterInv => WhatHidesIsTold
  <2> SUFFICES ASSUME FilterInv, NEW f \in DOMAIN wanted,
                      Reported(Without(f)), ~Reported(wanted)
               PROVE  \/ f \in Told(service, wanted, catalogued)
                      \/ f = "category_sub_cb"
                      \/ f = "place" /\ wanted[f].of \cap catalogued = {}
    BY DEF WhatHidesIsTold
  <2>1. \A g \in DOMAIN wanted \ {f} : Lets(wanted, g)
    <3>1. \A g \in DOMAIN wanted \ {f} : Lets(Without(f), g)
      BY ReportedIsEach DEF Without
    <3>2. QED
      BY <3>1 DEF Lets, Without
  <2>2. ~Lets(wanted, f)
    BY <2>1, ReportedIsEach
  <2>3. CASE f = "place" /\ service = "sreality"
    <3>1. wanted[f].radius # None
      BY <2>2, <2>3 DEF Lets, LocatedBy, Located, CycleFilter, PredicateFor
    <3>2. QED
      BY <2>3, <3>1 DEF Told
  <2>4. CASE ~(f = "place" /\ service = "sreality")
    BY <2>4 DEF Told
  <2>5. QED
    BY <2>3, <2>4
<1>2. QED
  BY <1>1, FilterInitially, FilterInvStep, PTL DEF FilterSpec


Portals == {"bazos", "bezrealitky", "sreality"}

UrlShape ==
    /\ portal \in Portals
    /\ DOMAIN url \subseteq DOMAIN Params(portal)
    /\ \A f \in DOMAIN url : url[f] \in Written(Params(portal)[f])

(* What the form has between the import and the save.                        *)
FormTaken ==
    stage \in {"imported", "half"} =>
        /\ Outcomes = {}
        /\ \E kept \in KeptRegions :
              form = [f \in Parsed \ (Unfound \cup Unpressed) |->
                        IF f = "regionOsmIds" THEN kept ELSE Chips(f)]
        /\ stage = "imported" => Unfound = {}

UrlInv == UrlShape /\ FormTaken /\ ImportedIsSaved

UrlKinds == {"enum", "property", "enums", "number", "place", "places", "radius"}

(* One parameter of an address is the place, another one its radius; only    *)
(* bot-bezrealitky takes several places, and its list of dispositions alone  *)
(* is shown with chips that may be missing.                                  *)
LEMMA OnePlaceParam ==
    ASSUME NEW s \in Portals
    PROVE  /\ PlaceOf(s) \in DOMAIN Params(s) /\ RadiusOf(s) \in DOMAIN Params(s)
           /\ \A f \in DOMAIN Params(s) :
                /\ Params(s)[f] \in UrlKinds
                /\ Params(s)[f] \in {"place", "places"} <=> f = PlaceOf(s)
                /\ Params(s)[f] = "places" <=> s = "bezrealitky" /\ f = PlaceOf(s)
                /\ Params(s)[f] = "radius" <=> f = RadiusOf(s)
                /\ f = "regionOsmIds" <=> Params(s)[f] = "places"
                /\ f = "disposition" => s = "bezrealitky" /\ Params(s)[f] = "enums"
                /\ f \in {"velikost", "typ"} => s = "sreality"
<1>1. /\ \E f \in DOMAIN Params(s) : Params(s)[f] \in {"place", "places"}
      /\ \E f \in DOMAIN Params(s) : Params(s)[f] = "radius"
      /\ \A f, g \in DOMAIN Params(s) :
            /\ Params(s)[f] \in {"place", "places"} /\ Params(s)[g] \in {"place", "places"} => f = g
            /\ Params(s)[f] = "radius" /\ Params(s)[g] = "radius" => f = g
      /\ \A f \in DOMAIN Params(s) :
            /\ Params(s)[f] \in UrlKinds
            /\ Params(s)[f] = "places" <=> s = "bezrealitky" /\ Params(s)[f] \in {"place", "places"}
            /\ f = "regionOsmIds" <=> Params(s)[f] = "places"
            /\ f = "disposition" => s = "bezrealitky" /\ Params(s)[f] = "enums"
            /\ f \in {"velikost", "typ"} => s = "sreality"
  <2>1. CASE s = "bazos"
    BY <2>1 DEF Params, UrlKinds
  <2>2. CASE s = "bezrealitky"
    BY <2>2 DEF Params, UrlKinds
  <2>3. CASE s = "sreality"
    BY <2>3 DEF Params, UrlKinds
  <2>4. QED
    BY <2>1, <2>2, <2>3 DEF Portals
<1>2. PlaceOf(s) \in DOMAIN Params(s) /\ Params(s)[PlaceOf(s)] \in {"place", "places"}
  BY <1>1 DEF PlaceOf
<1>3. RadiusOf(s) \in DOMAIN Params(s) /\ Params(s)[RadiusOf(s)] = "radius"
  BY <1>1 DEF RadiusOf
<1>4. QED
  BY <1>1, <1>2, <1>3

LEMMA UrlInitially == UrlInit => UrlInv
BY DEF UrlInit, UrlInv, UrlShape, Portals, FormTaken, ImportedIsSaved

(* The owner sets one more filter at the portal: nothing is imported yet.    *)
LEMMA WriteKeeps ==
    ASSUME UrlInv, NEW f \in DOMAIN Params(portal), NEW v \in Written(Params(portal)[f]),
           WriteParam(f, v)
    PROVE  UrlInv'
<1>1. /\ portal' = portal /\ stage' = "pasted"
      /\ DOMAIN url' = DOMAIN url \cup {f}
      /\ \A x \in DOMAIN url' : url'[x] = IF x = f THEN v ELSE url[x]
  BY DEF WriteParam
<1>2. UrlShape'
  BY <1>1 DEF UrlInv, UrlShape
<1>3. QED
  BY <1>1, <1>2 DEF UrlInv, FormTaken, ImportedIsSaved

(* An address that is not refused has each parameter the service can read,   *)
(* and that its path goes with, among those its parser takes over.           *)
LEMMA ReadableIsTaken ==
    ASSUME UrlShape, Outcomes = {}, NEW f \in DOMAIN url, Readable(f),
           portal = "sreality" => Under(f)
    PROVE  f \in Taken
<1>1. Reading(f) \notin {"fail", "refuse"}
  BY DEF Outcomes
<1>2. /\ portal \in Portals
      /\ Params(portal)[f] \in UrlKinds
      /\ url[f] \in Written(Params(portal)[f])
  BY OnePlaceParam DEF UrlShape
<1>3. url[f] # Alien /\ ~(Params(portal)[f] \in {"number", "radius"} /\ url[f] = 0)
      /\ ~(Params(portal)[f] = "enums" /\ url[f] = {Alien})
  <2>1. CASE Params(portal)[f] \in {"enum", "property", "number", "radius"}
    BY <2>1 DEF Readable
  <2>2. CASE Params(portal)[f] \in {"place", "places", "enums"}
    BY <1>2, <2>2, UrlAssumption DEF Readable, Written
  <2>3. QED
    BY <1>2, <2>1, <2>2 DEF UrlKinds
<1>4. CASE portal = "bazos"
  BY <1>1, <1>2, <1>3, <1>4 DEF Taken, Reading, Bazos
<1>5. CASE portal = "bezrealitky"
  <2>1. Bezrealitky(Params(portal)[f], url[f]) \in {"take", "leave", "refuse"}
    BY DEF Bezrealitky
  <2>2. Bezrealitky(Params(portal)[f], url[f]) \notin {"leave", "refuse"}
    BY <1>1, <1>3, <1>5 DEF Reading, Bezrealitky, ListKinds
  <2>3. QED
    BY <1>5, <2>1, <2>2 DEF Taken, Reading
<1>6. CASE portal = "sreality"
  BY <1>3, <1>6 DEF Taken, Reading, Sreality
<1>7. QED
  BY <1>2, <1>4, <1>5, <1>6 DEF Portals

(* What a parser makes of an address hangs on the address alone.             *)
LEMMA SameReading ==
    ASSUME portal' = portal, url' = url
    PROVE  /\ Outcomes' = Outcomes /\ Parsed' = Parsed /\ Unfound' = Unfound
           /\ Unpressed' = Unpressed /\ KeptRegions' = KeptRegions
           /\ \A f \in DOMAIN url : Chips(f)' = Chips(f)
<1>1. \A f \in DOMAIN url : Reading(f)' = Reading(f)
  BY DEF Reading, Sreality, Under
<1>2. Taken' = Taken
  BY <1>1 DEF Taken
<1>3. Parsed' = Parsed /\ (Lonely' <=> Lonely)
  BY <1>2 DEF Parsed, Lonely
<1>4. {g \in DOMAIN url' : Reading(g)' \in {"fail", "refuse"}} = {g \in DOMAIN url : Reading(g) \in {"fail", "refuse"}}
  BY <1>1
<1>5. Outcomes' = Outcomes
  BY <1>1, <1>3, <1>4 DEF Outcomes
<1>6. Unfound' = Unfound
  BY <1>3 DEF Unfound
<1>7. \A f \in DOMAIN url : Chips(f)' = Chips(f)
  BY DEF Chips, Clean
<1>8. Parsed \subseteq DOMAIN url
  BY DEF Parsed, Taken
<1>9. Unpressed' = Unpressed
  BY <1>3, <1>7, <1>8 DEF Unpressed
<1>10. KeptRegions' = KeptRegions
  BY <1>3, <1>6 DEF KeptRegions, FirstRegions
<1>11. QED
  BY <1>3, <1>5, <1>6, <1>7, <1>9, <1>10

(* An import keeps regions of the address, and all of them if they are few.  *)
LEMMA FewRegionsKept ==
    ASSUME NEW S, NEW kept \in FirstRegions(S)
    PROVE  kept \subseteq S /\ (~(Cardinality(S) > MaxRegions) => kept = S)
BY DEF FirstRegions

(* What the import took over is in the form as the chips show it.            *)
LEMMA TakenIsShown ==
    ASSUME UrlShape, FormTaken, stage \in {"imported", "half"},
           NEW f \in Parsed \ (Unfound \cup Unpressed)
    PROVE  /\ f \in DOMAIN form
           /\ f # "regionOsmIds" => form[f] = Chips(f)
           /\ f = "regionOsmIds" => form[f] \in FirstRegions(url[f])
<1>1. PICK kept \in KeptRegions :
          form = [g \in Parsed \ (Unfound \cup Unpressed) |->
                    IF g = "regionOsmIds" THEN kept ELSE Chips(g)]
  BY DEF FormTaken
<1>2. QED
  BY <1>1 DEF KeptRegions

LEMMA SavedKeeps ==
    ASSUME UrlInv, Save
    PROVE  UrlInv'
<1> USE DEF UrlInv
<1>1. UNCHANGED <<portal, url>> /\ stage' \in {"blocked", "rejected", "saved"}
  BY DEF Save
<1>2. UrlShape'
  BY <1>1 DEF UrlShape
<1>3. FormTaken'
  BY <1>1 DEF FormTaken
<1>4. ImportedIsSaved'
  <2> SUFFICES ASSUME stage' = "saved", NEW f \in DOMAIN url, Readable(f), ~LeftOut(f)'
               PROVE  /\ f \in DOMAIN form'
                      /\ IF Params(portal)[f] \in ListKinds THEN form'[f] \subseteq url[f]
                         ELSE form'[f] = url[f]
    BY <1>1 DEF ImportedIsSaved, Readable
  <2>1. stage \in {"imported", "half"} /\ form' = Normalized(form)
    BY DEF Save
  <2>2. Outcomes = {} /\ DOMAIN form = Parsed \ (Unfound \cup Unpressed)
    BY <2>1 DEF FormTaken
  <2>3. f \in DOMAIN Params(portal) /\ portal \in Portals
        /\ url[f] \in Written(Params(portal)[f])
    BY DEF UrlShape
  <2>4. f \in Taken
    BY <1>1, <2>2, ReadableIsTaken DEF LeftOut, Under
  <2>5. f \notin Unfound
    <3>1. CASE portal = "bezrealitky" /\ f = PlaceOf(portal)
      BY <2>3, <3>1, OnePlaceParam DEF Readable, Unfound
    <3>2. QED
      BY <3>1 DEF Unfound
  <2>6. f \notin Unpressed
    <3>1. CASE f = "disposition"
      <4>1. portal = "bezrealitky" /\ Params(portal)[f] = "enums"
        BY <2>3, <3>1, OnePlaceParam
      <4>2. ~(url[f] \subseteq Chipless)
        BY <1>1, <3>1, <4>1 DEF LeftOut
      <4>3. Alien \notin url[f]
        <5>1. Bezrealitky("enums", url[f]) # "refuse"
          BY <2>2, <4>1 DEF Outcomes, Reading
        <5>2. url[f] # Alien
          BY <2>3, <4>1, UrlAssumption DEF Written
        <5>3. QED
          BY <5>1, <5>2 DEF Bezrealitky, ListKinds
      <4>4. QED
        BY <3>1, <4>1, <4>2, <4>3 DEF Unpressed, Chips, Clean
    <3>2. QED
      BY <3>1 DEF Unpressed
  <2>7. f \in Parsed => /\ f \in DOMAIN form
                         /\ IF Params(portal)[f] \in ListKinds THEN form[f] \subseteq url[f]
                            ELSE form[f] = url[f]
    <3>1. SUFFICES ASSUME f \in Parsed
                   PROVE  /\ f \in DOMAIN form
                          /\ IF Params(portal)[f] \in ListKinds THEN form[f] \subseteq url[f]
                             ELSE form[f] = url[f]
      OBVIOUS
    <3>2. /\ f \in DOMAIN form
          /\ f # "regionOsmIds" => form[f] = Chips(f)
          /\ f = "regionOsmIds" => form[f] \in FirstRegions(url[f])
      BY <2>1, <2>5, <2>6, <3>1, TakenIsShown
    <3>3. CASE f = "regionOsmIds"
      BY <2>3, <3>2, <3>3, FewRegionsKept, OnePlaceParam DEF ListKinds
    <3>4. CASE f # "regionOsmIds"
      <4>1. Params(portal)[f] # "places"
        BY <2>3, <3>4, OnePlaceParam
      <4>2. f = "disposition" => Params(portal)[f] = "enums"
        BY <2>3, OnePlaceParam
      <4>3. QED
        BY <3>2, <3>4, <4>1, <4>2 DEF Chips, Clean, ListKinds
    <3>5. QED
      BY <3>3, <3>4
  <2>8. CASE portal # "sreality"
    BY <2>1, <2>4, <2>7, <2>8 DEF Parsed, Normalized
  <2>9. CASE portal = "sreality" /\ PlaceOf(portal) \in Taken
    <3>1. RadiusOf(portal) \in Taken
      BY <2>2, <2>9 DEF Outcomes, Lonely
    <3>2. Parsed = Taken /\ Unfound = {} /\ Unpressed = {}
      <4>1. Parsed = Taken /\ Unfound = {}
        BY <2>9 DEF Parsed, Unfound
      <4>2. "disposition" \notin DOMAIN url
        BY <2>9, OnePlaceParam DEF UrlShape
      <4>3. QED
        BY <4>1, <4>2 DEF Unpressed, Taken
    <3>3. Normalized(form) = form
      BY <2>2, <2>9, <3>1, <3>2 DEF Normalized
    <3>4. QED
      BY <2>1, <2>4, <2>7, <3>2, <3>3
  <2>10. CASE portal = "sreality" /\ PlaceOf(portal) \notin Taken
    <3>1. f # PlaceOf(portal) /\ PlaceOf(portal) \notin DOMAIN form
      BY <2>2, <2>4, <2>10 DEF Parsed
    <3>2. /\ DOMAIN form' = DOMAIN form \ {PlaceOf(portal), RadiusOf(portal)}
          /\ \A g \in DOMAIN form' : form'[g] = form[g]
      BY <2>1, <2>10, <3>1 DEF Normalized
    <3>3. f # RadiusOf(portal)
      BY <1>1, <2>10, <3>1, <3>2 DEF LeftOut
    <3>4. f \in Parsed
      BY <2>4, <2>10, <3>3 DEF Parsed
    <3>5. QED
      BY <2>7, <3>1, <3>2, <3>3, <3>4
  <2>11. QED
    BY <2>8, <2>9, <2>10
<1>5. QED
  BY <1>2, <1>3, <1>4

LEMMA ImportKeeps ==
    ASSUME UrlInv, Import
    PROVE  UrlInv'
<1> USE DEF UrlInv
<1>1. UNCHANGED <<portal, url>>
  BY DEF Import
<1>2. UrlShape'
  BY <1>1 DEF UrlShape
<1>3. /\ UNCHANGED <<Outcomes, Parsed, Unfound, Unpressed, KeptRegions>>
      /\ \A f \in DOMAIN url : Chips(f)' = Chips(f)
  BY <1>1, SameReading
<1>4. stage' # "saved"
  BY DEF Import, Outcomes
<1>5. CASE Outcomes # {}
  <2>1. stage' \in {"failed", "refused"}
    BY <1>5 DEF Import, Outcomes
  <2>2. QED
    BY <1>2, <1>4, <2>1 DEF FormTaken, ImportedIsSaved
<1>6. CASE Outcomes = {}
  <2>1. PICK kept \in KeptRegions :
          /\ form' = [f \in Parsed \ (Unfound \cup Unpressed) |->
                        IF f = "regionOsmIds" THEN kept ELSE Chips(f)]
          /\ stage' = IF Unfound = {} THEN "imported" ELSE "half"
    BY <1>6 DEF Import
  <2>2. form' = [f \in Parsed \ (Unfound \cup Unpressed) |->
                   IF f = "regionOsmIds" THEN kept ELSE Chips(f)']
    <3>1. Parsed \subseteq DOMAIN url
      BY DEF Parsed, Taken
    <3>2. QED
      BY <1>3, <2>1, <3>1
  <2>3. FormTaken'
    BY <1>3, <1>6, <2>1, <2>2 DEF FormTaken
  <2>4. QED
    BY <1>2, <1>4, <2>3 DEF ImportedIsSaved
<1>7. QED
  BY <1>5, <1>6

LEMMA UrlInvStep == UrlInv /\ [UrlNext]_urlVars => UrlInv'
<1>1. ASSUME UrlInv, UNCHANGED urlVars PROVE UrlInv'
  <2>1. UNCHANGED <<portal, url, stage, form>>
    BY <1>1 DEF urlVars
  <2>2. UrlShape' /\ ImportedIsSaved'
    BY <1>1, <2>1 DEF UrlInv, UrlShape, ImportedIsSaved, Readable, LeftOut, Under
  <2>3. FormTaken'
    <3>1. /\ UNCHANGED <<Outcomes, Parsed, Unfound, Unpressed, KeptRegions>>
          /\ \A f \in DOMAIN url : Chips(f)' = Chips(f)
      BY <2>1, SameReading
    <3>2. Parsed \subseteq DOMAIN url
      BY DEF Parsed, Taken
    <3>3. QED
      BY <1>1, <2>1, <3>1, <3>2 DEF UrlInv, FormTaken
  <2>4. QED
    BY <2>2, <2>3 DEF UrlInv
<1>2. QED
  BY <1>1, WriteKeeps, ImportKeeps, SavedKeeps DEF UrlNext

(* What the service can read in a pasted address is in the configuration that *)
(* is saved after the import, through the parser, the form and the           *)
(* normalisation, and with no value the address does not have; what may be   *)
(* missing is what LeftOut names, for an address of any length.              *)
THEOREM ImportIsSaved == UrlSpec => []ImportedIsSaved
<1>1. UrlInv => ImportedIsSaved
  BY DEF UrlInv
<1>2. QED
  BY <1>1, UrlInitially, UrlInvStep, PTL DEF UrlSpec

(* bot-bezrealitky imports an address as the search it is, or refuses it,    *)
(* but for dispositions without a chip and regions beyond the form's limit:  *)
(* nothing else gets lost between the address and the form.                  *)
THEOREM FormAloneWidens == UrlSpec => []OnlyTheFormWidens
<1>1. UrlInv => OnlyTheFormWidens
  <2> SUFFICES ASSUME UrlInv, stage = "imported", portal = "bezrealitky", NEW f \in DOMAIN url,
                      Params(portal)[f] \in {"enum", "enums", "places"},
                      ~(f = "disposition" /\ url[f] \cap Chipless # {}),
                      ~(f = "regionOsmIds" /\ Cardinality(url[f]) > MaxRegions)
               PROVE  f \in DOMAIN form /\ form[f] = url[f]
    BY DEF OnlyTheFormWidens
  <2>1. Outcomes = {} /\ Unfound = {} /\ UrlShape /\ FormTaken
    BY DEF UrlInv, FormTaken
  <2>2. Bezrealitky(Params(portal)[f], url[f]) \notin {"fail", "refuse"}
    BY <2>1 DEF Outcomes, Reading
  <2>3. url[f] \in Written(Params(portal)[f]) /\ f \in DOMAIN Params(portal) /\ portal \in Portals
    BY <2>1 DEF UrlShape
  <2>4. url[f] # Alien /\ (Params(portal)[f] \in ListKinds => Alien \notin url[f])
    <3>1. CASE Params(portal)[f] = "enum"
      BY <2>2, <3>1 DEF Bezrealitky, ListKinds
    <3>2. CASE Params(portal)[f] \in {"enums", "places"}
      <4>1. url[f] \in SUBSET (Known \cup Catalogued \cup {Nowhere, Alien})
        BY <2>3, <3>2 DEF Written
      <4>2. url[f] # Alien
        BY <4>1, UrlAssumption
      <4>3. Alien \notin url[f]
        BY <2>2, <3>2, <4>2 DEF Bezrealitky, ListKinds
      <4>4. QED
        BY <4>2, <4>3
    <3>3. QED
      BY <3>1, <3>2
  <2>5. f \in Parsed
    BY <2>4 DEF Parsed, Taken, Reading, Bezrealitky, ListKinds
  <2>6. Params(portal)[f] # "places" => Clean(f) = url[f]
    BY <2>4 DEF Clean, ListKinds
  <2>7. f \notin Unpressed
    <3>1. CASE f = "disposition"
      <4>1. Params(portal)[f] = "enums"
        BY <2>3, <3>1, OnePlaceParam
      <4>2. url[f] # {} /\ url[f] \cap Chipless = {}
        BY <2>3, <3>1, <4>1 DEF Written
      <4>3. QED
        BY <2>6, <3>1, <4>1, <4>2 DEF Unpressed, Chips
    <3>2. QED
      BY <3>1 DEF Unpressed
  <2>8. /\ f \in DOMAIN form
        /\ f # "regionOsmIds" => form[f] = Chips(f)
        /\ f = "regionOsmIds" => form[f] \in FirstRegions(url[f])
    BY <2>1, <2>5, <2>7, TakenIsShown
  <2>9. CASE f = "regionOsmIds"
    <3>1. ~(Cardinality(url[f]) > MaxRegions)
      BY <2>9
    <3>2. form[f] = url[f]
      BY <2>8, <2>9, <3>1, FewRegionsKept
    <3>3. QED
      BY <2>8, <3>2
  <2>10. CASE f # "regionOsmIds"
    <3>1. Clean(f) = url[f]
      BY <2>3, <2>6, <2>10, OnePlaceParam
    <3>2. Chips(f) = url[f]
      <4>1. CASE f = "disposition"
        BY <3>1, <4>1 DEF Chips
      <4>2. QED
        BY <3>1, <4>1 DEF Chips
    <3>3. QED
      BY <2>8, <2>10, <3>2
  <2>11. QED
    BY <2>9, <2>10
<1>2. QED
  BY <1>1, UrlInitially, UrlInvStep, PTL DEF UrlSpec
=============================================================================
