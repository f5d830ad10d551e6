----------------------------- MODULE MCServices -----------------------------
(* What the bot services do around the pipeline, in parts that share no      *)
(* state: a behaviour is one of a single part, the others stay as they are.  *)
EXTENDS FetchListings, RegionCatalogue, SearchFilters, PastedUrl, Welcome, Startup

VARIABLE part

NoFetch == FetchInit /\ reader = "bazos"
NoRegion == RegionInit /\ catalogue = [of |-> "bazos", mode |-> "missing"]
NoFilter == service = "bazos" /\ catalogued = {} /\ wanted = <<>> /\ advert = <<>>
NoUrl == portal = "bazos" /\ url = <<>> /\ stage = "pasted" /\ form = <<>>
NoWelcome == WelcomeInit /\ nest = {} /\ channel = "none"
AllStarted ==
    /\ indexes = {"unique"} /\ doubled = FALSE /\ raced = FALSE
    /\ migrating = "done" /\ indexing = "done" /\ saw = {}
    /\ svc = [p \in Processes |-> "up"] /\ dials = 0
    /\ version = "new" /\ broker = "up" /\ restarts = 0

Init ==
    /\ part \in {"fetch", "region", "filter", "url", "welcome", "start"}
    /\ IF part = "fetch" THEN FetchInit ELSE NoFetch
    /\ IF part = "region" THEN RegionInit ELSE NoRegion
    /\ IF part = "filter" THEN FilterInit ELSE NoFilter
    /\ IF part = "url" THEN UrlInit ELSE NoUrl
    /\ IF part = "welcome" THEN WelcomeInit ELSE NoWelcome
    /\ IF part = "start" THEN StartInit ELSE AllStarted

InFetch(A) == part = "fetch" /\ A
InRegion(A) == part = "region" /\ A
InWelcome(A) == part = "welcome" /\ A
InStart(A) == part = "start" /\ A

AsItIs(own) ==
    /\ own # "fetch" => UNCHANGED fetchVars
    /\ own # "region" => UNCHANGED regionVars
    /\ own # "filter" => UNCHANGED filterVars
    /\ own # "url" => UNCHANGED urlVars
    /\ own # "welcome" => UNCHANGED welcomeVars
    /\ own # "start" => UNCHANGED startVars

Next ==
    /\ UNCHANGED part
    /\ AsItIs(part)
    /\ \/ InFetch(FetchNext) \/ InRegion(RegionNext)
       \/ part = "filter" /\ FilterNext
       \/ part = "url" /\ UrlNext
       \/ InWelcome(WelcomeNext) \/ InStart(StartNext)

\* The fairness of each module, for the behaviours that are its own: a cycle
\* goes on and the interval ends; requests in flight are answered or fail; the
\* notifier consumes; what k3s restarts, and the broker, comes up.
Spec ==
    /\ Init
    /\ [][Next]_<<part, fetchVars, regionVars, filterVars, urlVars, welcomeVars, startVars>>
    /\ WF_fetchVars(InFetch(Cycle)) /\ WF_fetchVars(InFetch(Tick))
    /\ WF_regionVars(InRegion(Start)) /\ WF_regionVars(InRegion(Listen))
    /\ WF_regionVars(InRegion(GeoTick))
    /\ \A r \in Regions : WF_regionVars(InRegion(SeedRow(r)))
    /\ \A c \in Asks : /\ WF_regionVars(InRegion(Send(c)))
                       /\ WF_regionVars(InRegion(Answer(c) \/ NoAnswer(c)))
                       /\ WF_regionVars(InRegion(StoreRegion(c)))
    /\ \A s \in Saves : WF_welcomeVars(InWelcome(SaveStep(s)))
    /\ WF_welcomeVars(InWelcome(NotifierStep))
    /\ WF_startVars(InStart(FrontendStep)) /\ WF_startVars(InStart(IndexStep))
    /\ WF_startVars(InStart(BrokerReturns))
    /\ \A p \in Processes : WF_startVars(InStart(ProcessStep(p)))
=============================================================================
