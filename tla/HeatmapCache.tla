---------------------------- MODULE HeatmapCache ----------------------------
(***************************************************************************)
(* The cached answer of GET /api/stats/listings-heatmap for one pair of     *)
(* filters on one frontend process.  A cold cache is filled by every        *)
(* request that finds it empty; a stale one is answered as it is while one  *)
(* refresh runs in the background.                                          *)
(***************************************************************************)
EXTENDS Naturals, Sequences, FiniteSets

CONSTANTS Callers,     \* concurrent requests
          Crawls,      \* the listings collection after 0, 1, 2... crawls
          FreshTtl,    \* ticks an entry counts as fresh
          MaxQuery,    \* ticks a query of the collection takes at most
          MaxTime,     \* bound of the clock
          MaxJobs      \* refreshes the bookkeeping below can tell apart

ASSUME HeatmapAssumption ==
    FreshTtl \in Nat /\ MaxQuery \in Nat /\ MaxQuery <= FreshTtl

ASSUME CrawlsAssumption ==
    Crawls \in Seq(Seq([price : Nat, located : BOOLEAN])) /\ Crawls # <<>>

VARIABLES
    clock, crawl,      \* time; how often the collection was written
    entry,             \* the cached entry
    inflight,          \* whether inflightRefreshes has the key
    jobs,              \* background refreshes under way
    caller             \* the requests

heatVars == <<clock, crawl, entry, inflight, jobs, caller>>

MinRealPrice == 1
NoEntry == [at |-> 0, stored |-> 0, filled |-> FALSE]
Idle == [phase |-> "idle", since |-> 0, at |-> 0]

HeatInit ==
    /\ clock = 0 /\ crawl = 1 /\ entry = NoEntry
    /\ inflight = FALSE /\ jobs = {}
    /\ caller = [c \in Callers |-> Idle]

-----------------------------------------------------------------------------
\* The answer computed from the collection as crawl v left it: the listings on
\* the map, by their places in the collection, and their prices.
Mapped(v) ==
    {i \in DOMAIN Crawls[v] : Crawls[v][i].located /\ Crawls[v][i].price > MinRealPrice}
Prices(v) == [i \in Mapped(v) |-> Crawls[v][i].price]

\* Mutant: the prices keep the order of the collection.
Unordered(p, i) == Cardinality({j \in DOMAIN p : j <= i})

\* The sort is stable: a price comes after the lower ones and the equal ones
\* before it.
Rank(p, i) == Cardinality({j \in DOMAIN p : p[j] < p[i] \/ (p[j] = p[i] /\ j <= i)})

Sorted(p) ==
    [k \in 1 .. Cardinality(DOMAIN p) |-> p[CHOOSE i \in DOMAIN p : Rank(p, i) = k]]

\* quantile with q = num / den, over a sequence counted from 0.
Quantile(s, num, den) ==
    IF Len(s) = 0 THEN 0
    ELSE LET idx == (Len(s) * num) \div den IN
         s[1 + (IF idx < Len(s) THEN idx ELSE Len(s) - 1)]

Response(v) ==
    LET s == Sorted(Prices(v)) IN
    [breakpoints |-> [i \in 1..4 |-> Quantile(s, i, 5)],
     median |-> Quantile(s, 1, 2), count |-> Len(s)]

-----------------------------------------------------------------------------
Crawl ==
    /\ crawl < Len(Crawls) /\ crawl' = crawl + 1
    /\ UNCHANGED <<clock, entry, inflight, jobs, caller>>

Busy == {caller[c].since : c \in {c \in Callers : caller[c].phase \in {"query", "store"}}}
        \cup {j.since : j \in jobs}

Tick ==
    /\ clock < MaxTime
    /\ \A s \in Busy : clock < s + MaxQuery
    /\ clock' = clock + 1
    /\ UNCHANGED <<crawl, entry, inflight, jobs, caller>>

\* Mutant: an entry is refreshed at every request.
AlwaysStale == TRUE

Stale == clock - entry.stored > FreshTtl

\* Mutant: the key is not looked up in inflightRefreshes.
NeverInflight == FALSE

Inflight == inflight

ScheduleRefresh ==
    IF Inflight \/ Cardinality(jobs) = MaxJobs THEN UNCHANGED <<jobs, inflight>>
    ELSE /\ inflight' = TRUE
         /\ \E id \in (1..MaxJobs) \ {j.id : j \in jobs} :
              jobs' = jobs \cup {[id |-> id, phase |-> "query", since |-> clock, at |-> 0]}

\* getHeatmap up to its first query; a warm entry is answered at once.
Get(c) ==
    /\ caller[c].phase = "idle"
    /\ IF ~entry.filled
       THEN /\ caller' = [caller EXCEPT ![c] = [Idle EXCEPT !.phase = "query", !.since = clock]]
            /\ UNCHANGED <<jobs, inflight>>
       ELSE /\ caller' = [caller EXCEPT ![c] = [Idle EXCEPT !.phase = "answered", !.at = entry.at]]
            /\ IF Stale THEN ScheduleRefresh ELSE UNCHANGED <<jobs, inflight>>
    /\ UNCHANGED <<clock, crawl, entry>>

\* computeHeatmap reads the collection; its answer takes a while.
Query(c) ==
    /\ caller[c].phase = "query"
    /\ caller' = [caller EXCEPT ![c].phase = "store", ![c].at = crawl]
    /\ UNCHANGED <<clock, crawl, entry, inflight, jobs>>

QueryFails(c) ==
    /\ caller[c].phase = "query"
    /\ caller' = [caller EXCEPT ![c] = Idle]
    /\ UNCHANGED <<clock, crawl, entry, inflight, jobs>>

Filled(v) == [at |-> v, stored |-> clock, filled |-> TRUE]

Store(c) ==
    /\ caller[c].phase = "store"
    /\ entry' = Filled(caller[c].at)
    /\ caller' = [caller EXCEPT ![c] = [@ EXCEPT !.phase = "answered"]]
    /\ UNCHANGED <<clock, crawl, inflight, jobs>>

Leave(c) ==
    /\ caller[c].phase = "answered"
    /\ caller' = [caller EXCEPT ![c] = Idle]
    /\ UNCHANGED <<clock, crawl, entry, inflight, jobs>>

RefreshQuery(j) ==
    /\ j.phase = "query"
    /\ jobs' = (jobs \ {j}) \cup {[j EXCEPT !.phase = "store", !.at = crawl]}
    /\ UNCHANGED <<clock, crawl, entry, inflight, caller>>

\* The finally of a refresh, which may have failed at its query.
RefreshEnds(j) ==
    /\ \/ j.phase = "store" /\ entry' = Filled(j.at)
       \/ j.phase = "query" /\ UNCHANGED entry
    /\ jobs' = jobs \ {j}
    /\ inflight' = FALSE
    /\ UNCHANGED <<clock, crawl, caller>>

HeatNext ==
    \/ Crawl \/ Tick
    \/ \E c \in Callers : Get(c) \/ Query(c) \/ QueryFails(c) \/ Store(c) \/ Leave(c)
    \/ \E j \in jobs : RefreshQuery(j) \/ RefreshEnds(j)

HeatSpec == HeatInit /\ [][HeatNext]_heatVars

-----------------------------------------------------------------------------
\* However many requests find the entry stale at once, one refresh runs, and
\* the key is held exactly as long as it does: a failure does not keep it.
OneRefreshAtATime ==
    Cardinality(jobs) = (IF inflight THEN 1 ELSE 0)

\* A refresh never puts an older picture of the collection in the place of a
\* newer one, though cold requests store without looking at the refresh.
RefreshNeverRewinds ==
    [][\A j \in jobs \ jobs' :
         j.phase = "store" /\ j.id \notin {k.id : k \in jobs'} => entry'.at >= entry.at]_heatVars

\* Each breakpoint cuts off its fifth of the mapped prices, and the median
\* lies between the two in the middle.
BreakpointsCutFifths ==
    entry.filled =>
      LET p == Prices(entry.at)
          r == Response(entry.at)
          Below(x) == Cardinality({i \in DOMAIN p : p[i] < x})
          UpTo(x) == Cardinality({i \in DOMAIN p : p[i] <= x}) IN
      /\ DOMAIN p # {} => \A i \in 1..4 :
           Below(r.breakpoints[i]) * 5 <= i * r.count /\ i * r.count < UpTo(r.breakpoints[i]) * 5
      /\ r.breakpoints[2] <= r.median /\ r.median <= r.breakpoints[3]
=============================================================================
