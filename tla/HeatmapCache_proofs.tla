------------------------ MODULE HeatmapCache_proofs ------------------------
(***************************************************************************)
(* Proofs about HeatmapCache, for any number of requests, any crawls, and   *)
(* any ages an entry and a query may have, as long as no query takes longer *)
(* than an entry stays fresh.                                               *)
(***************************************************************************)
EXTENDS HeatmapCache, SequenceTheorems, FiniteSetTheorems, TLAPS

Calls == [phase : {"idle", "query", "store", "answered"}, since : Nat, at : Nat]
Refreshes == [id : 1..MaxJobs, phase : {"query", "store"}, since : Nat, at : Nat]

HeatType ==
    /\ clock \in Nat /\ crawl \in Nat
    /\ entry \in [at : Nat, stored : Nat, filled : BOOLEAN]
    /\ inflight \in BOOLEAN
    /\ jobs \in SUBSET Refreshes
    /\ caller \in [Callers -> Calls]

Cold(c) == caller[c].phase \in {"query", "store"}

(* No query outlives MaxQuery, and whoever fills the cold cache came before *)
(* it was filled.                                                           *)
ColdCameFirst ==
    /\ entry.stored <= clock
    /\ \A c \in Callers : Cold(c) =>
         /\ caller[c].since <= clock /\ clock <= caller[c].since + MaxQuery
         /\ entry.filled => caller[c].since <= entry.stored

(* One refresh at most; while it runs nobody else stores, for the entry it  *)
(* replaces is older than any cold request may be.                          *)
RefreshAlone ==
    /\ inflight => \E j \in jobs : jobs = {j}
    /\ ~inflight => jobs = {}
    /\ jobs # {} => entry.filled /\ \A c \in Callers : ~Cold(c)

(* Nothing was computed from a crawl still to come, and a refresh that has  *)
(* read the collection read no older one than the entry's.                  *)
NeverAhead ==
    /\ entry.at <= crawl
    /\ \A c \in Callers : caller[c].phase = "store" => caller[c].at <= crawl
    /\ \A j \in jobs : j.phase = "store" => entry.at <= j.at /\ j.at <= crawl

HeatInv == HeatType /\ ColdCameFirst /\ RefreshAlone /\ NeverAhead

LEMMA HeatInitially == HeatInit => HeatInv
<1> SUFFICES ASSUME HeatInit PROVE HeatInv
    OBVIOUS
<1>1. HeatType
    BY DEF HeatInit, HeatType, NoEntry, Idle, Calls
<1>2. \A c \in Callers : ~Cold(c) /\ caller[c].phase # "store"
    BY DEF HeatInit, Cold, Idle
<1>3. ColdCameFirst /\ RefreshAlone /\ NeverAhead
    BY <1>2 DEF HeatInit, ColdCameFirst, RefreshAlone, NeverAhead, NoEntry
<1>4. QED
    BY <1>1, <1>3 DEF HeatInv

(* Scheduling a refresh: either nothing happens or one starts, reading.     *)
LEMMA Scheduled ==
    ASSUME HeatInv, ScheduleRefresh
    PROVE  \/ jobs' = jobs /\ inflight' = inflight
           \/ /\ inflight' = TRUE /\ jobs = {}
              /\ \E j \in Refreshes : j.phase = "query" /\ j.since = clock /\ jobs' = {j}
<1> USE DEF HeatInv, HeatType
<1>1. CASE Inflight \/ Cardinality(jobs) = MaxJobs
    BY <1>1 DEF ScheduleRefresh
<1>2. CASE ~(Inflight \/ Cardinality(jobs) = MaxJobs)
    <2>1. PICK id \in 1..MaxJobs :
              jobs' = jobs \cup {[id |-> id, phase |-> "query", since |-> clock, at |-> 0]}
        BY <1>2 DEF ScheduleRefresh
    <2>2. [id |-> id, phase |-> "query", since |-> clock, at |-> 0] \in Refreshes
        BY DEF Refreshes
    <2>3. jobs = {} /\ inflight' = TRUE
        BY <1>2 DEF ScheduleRefresh, Inflight, RefreshAlone
    <2>4. QED
        BY <2>1, <2>2, <2>3
<1>3. QED
    BY <1>1, <1>2

LEMMA GetKeeps ==
    ASSUME HeatInv, NEW c \in Callers, Get(c)
    PROVE  HeatInv'
<1> USE DEF HeatInv, HeatType
<1>1. CASE ~entry.filled
    <2>1. jobs = {}
        BY <1>1 DEF RefreshAlone
    <2>2. Idle \in Calls
        BY DEF Idle, Calls
    <2>3. caller' \in [Callers -> Calls]
        BY <1>1, <2>2 DEF Get, Calls
    <2>4. /\ \A d \in Callers \ {c} : caller'[d] = caller[d]
          /\ caller'[c].phase = "query" /\ caller'[c].since = clock
          /\ UNCHANGED <<clock, crawl, entry, jobs, inflight>>
        BY <1>1, <2>2 DEF Get, Calls
    <2>5. QED
        BY <1>1, <2>1, <2>3, <2>4, HeatmapAssumption
           DEF ColdCameFirst, RefreshAlone, NeverAhead, Cold
<1>2. CASE entry.filled
    <2>1. /\ caller' = [caller EXCEPT ![c] = [Idle EXCEPT !.phase = "answered", !.at = entry.at]]
          /\ UNCHANGED <<clock, crawl, entry>>
        BY <1>2 DEF Get
    <2>2. caller' \in [Callers -> Calls]
        BY <2>1 DEF Idle, Calls
    <2>3. \A d \in Callers : /\ Cold(d)' => Cold(d)
                             /\ caller'[d].phase = "store" => caller[d].phase = "store"
                             /\ Cold(d)' => caller'[d] = caller[d]
        BY <2>1 DEF Idle, Cold
    <2>4. ColdCameFirst'
        BY <2>1, <2>3 DEF ColdCameFirst
    <2>5. CASE jobs' = jobs /\ inflight' = inflight
        BY <2>1, <2>2, <2>3, <2>4, <2>5 DEF RefreshAlone, NeverAhead, Cold
    <2>6. CASE ~(jobs' = jobs /\ inflight' = inflight)
        <3>1. Stale /\ ScheduleRefresh
            BY <1>2, <2>6 DEF Get
        <3>2. PICK j \in Refreshes : /\ j.phase = "query" /\ jobs' = {j}
                                     /\ inflight' = TRUE /\ jobs = {}
            BY <2>6, <3>1, Scheduled
        <3>3. \A d \in Callers : ~Cold(d)
            BY <1>2, <3>1, HeatmapAssumption DEF Stale, ColdCameFirst, Cold, Calls
        <3>4. RefreshAlone'
            BY <1>2, <2>1, <2>3, <3>2, <3>3 DEF RefreshAlone
        <3>5. NeverAhead'
            BY <2>1, <2>3, <3>2, <3>3 DEF NeverAhead, Cold
        <3>6. QED
            BY <2>1, <2>2, <2>4, <3>2, <3>4, <3>5
    <2>7. QED
        BY <2>5, <2>6
<1>3. QED
    BY <1>1, <1>2

LEMMA QueryKeeps ==
    ASSUME HeatInv, NEW c \in Callers, Query(c) \/ QueryFails(c) \/ Leave(c)
    PROVE  HeatInv'
<1> USE DEF HeatInv, HeatType
<1>1. caller' \in [Callers -> Calls]
    BY DEF Query, QueryFails, Leave, Calls, Idle
<1>2. UNCHANGED <<clock, crawl, entry, inflight, jobs>>
    BY DEF Query, QueryFails, Leave
<1>3. \A d \in Callers : /\ Cold(d)' => Cold(d) /\ caller'[d].since = caller[d].since
                         /\ caller'[d].phase = "store" /\ caller[d].phase # "store"
                              => caller'[d].at = crawl
                         /\ caller'[d].phase = "store" /\ caller[d].phase = "store"
                              => caller'[d].at = caller[d].at
    BY DEF Query, QueryFails, Leave, Cold, Calls, Idle
<1>4. QED
    BY <1>1, <1>2, <1>3 DEF ColdCameFirst, RefreshAlone, NeverAhead

LEMMA StoreKeeps ==
    ASSUME HeatInv, NEW c \in Callers, Store(c)
    PROVE  HeatInv'
<1> USE DEF HeatInv, HeatType
<1>1. caller[c] \in Calls
    OBVIOUS
<1>2. jobs = {} /\ jobs' = {}
    BY DEF RefreshAlone, Cold, Store
<1>3. caller' \in [Callers -> Calls]
    BY DEF Store, Calls
<1>4. entry' = [at |-> caller[c].at, stored |-> clock, filled |-> TRUE]
      /\ caller[c].at \in Nat /\ caller[c].at <= crawl
    BY <1>1 DEF Store, Filled, NeverAhead, Calls
<1>5. \A d \in Callers : /\ Cold(d)' => Cold(d) /\ caller'[d] = caller[d]
                         /\ caller'[d].phase = "store" => Cold(d)'
    BY DEF Store, Cold, Calls
<1>6. UNCHANGED <<clock, crawl, inflight>>
    BY DEF Store
<1>7. QED
    BY <1>2, <1>3, <1>4, <1>5, <1>6, HeatmapAssumption DEF ColdCameFirst, RefreshAlone, NeverAhead

LEMMA TickKeeps ==
    ASSUME HeatInv, Tick
    PROVE  HeatInv'
<1> USE DEF HeatInv, HeatType
<1>1. \A c \in Callers : Cold(c) => clock < caller[c].since + MaxQuery
    BY DEF Tick, Busy, Cold
<1>2. \A c \in Callers : caller[c] \in Calls
    OBVIOUS
<1>3. /\ clock' = clock + 1 /\ UNCHANGED <<crawl, entry, inflight, jobs, caller>>
    BY DEF Tick
<1>4. \A c \in Callers : Cold(c) => /\ caller[c].since <= clock'
                                     /\ clock' <= caller[c].since + MaxQuery
    BY <1>1, <1>2, <1>3, HeatmapAssumption DEF ColdCameFirst, Calls
<1>5. entry.stored <= clock'
    BY <1>3 DEF ColdCameFirst
<1>6. ColdCameFirst'
    BY <1>3, <1>4, <1>5 DEF ColdCameFirst, Cold
<1>7. HeatType' /\ RefreshAlone' /\ NeverAhead'
    BY <1>3 DEF RefreshAlone, NeverAhead, Cold
<1>8. QED
    BY <1>6, <1>7

LEMMA CrawlKeeps ==
    ASSUME HeatInv, Crawl
    PROVE  HeatInv'
<1> USE DEF HeatInv, HeatType
<1>1. crawl' = crawl + 1 /\ UNCHANGED <<clock, entry, inflight, jobs, caller>>
    BY DEF Crawl
<1>2. ColdCameFirst' /\ RefreshAlone' /\ HeatType'
    BY <1>1 DEF ColdCameFirst, RefreshAlone, Cold
<1>3. \A c \in Callers : caller[c].at \in Nat
    BY DEF Calls
<1>4. \A j \in jobs : j.at \in Nat
    BY DEF Refreshes
<1>5. NeverAhead'
    BY <1>1, <1>3, <1>4 DEF NeverAhead
<1>6. QED
    BY <1>2, <1>5

LEMMA RefreshKeeps ==
    ASSUME HeatInv, NEW j \in jobs, RefreshQuery(j) \/ RefreshEnds(j)
    PROVE  HeatInv'
<1> USE DEF HeatInv, HeatType
<1>1. jobs = {j} /\ j \in Refreshes /\ inflight /\ entry.filled
      /\ \A c \in Callers : ~Cold(c)
    BY DEF RefreshAlone
<1>2. CASE RefreshQuery(j)
    <2>1. [j EXCEPT !.phase = "store", !.at = crawl] \in Refreshes
        BY <1>1 DEF Refreshes
    <2>2. jobs' = {[j EXCEPT !.phase = "store", !.at = crawl]}
        BY <1>1, <1>2 DEF RefreshQuery
    <2>3. \A k \in jobs' : k.at = crawl
        BY <1>1, <2>2 DEF Refreshes
    <2>4. UNCHANGED <<clock, crawl, entry, inflight, caller>>
        BY <1>2 DEF RefreshQuery
    <2>5. QED
        BY <1>1, <2>1, <2>2, <2>3, <2>4 DEF ColdCameFirst, RefreshAlone, NeverAhead, Cold
<1>3. CASE RefreshEnds(j)
    <2>1. jobs' = {} /\ inflight' = FALSE /\ UNCHANGED <<clock, crawl, caller>>
        BY <1>1, <1>3 DEF RefreshEnds
    <2>2. \/ entry' = entry
          \/ /\ entry' = [at |-> j.at, stored |-> clock, filled |-> TRUE]
             /\ j.at \in Nat /\ j.at <= crawl
        BY <1>1, <1>3 DEF RefreshEnds, Filled, NeverAhead, Refreshes
    <2>3. entry' \in [at : Nat, stored : Nat, filled : BOOLEAN]
          /\ entry'.stored <= clock /\ entry'.at <= crawl
        <3>1. CASE entry' = entry
            BY <3>1 DEF ColdCameFirst, NeverAhead
        <3>2. CASE entry' # entry
            <4>1. /\ entry' = [at |-> j.at, stored |-> clock, filled |-> TRUE]
                  /\ j.at \in Nat /\ j.at <= crawl
                BY <2>2, <3>2
            <4>2. entry'.stored = clock /\ entry'.at = j.at
                BY <4>1
            <4>3. QED
                BY <4>1, <4>2
        <3>3. QED
            BY <3>1, <3>2
    <2>4. HeatType' /\ RefreshAlone'
        BY <2>1, <2>3 DEF RefreshAlone
    <2>5. \A c \in Callers : ~Cold(c)' /\ caller'[c].phase # "store"
        BY <1>1, <2>1 DEF Cold
    <2>6. ColdCameFirst' /\ NeverAhead'
        BY <2>1, <2>3, <2>5 DEF ColdCameFirst, NeverAhead
    <2>7. QED
        BY <2>4, <2>6
<1>4. QED
    BY <1>2, <1>3

LEMMA HeatStep == HeatInv /\ [HeatNext]_heatVars => HeatInv'
<1> SUFFICES ASSUME HeatInv, [HeatNext]_heatVars PROVE HeatInv'
    OBVIOUS
<1>1. CASE UNCHANGED heatVars
    BY <1>1 DEF heatVars, HeatInv, HeatType, ColdCameFirst, RefreshAlone, NeverAhead, Cold
<1>2. QED
    BY <1>1, GetKeeps, QueryKeeps, StoreKeeps, TickKeeps, CrawlKeeps, RefreshKeeps
       DEF HeatNext

LEMMA HeatInvariant == HeatSpec => []HeatInv
<1>1. QED
    BY HeatInitially, HeatStep, PTL DEF HeatSpec
-----------------------------------------------------------------------------
(* However many requests find the entry stale at once, one refresh runs, and *)
(* inflightRefreshes has the key exactly as long, also when a query fails.   *)
THEOREM OneRefresh == HeatSpec => []OneRefreshAtATime
<1>1. HeatInv => OneRefreshAtATime
    BY FS_EmptySet, FS_Singleton DEF HeatInv, RefreshAlone, OneRefreshAtATime
<1>2. QED
    BY <1>1, HeatInvariant, PTL

(* A refresh never replaces the entry by an older picture of the listings.   *)
(* That needs the assumption: a query that outlives the entry's freshness    *)
(* may store behind a refresh that began after it.                           *)
THEOREM RefreshesAdvance == HeatSpec => RefreshNeverRewinds
<1> DEFINE Rewindless ==
        \A j \in jobs \ jobs' :
            j.phase = "store" /\ j.id \notin {k.id : k \in jobs'} => entry'.at >= entry.at
<1>1. HeatInv /\ [HeatNext]_heatVars => [Rewindless]_heatVars
    <2> SUFFICES ASSUME HeatInv, HeatNext,
                        NEW j \in jobs \ jobs', j.phase = "store"
                 PROVE  entry'.at >= entry.at
        OBVIOUS
    <2>1. jobs = {j}
        BY DEF HeatInv, RefreshAlone, HeatType
    <2>2. inflight
        BY <2>1 DEF HeatInv, RefreshAlone, HeatType
    <2>3. ScheduleRefresh => jobs' = jobs
        BY <2>2 DEF ScheduleRefresh, Inflight
    <2>4. RefreshEnds(j)
        BY <2>1, <2>3 DEF Get, HeatNext, Crawl, Tick, Query, QueryFails, Store, Leave, RefreshQuery
    <2>5. entry'.at = j.at /\ entry.at <= j.at
        BY <2>4 DEF RefreshEnds, Filled, HeatInv, NeverAhead
    <2>6. QED
        BY <2>5 DEF HeatInv, HeatType, Refreshes
<1>2. QED
    BY <1>1, HeatInvariant, PTL DEF HeatSpec, RefreshNeverRewinds


(* The listings a price comes after in the sorted order, itself included.    *)
UpToRank(p, i) == {j \in DOMAIN p : p[j] < p[i] \/ (p[j] = p[i] /\ j <= i)}

PriceList(p) ==
    /\ IsFiniteSet(DOMAIN p) /\ DOMAIN p \subseteq Nat
    /\ \A i \in DOMAIN p : p[i] \in Nat

(* Of two listings one comes first, and has the smaller rank.                *)
LEMMA RankOrders ==
    ASSUME NEW p, PriceList(p), NEW i \in DOMAIN p, NEW j \in DOMAIN p
    PROVE  /\ IsFiniteSet(UpToRank(p, i)) /\ Rank(p, i) = Cardinality(UpToRank(p, i))
           /\ Rank(p, i) \in 1 .. Cardinality(DOMAIN p)
           /\ p[i] < p[j] \/ (p[i] = p[j] /\ i < j) => Rank(p, i) < Rank(p, j)
<1>1. ASSUME NEW k \in DOMAIN p
      PROVE  /\ UpToRank(p, k) \subseteq DOMAIN p /\ k \in UpToRank(p, k)
             /\ IsFiniteSet(UpToRank(p, k))
             /\ Cardinality(UpToRank(p, k)) \in Nat
             /\ Cardinality(UpToRank(p, k)) <= Cardinality(DOMAIN p)
             /\ Cardinality(UpToRank(p, k)) # 0
  <2>1. UpToRank(p, k) \subseteq DOMAIN p /\ k \in UpToRank(p, k)
    BY DEF PriceList, UpToRank
  <2>2. IsFiniteSet(UpToRank(p, k)) /\ Cardinality(UpToRank(p, k)) <= Cardinality(DOMAIN p)
    BY <2>1, FS_Subset DEF PriceList
  <2>3. QED
    BY <2>1, <2>2, FS_CardinalityType, FS_EmptySet
<1>2. Rank(p, i) = Cardinality(UpToRank(p, i)) /\ Rank(p, j) = Cardinality(UpToRank(p, j))
  BY DEF Rank, UpToRank
<1>3. Cardinality(DOMAIN p) \in Nat
  BY FS_CardinalityType DEF PriceList
<1>4. ASSUME p[i] < p[j] \/ (p[i] = p[j] /\ i < j)
      PROVE  Rank(p, i) < Rank(p, j)
  <2>1. UpToRank(p, i) \subseteq UpToRank(p, j)
    BY <1>4 DEF PriceList, UpToRank
  <2>2. j \notin UpToRank(p, i)
    BY <1>4 DEF PriceList, UpToRank
  <2>3. /\ Cardinality(UpToRank(p, i)) <= Cardinality(UpToRank(p, j))
        /\ Cardinality(UpToRank(p, i)) # Cardinality(UpToRank(p, j))
    BY <1>1, <2>1, <2>2, FS_Subset
  <2>4. QED
    BY <1>1, <1>2, <2>3
<1>5. QED
  BY <1>1, <1>2, <1>3, <1>4

(* Every place of the sorted order is somebody's rank, by counting: the      *)
(* ranks are as many as the listings and no two are equal.                   *)
LEMMA RanksFill ==
    ASSUME NEW p, PriceList(p), NEW k \in 1 .. Cardinality(DOMAIN p)
    PROVE  \E i \in DOMAIN p : Rank(p, i) = k
<1> DEFINE n == Cardinality(DOMAIN p)
           r == [i \in DOMAIN p |-> Rank(p, i)]
<1>1. n \in Nat /\ IsFiniteSet(1 .. n) /\ Cardinality(1 .. n) = n
  <2>1. n \in Nat
    BY FS_CardinalityType DEF PriceList
  <2>2. QED
    BY <2>1, FS_Interval
<1>2. r \in [DOMAIN p -> 1 .. n]
  BY RankOrders
<1>3. ASSUME NEW i \in DOMAIN p, NEW j \in DOMAIN p, r[i] = r[j]
      PROVE  i = j
  <2>1. p[i] \in Nat /\ p[j] \in Nat /\ i \in Nat /\ j \in Nat
    BY DEF PriceList
  <2>2. Rank(p, i) = Rank(p, j) /\ Rank(p, i) \in Nat
    BY <1>2, <1>3
  <2>3. ~(p[i] < p[j] \/ (p[i] = p[j] /\ i < j)) /\ ~(p[j] < p[i] \/ (p[j] = p[i] /\ j < i))
    BY <2>2, RankOrders
  <2>4. QED
    BY <2>1, <2>3
<1>4. r \in Injection(DOMAIN p, 1 .. n)
  BY <1>2, <1>3 DEF Injection, IsInjective
<1>5. r \in Surjection(DOMAIN p, 1 .. n)
  BY <1>1, <1>4, FS_Injection
<1>6. QED
  BY <1>5 DEF Surjection

(* What stands at place k of the sorted prices: fewer than k are lower, and  *)
(* at least k are no higher.                                                 *)
LEMMA SortedAt ==
    ASSUME NEW p, PriceList(p), NEW k \in 1 .. Cardinality(DOMAIN p)
    PROVE  /\ Sorted(p)[k] \in Nat
           /\ \E i \in DOMAIN p : Rank(p, i) = k /\ Sorted(p)[k] = p[i]
           /\ Cardinality({j \in DOMAIN p : p[j] < Sorted(p)[k]}) \in Nat
           /\ Cardinality({j \in DOMAIN p : p[j] <= Sorted(p)[k]}) \in Nat
           /\ Cardinality({j \in DOMAIN p : p[j] < Sorted(p)[k]}) < k
           /\ k <= Cardinality({j \in DOMAIN p : p[j] <= Sorted(p)[k]})
<1>1. PICK i \in DOMAIN p : Rank(p, i) = k /\ Sorted(p)[k] = p[i]
  BY RanksFill DEF Sorted
<1>2. /\ IsFiniteSet(UpToRank(p, i)) /\ Cardinality(UpToRank(p, i)) = k /\ k \in Nat
      /\ i \in UpToRank(p, i)
  BY <1>1, RankOrders DEF PriceList, UpToRank
<1> DEFINE lower == {j \in DOMAIN p : p[j] < p[i]}
           upto == {j \in DOMAIN p : p[j] <= p[i]}
<1>3. IsFiniteSet(DOMAIN p) /\ lower \subseteq DOMAIN p /\ upto \subseteq DOMAIN p
  BY DEF PriceList
<1>4. lower \subseteq UpToRank(p, i) \ {i} /\ UpToRank(p, i) \subseteq upto
  BY DEF PriceList, UpToRank
<1>5. IsFiniteSet(lower) /\ IsFiniteSet(upto)
  BY <1>3, FS_Subset
<1>6. Cardinality(lower) \in Nat /\ Cardinality(upto) \in Nat
  BY <1>5, FS_CardinalityType
<1>7. IsFiniteSet(UpToRank(p, i) \ {i}) /\ Cardinality(UpToRank(p, i) \ {i}) = k - 1
  BY <1>2, FS_RemoveElement
<1>8. Cardinality(lower) <= k - 1 /\ k <= Cardinality(upto)
  BY <1>2, <1>4, <1>5, <1>7, FS_Subset
<1>9. Cardinality(lower) < k
  BY <1>2, <1>6, <1>8
<1>10. p[i] \in Nat
  BY DEF PriceList
<1>11. QED
  BY <1>1, <1>6, <1>8, <1>9, <1>10

(* The sorted prices never fall.                                             *)
LEMMA SortedRises ==
    ASSUME NEW p, PriceList(p), NEW k \in 1 .. Cardinality(DOMAIN p),
           NEW l \in 1 .. Cardinality(DOMAIN p), k <= l
    PROVE  Sorted(p)[k] <= Sorted(p)[l]
<1>1. PICK i \in DOMAIN p : Rank(p, i) = k /\ Sorted(p)[k] = p[i]
  BY SortedAt
<1>2. PICK j \in DOMAIN p : Rank(p, j) = l /\ Sorted(p)[l] = p[j]
  BY SortedAt
<1>3. ~(p[j] < p[i])
  <2>1. p[j] < p[i] => l < k
    BY <1>1, <1>2, RankOrders
  <2>2. k \in Nat /\ l \in Nat
    BY FS_CardinalityType DEF PriceList
  <2>3. QED
    BY <2>1, <2>2
<1>4. p[i] \in Nat /\ p[j] \in Nat
  BY DEF PriceList
<1>5. QED
  BY <1>1, <1>2, <1>3, <1>4

(* Len, which quantile asks for, is the number of prices.                    *)
LEMMA SortedLength ==
    ASSUME NEW p, PriceList(p)
    PROVE  Len(Sorted(p)) = Cardinality(DOMAIN p) /\ Cardinality(DOMAIN p) \in Nat
<1>1. Cardinality(DOMAIN p) \in Nat
  BY FS_CardinalityType DEF PriceList
<1>2. Sorted(p) \in [1 .. Cardinality(DOMAIN p) -> Nat]
  BY SortedAt DEF Sorted
<1>3. QED
  BY <1>1, <1>2

(* The places quantile looks at.                                             *)
LEMMA QuantilePlace ==
    ASSUME NEW p, PriceList(p), Cardinality(DOMAIN p) # 0,
           NEW num \in Nat, NEW den \in {2, 5}, num < den
    PROVE  /\ Quantile(Sorted(p), num, den) = Sorted(p)[1 + ((Cardinality(DOMAIN p) * num) \div den)]
           /\ (Cardinality(DOMAIN p) * num) \div den \in Nat
           /\ 1 + ((Cardinality(DOMAIN p) * num) \div den) \in 1 .. Cardinality(DOMAIN p)
<1>1. PICK n \in Nat : n = Cardinality(DOMAIN p) /\ n = Len(Sorted(p)) /\ n > 0
  BY SortedLength
<1>2. num \in 0 .. 4 /\ (den = 2 => num \in {0, 1})
  OBVIOUS
<1>3. (n * num) \div den \in Nat /\ (n * num) \div den < n
  <2>1. CASE den = 2
    BY <1>1, <1>2, <2>1
  <2>2. CASE den = 5
    <3>1. num = 0 \/ num = 1 \/ num = 2 \/ num = 3 \/ num = 4
      BY <1>2
    <3>2. QED
      BY <1>1, <2>2, <3>1
  <2>3. QED
    BY <2>1, <2>2
<1>4. PICK k \in Nat : k = (n * num) \div den /\ k < n
  BY <1>3
<1>5. 1 + k \in 1 .. n
  BY <1>1, <1>4
<1>6. Quantile(Sorted(p), num, den) = Sorted(p)[1 + k]
  <2>1. (Len(Sorted(p)) * num) \div den = k /\ k < Len(Sorted(p)) /\ Len(Sorted(p)) # 0
    BY <1>1, <1>4
  <2>2. QED
    BY <2>1 DEF Quantile
<1>7. QED
  BY <1>1, <1>4, <1>5, <1>6

(* A breakpoint cuts off its fifth, and the median is between the second and *)
(* the third.                                                                *)
LEMMA FifthsOf ==
    ASSUME NEW p, PriceList(p),
           NEW b, b = [i \in 1..4 |-> Quantile(Sorted(p), i, 5)],
           NEW m, m = Quantile(Sorted(p), 1, 2),
           NEW count, count = Cardinality(DOMAIN p)
    PROVE  /\ DOMAIN p # {} => \A i \in 1..4 :
                /\ Cardinality({j \in DOMAIN p : p[j] < b[i]}) * 5 <= i * count
                /\ i * count < Cardinality({j \in DOMAIN p : p[j] <= b[i]}) * 5
           /\ b[2] <= m /\ m <= b[3]
<1> DEFINE s == Sorted(p)
<1>1. PICK n \in Nat : n = Cardinality(DOMAIN p) /\ n = Len(s) /\ (n = 0 <=> DOMAIN p = {})
  <2>1. Cardinality(DOMAIN p) = 0 <=> DOMAIN p = {}
    BY FS_EmptySet DEF PriceList
  <2>2. QED
    BY <2>1, SortedLength
<1>2. CASE n = 0
  <2>1. Quantile(s, 1, 2) = 0 /\ Quantile(s, 2, 5) = 0 /\ Quantile(s, 3, 5) = 0
    BY <1>1, <1>2 DEF Quantile
  <2>2. b[2] = 0 /\ b[3] = 0
    BY <2>1
  <2>3. QED
    BY <1>1, <1>2, <2>1, <2>2
<1>3. CASE n # 0
  <2>1. ASSUME NEW i \in 1..4
        PROVE  /\ Cardinality({j \in DOMAIN p : p[j] < b[i]}) * 5 <= i * n
               /\ i * n < Cardinality({j \in DOMAIN p : p[j] <= b[i]}) * 5
    <3>1. i \in Nat /\ i < 5
      OBVIOUS
    <3>2. /\ Quantile(s, i, 5) = s[1 + ((n * i) \div 5)] /\ (n * i) \div 5 \in Nat
          /\ 1 + ((n * i) \div 5) \in 1 .. n
      BY <1>1, <1>3, <3>1, QuantilePlace
    <3>3. PICK k \in 1 .. n : k = 1 + ((n * i) \div 5) /\ b[i] = s[k]
      BY <3>2
    <3>4. PICK low \in Nat, up \in Nat :
             /\ low = Cardinality({j \in DOMAIN p : p[j] < b[i]})
             /\ up = Cardinality({j \in DOMAIN p : p[j] <= b[i]})
             /\ low < k /\ k <= up
      BY <1>1, <3>3, SortedAt
    <3>5. (k - 1) * 5 <= n * i /\ n * i < k * 5 /\ n * i = i * n
      <4>1. i = 1 \/ i = 2 \/ i = 3 \/ i = 4
        OBVIOUS
      <4>2. QED
        BY <3>3, <4>1
    <3>6. low * 5 <= (k - 1) * 5 /\ k * 5 <= up * 5
      BY <3>4
    <3>7. low * 5 <= i * n /\ i * n < up * 5
      BY <3>5, <3>6
    <3>8. QED
      BY <3>4, <3>7
  <2>2. /\ b[2] = s[1 + ((n * 2) \div 5)] /\ 1 + ((n * 2) \div 5) \in 1 .. n
        /\ b[3] = s[1 + ((n * 3) \div 5)] /\ 1 + ((n * 3) \div 5) \in 1 .. n
        /\ m = s[1 + ((n * 1) \div 2)] /\ 1 + ((n * 1) \div 2) \in 1 .. n
    <3>1. b[2] = Quantile(s, 2, 5) /\ b[3] = Quantile(s, 3, 5)
      OBVIOUS
    <3>2. Quantile(s, 2, 5) = s[1 + ((n * 2) \div 5)] /\ 1 + ((n * 2) \div 5) \in 1 .. n
      <4>1. 2 \in Nat /\ 5 \in {2, 5} /\ 2 < 5
        OBVIOUS
      <4>2. QED
        BY <1>1, <1>3, <4>1, QuantilePlace
    <3>3. Quantile(s, 3, 5) = s[1 + ((n * 3) \div 5)] /\ 1 + ((n * 3) \div 5) \in 1 .. n
      <4>1. 3 \in Nat /\ 5 \in {2, 5} /\ 3 < 5
        OBVIOUS
      <4>2. QED
        BY <1>1, <1>3, <4>1, QuantilePlace
    <3>4. Quantile(s, 1, 2) = s[1 + ((n * 1) \div 2)] /\ 1 + ((n * 1) \div 2) \in 1 .. n
      <4>1. 1 \in Nat /\ 2 \in {2, 5} /\ 1 < 2
        OBVIOUS
      <4>2. QED
        BY <1>1, <1>3, <4>1, QuantilePlace
    <3>5. QED
      BY <3>1, <3>2, <3>3, <3>4
  <2>3. 1 + ((n * 2) \div 5) <= 1 + ((n * 1) \div 2) /\ 1 + ((n * 1) \div 2) <= 1 + ((n * 3) \div 5)
    OBVIOUS
  <2>4. b[2] <= m /\ m <= b[3]
    BY <1>1, <2>2, <2>3, SortedRises
  <2>5. QED
    BY <1>1, <2>1, <2>4
<1>4. QED
  BY <1>2, <1>3

(* What is answered, and what is about to be stored, was read from a crawl   *)
(* that took place.                                                          *)
FromACrawl ==
    /\ crawl \in 1 .. Len(Crawls)
    /\ entry.filled => entry.at \in 1 .. Len(Crawls)
    /\ \A c \in Callers : caller[c].phase = "store" => caller[c].at \in 1 .. Len(Crawls)
    /\ \A j \in jobs : j.phase = "store" => j.at \in 1 .. Len(Crawls)

LEMMA CrawlInitially == HeatInit => FromACrawl
<1>1. 1 \in 1 .. Len(Crawls)
  BY CrawlsAssumption, EmptySeq
<1>2. QED
  BY <1>1 DEF HeatInit, FromACrawl, NoEntry, Idle

LEMMA CrawlStep == HeatInv /\ FromACrawl /\ [HeatNext]_heatVars => FromACrawl'
<1> SUFFICES ASSUME HeatInv, FromACrawl, [HeatNext]_heatVars PROVE FromACrawl'
  OBVIOUS
<1> USE DEF FromACrawl
<1>1. CASE UNCHANGED heatVars \/ Tick
  BY <1>1 DEF heatVars, Tick
<1>2. CASE Crawl
  <2>1. Len(Crawls) \in Nat
    BY CrawlsAssumption, LenProperties
  <2>2. crawl' \in 1 .. Len(Crawls)
    BY <1>2, <2>1 DEF Crawl
  <2>3. QED
    BY <1>2, <2>2 DEF Crawl
<1>3. ASSUME NEW c \in Callers, Get(c) PROVE FromACrawl'
  <2>1. /\ UNCHANGED <<crawl, entry>>
        /\ \A d \in Callers : caller'[d].phase = "store" => caller'[d] = caller[d]
    BY <1>3 DEF Get, Idle, HeatInv, HeatType
  <2>2. jobs' = jobs \/ \E j \in Refreshes : j.phase = "query" /\ jobs' = {j}
    BY <1>3, Scheduled DEF Get
  <2>3. QED
    BY <2>1, <2>2
<1>4. ASSUME NEW c \in Callers, Query(c) \/ QueryFails(c) \/ Leave(c) PROVE FromACrawl'
  <2>1. UNCHANGED <<crawl, entry, jobs>>
    BY <1>4 DEF Query, QueryFails, Leave
  <2>2. \A d \in Callers : caller'[d].phase = "store" =>
           caller'[d].at = crawl \/ (caller[d].phase = "store" /\ caller'[d].at = caller[d].at)
    <3>1. CASE Query(c)
      BY <3>1 DEF Query, HeatInv, HeatType, Calls
    <3>2. CASE QueryFails(c) \/ Leave(c)
      BY <3>2 DEF QueryFails, Leave, Idle, HeatInv, HeatType
    <3>3. QED
      BY <1>4, <3>1, <3>2
  <2>3. QED
    BY <2>1, <2>2
<1>5. ASSUME NEW c \in Callers, Store(c) PROVE FromACrawl'
  <2>1. entry' = Filled(caller[c].at) /\ caller[c].phase = "store" /\ UNCHANGED <<crawl, jobs>>
    BY <1>5 DEF Store
  <2>2. \A d \in Callers : caller'[d].phase = "store" => caller'[d] = caller[d]
    BY <1>5 DEF Store, HeatInv, HeatType, Calls
  <2>3. entry'.at \in 1 .. Len(Crawls)
    BY <2>1 DEF Filled
  <2>4. QED
    BY <2>1, <2>2, <2>3
<1>6. ASSUME NEW j \in jobs, RefreshQuery(j) PROVE FromACrawl'
  <2>1. UNCHANGED <<crawl, entry, caller>>
        /\ jobs' = (jobs \ {j}) \cup {[j EXCEPT !.phase = "store", !.at = crawl]}
    BY <1>6 DEF RefreshQuery
  <2>2. [j EXCEPT !.phase = "store", !.at = crawl].at = crawl
    BY DEF HeatInv, HeatType, Refreshes
  <2>3. QED
    BY <2>1, <2>2
<1>7. ASSUME NEW j \in jobs, RefreshEnds(j) PROVE FromACrawl'
  <2>1. UNCHANGED <<crawl, caller>> /\ jobs' \subseteq jobs
    BY <1>7 DEF RefreshEnds
  <2>2. entry' = entry \/ (j.phase = "store" /\ entry' = Filled(j.at))
    BY <1>7 DEF RefreshEnds
  <2>3. entry'.filled => entry'.at \in 1 .. Len(Crawls)
    BY <2>2 DEF Filled
  <2>4. QED
    BY <2>1, <2>3
<1>8. QED
  BY <1>1, <1>2, <1>3, <1>4, <1>5, <1>6, <1>7 DEF HeatNext

(* An answer the cache holds cuts the prices of a crawl into fifths: below a *)
(* breakpoint of computeHeatmap lie no more prices than its share, at or below *)
(* it more than that share, and the median lies between the middle two. Every *)
(* answer comes from a crawl that took place (FromACrawl), and quantile of its *)
(* sorted prices has this whatever the prices are (FifthsOf).                *)
THEOREM CutsFifths == HeatSpec => []BreakpointsCutFifths
<1>1. FromACrawl => BreakpointsCutFifths
  <2> SUFFICES ASSUME FromACrawl, entry.filled PROVE BreakpointsCutFifths
    BY DEF BreakpointsCutFifths
  <2>1. PICK p : p = Prices(entry.at)
    OBVIOUS
  <2>2. Crawls[entry.at] \in Seq([price : Nat, located : BOOLEAN])
    BY CrawlsAssumption, ElementOfSeq DEF FromACrawl
  <2>3. /\ DOMAIN Crawls[entry.at] \subseteq Nat
        /\ IsFiniteSet(DOMAIN Crawls[entry.at])
        /\ \A i \in DOMAIN Crawls[entry.at] : Crawls[entry.at][i].price \in Nat
    <3>1. /\ Len(Crawls[entry.at]) \in Nat
          /\ DOMAIN Crawls[entry.at] = 1 .. Len(Crawls[entry.at])
          /\ Crawls[entry.at] \in [1 .. Len(Crawls[entry.at]) -> [price : Nat, located : BOOLEAN]]
      BY <2>2, LenProperties
    <3>2. IsFiniteSet(1 .. Len(Crawls[entry.at]))
      BY <3>1, FS_Interval
    <3>3. QED
      BY <3>1, <3>2
  <2>4. PriceList(p)
    <3>1. DOMAIN p \subseteq DOMAIN Crawls[entry.at]
          /\ \A i \in DOMAIN p : p[i] = Crawls[entry.at][i].price
      BY <2>1 DEF Prices, Mapped
    <3>2. QED
      BY <2>3, <3>1, FS_Subset DEF PriceList
  <2>5. Len(Sorted(p)) = Cardinality(DOMAIN p)
    BY <2>4, SortedLength
  <2>6. /\ Response(entry.at).breakpoints = [i \in 1..4 |-> Quantile(Sorted(p), i, 5)]
        /\ Response(entry.at).median = Quantile(Sorted(p), 1, 2)
        /\ Response(entry.at).count = Cardinality(DOMAIN p)
    BY <2>1, <2>5 DEF Response
  <2>7. PICK b, m, n : /\ b = [i \in 1..4 |-> Quantile(Sorted(p), i, 5)]
                       /\ m = Quantile(Sorted(p), 1, 2)
                       /\ n = Cardinality(DOMAIN p)
    OBVIOUS
  <2>8. /\ DOMAIN p # {} => \A i \in 1..4 :
             /\ Cardinality({j \in DOMAIN p : p[j] < b[i]}) * 5 <= i * n
             /\ i * n < Cardinality({j \in DOMAIN p : p[j] <= b[i]}) * 5
        /\ b[2] <= m /\ m <= b[3]
    BY <2>4, <2>7, FifthsOf
  <2>9. /\ Response(entry.at).breakpoints = b /\ Response(entry.at).median = m
        /\ Response(entry.at).count = n
    BY <2>6, <2>7
  <2>10. QED
    BY <2>1, <2>8, <2>9 DEF BreakpointsCutFifths
<1>2. QED
  BY <1>1, CrawlInitially, CrawlStep, HeatInitially, HeatStep, PTL DEF HeatSpec
=============================================================================
