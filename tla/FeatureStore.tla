---------------------------- MODULE FeatureStore ----------------------------
(***************************************************************************)
(* The in-memory RED feature store of app/engine/feature_store.py, with    *)
(* its Redis write-through and the start-up and shut-down sequence that    *)
(* app/main.py drives it through.                                          *)
(*                                                                         *)
(* A RED data point is abstracted to its minute and the number of spans it *)
(* aggregates.  asyncio runs one handler at a time and the per-service     *)
(* locks are never held across an await, so update, ingest_red and         *)
(* flush_open_buckets are each one step; only a Redis round trip can be    *)
(* interleaved with another handler.                                       *)
(***************************************************************************)
EXTENDS Integers, FiniteSets, SequencesExt

CONSTANTS
    Service,      \* service names seen in spans
    Minute,       \* the minutes spans and ClickHouse rows fall into
    MaxLen,       \* maxlen: points kept per service
    MaxServices,  \* max_services: services tracked before LRU eviction
    MaxCount,     \* bound: spans aggregated in one point
    MaxSpans,     \* bound: calls of update in a behaviour
    MaxRestarts   \* bound: crashes and shutdowns in a behaviour

ASSUME ServiceAssumption == IsFiniteSet(Service)
ASSUME MinuteAssumption == Minute \subseteq Nat
ASSUME MaxLenAssumption == MaxLen \in Nat \ {0}
ASSUME MaxServicesAssumption == MaxServices \in Nat \ {0}
ASSUME BoundsAssumption ==
    /\ MaxCount \in Nat \ {0}
    /\ MaxSpans \in Nat
    /\ MaxRestarts \in Nat

VARIABLES
    phase,       \* where main.py's lifespan is
    toLoad,      \* services load_from_redis has still to read
    cursor,      \* per service, the last minute backfilled in this start-up
    tracked,     \* the keys of _lru
    older,       \* <<a, b>>: _lru[a] < _lru[b]
    bucket,      \* _buckets: no or one open bucket per service
    series,      \* _series: the ring of flushed points
    tsIndex,     \* _ts_index: minutes ingested
    persisting,  \* _redis_persist calls waiting for Redis
    redis,       \* fs:series:{service}, a set of points ordered by score
    known,       \* fs:services
    held,        \* history: spans the store holds for the service
    written,     \* history: points ever written to Redis
    spans,       \* bounded count of update calls
    restarts     \* bounded count of process ends

memory == <<toLoad, cursor, tracked, older, bucket, series, tsIndex, held>>
external == <<redis, known, written>>
bounds == <<spans, restarts>>
vars == <<phase, memory, persisting, external, bounds>>

-----------------------------------------------------------------------------

Phase == {"preload", "backfill", "live", "closing"}

\* A _Bucket, or the REDMetric it turns into.
Point == [minute : Minute, count : 1..MaxCount]

Minutes(q) == {q[i].minute : i \in DOMAIN q}

\* The spans aggregated by a sequence of points.
Weight(q) == FoldSeq(LAMBDA p, sum : p.count + sum, 0, q)

\* deque(maxlen=MaxLen): appending to a full ring drops its first points.
Ring(q) ==
    IF Len(q) <= MaxLen THEN q
    ELSE SubSeq(q, Len(q) - MaxLen + 1, Len(q))

\* Order of a Redis sorted set: by score, then by the JSON member, whose
\* first differing field is the rate (count / 60).
Before(p, q) ==
    \/ p.minute < q.minute
    \/ p.minute = q.minute /\ p.count < q.count

\* Mutant: the rank of the trim is off by one.
NewestPlusOne(S) ==
    {p \in S : Cardinality({q \in S : Before(p, q)}) <= MaxLen}

\* zremrangebyrank(key, 0, -(maxlen + 1)): all but the maxlen highest go.
Newest(S) ==
    {p \in S : Cardinality({q \in S : Before(p, q)}) < MaxLen}

-----------------------------------------------------------------------------
(* _touch and _evict_lru: recency is kept as the order of the _lru times.  *)

\* Mutant: only the first touch of a service sets its time (FIFO).
TouchOrderFifo(s) ==
    IF s \in tracked THEN older ELSE older \cup (tracked \X {s})

TouchOrder(s) ==
    {pr \in older : s \notin {pr[1], pr[2]}} \cup ((tracked \ {s}) \X {s})

Oldest(T, order) == {v \in T : \A u \in T : <<u, v>> \notin order}

\* Mutant: one service too many before an eviction.
EvictionsLate(s) ==
    LET lru == tracked \cup {s} IN
    IF s \notin tracked /\ Cardinality(tracked) > MaxServices
    THEN {{v} : v \in Oldest(lru, TouchOrder(s))}
    ELSE {{}}

\* The sets of services a touch of s may evict: one of the least recently
\* used when s is new and the store is full, none otherwise.
Evictions(s) ==
    LET lru == tracked \cup {s} IN
    IF s \notin tracked /\ Cardinality(lru) > MaxServices
    THEN {{v} : v \in Oldest(lru, TouchOrder(s))}
    ELSE {{}}

Touch(s, evicted) ==
    /\ tracked' = (tracked \cup {s}) \ evicted
    /\ older' = {pr \in TouchOrder(s) : {pr[1], pr[2]} \cap evicted = {}}

\* Mutant: the eviction only pops the _lru entry.
ForgetNothing(f, evicted, none) == f

\* A per-service field after _evict_lru popped the evicted services from it.
Forget(f, evicted, none) ==
    [s \in Service |-> IF s \in evicted THEN none ELSE f[s]]

\* Mutant: the minutes of appended points are not indexed.
IndexedNothing(index, q) == index

\* _ts_index[service] once the points q are appended.
Indexed(index, q) == index \cup Minutes(q)

\* Everything _evict_lru pops besides _lru, then the caller's own writes to
\* s: the new points q, the open bucket b, and n more spans than before.
Store(s, evicted, q, b, n) ==
    LET all == Forget(series, evicted, <<>>)[s] \o q
        had == Forget(held, evicted, 0)[s]
    IN  /\ series' = [Forget(series, evicted, <<>>) EXCEPT ![s] = Ring(all)]
        /\ tsIndex' = [Forget(tsIndex, evicted, {}) EXCEPT
                          ![s] = Indexed(@, q)]
        /\ bucket' = [Forget(bucket, evicted, <<>>) EXCEPT ![s] = b]
        /\ held' = [Forget(held, evicted, 0) EXCEPT
                       ![s] = (had + n + Weight(Ring(all))) - Weight(all)]

-----------------------------------------------------------------------------

Init ==
    /\ phase = "preload"
    /\ toLoad = {}
    /\ cursor = [s \in Service |-> 0]
    /\ tracked = {}
    /\ older = {}
    /\ bucket = [s \in Service |-> <<>>]
    /\ series = [s \in Service |-> <<>>]
    /\ tsIndex = [s \in Service |-> {}]
    /\ persisting = {}
    /\ redis = [s \in Service |-> {}]
    /\ known = {}
    /\ held = [s \in Service |-> 0]
    /\ written = [s \in Service |-> {}]
    /\ spans = 0
    /\ restarts = 0

\* Mutant: the lowest score of the range is excluded.
LoadedOpenRange(S, index) ==
    {p \in S : /\ p.minute \notin index
               /\ \E q \in S : q.minute < p.minute
               /\ \A q \in S : q.minute = p.minute => ~Before(q, p)}

\* The members of a sorted set the load appends: minutes already indexed are
\* skipped, so only the first member of each minute stays.
Loaded(S, index) ==
    {p \in S : /\ p.minute \notin index
               /\ \A q \in S : q.minute = p.minute => ~Before(q, p)}

(* load_from_redis: one service's sorted set, read in score order.         *)
LoadService(s) ==
    LET points == Loaded(redis[s], tsIndex[s])
    IN  /\ phase = "preload"
        /\ s \in toLoad
        /\ toLoad' = toLoad \ {s}
        /\ \E evicted \in Evictions(s), q \in [1..Cardinality(points) -> points] :
              /\ \A i, j \in DOMAIN q : i < j => Before(q[i], q[j])
              /\ Touch(s, evicted)
              /\ Store(s, evicted, q, bucket[s], Weight(q))
        /\ UNCHANGED <<phase, cursor, persisting, external, bounds>>

\* zrangebyscore raised: the service is skipped.
LoadFails(s) ==
    /\ phase = "preload"
    /\ s \in toLoad
    /\ toLoad' = toLoad \ {s}
    /\ UNCHANGED <<phase, cursor, tracked, older, bucket, series, tsIndex,
                   held, persisting, external, bounds>>

PreloadDone ==
    /\ phase = "preload"
    /\ toLoad = {}
    /\ phase' = "backfill"
    /\ UNCHANGED <<memory, persisting, external, bounds>>

(* backfill_feature_store: one row of query_red_metrics (rows come in      *)
(* minute order) through ingest_red.  The loop awaits the Redis write of a *)
(* row before it ingests the next one.                                     *)
IngestRed(s, p) ==
    /\ phase = "backfill"
    /\ persisting = {}
    /\ p.minute > cursor[s]
    /\ cursor' = [cursor EXCEPT ![s] = p.minute]
    /\ \E evicted \in Evictions(s) :
          /\ Touch(s, evicted)
          /\ LET duplicate == p.minute \in Forget(tsIndex, evicted, {})[s]
                 kept == Forget(bucket, evicted, <<>>)[s]
             IN  \/ /\ duplicate
                    /\ Store(s, evicted, <<>>, kept, 0)
                    /\ UNCHANGED persisting
                 \/ /\ ~duplicate
                    /\ Store(s, evicted, <<p>>, kept, p.count)
                    /\ persisting' = {<<s, p>>}
    /\ UNCHANGED <<phase, toLoad, external, bounds>>

BackfillDone ==
    /\ phase = "backfill"
    /\ persisting = {}
    /\ phase' = "live"
    /\ UNCHANGED <<memory, persisting, external, bounds>>

\* Mutant: the old bucket is replaced without being flushed.
ClosedUnflushed(b, m) == <<>>

\* The buckets a span of minute m closes: the open one, if of another minute.
Closed(b, m) == IF m \in Minutes(b) THEN <<>> ELSE b

\* The bucket the span is added to.
Opened(b, m) ==
    IF m \in Minutes(b) THEN <<[b[1] EXCEPT !.count = @ + 1]>>
    ELSE <<[minute |-> m, count |-> 1]>>

(* update: a span of service s whose start time falls into minute m.  It   *)
(* comes from Kafka or from POST /ingest, so m may be any minute: late     *)
(* spans are accepted.                                                     *)
Update(s, m) ==
    /\ phase = "live"
    /\ spans < MaxSpans
    /\ spans' = spans + 1
    /\ \E evicted \in Evictions(s) :
          LET b == Forget(bucket, evicted, <<>>)[s]
              closed == Closed(b, m)
          IN  /\ m \in Minutes(b) => b[1].count < MaxCount
              /\ Touch(s, evicted)
              /\ Store(s, evicted, closed, Opened(b, m), 1)
              /\ persisting' =
                    persisting \cup {<<s, closed[i]>> : i \in DOMAIN closed}
    /\ UNCHANGED <<phase, toLoad, cursor, external, restarts>>

(* _redis_persist reaches Redis: one pipeline of zadd, sadd and the trim.  *)
Persist(t) ==
    LET s == t[1]
        p == t[2]
    IN  /\ t \in persisting
        /\ persisting' = persisting \ {t}
        /\ redis' = [redis EXCEPT ![s] = Newest(@ \cup {p})]
        /\ known' = known \cup {s}
        /\ written' = [written EXCEPT ![s] = @ \cup {p}]
        /\ UNCHANGED <<phase, memory, bounds>>

\* Redis is down, or no client is configured: the point is only in memory.
PersistFails(t) ==
    /\ t \in persisting
    /\ persisting' = persisting \ {t}
    /\ UNCHANGED <<phase, memory, external, bounds>>

(* The lifespan's shutdown: the consumer has stopped, flush_open_buckets   *)
(* closes every bucket and starts its Redis writes.                        *)
FlushOpenBuckets ==
    /\ phase = "live"
    /\ phase' = "closing"
    /\ series' = [s \in Service |-> Ring(series[s] \o bucket[s])]
    /\ tsIndex' = [s \in Service |-> Indexed(tsIndex[s], bucket[s])]
    /\ bucket' = [s \in Service |-> <<>>]
    /\ held' = [s \in Service |->
                  LET all == series[s] \o bucket[s] IN
                  (held[s] + Weight(Ring(all))) - Weight(all)]
    /\ persisting' = persisting \cup
          UNION {{<<s, bucket[s][i]>> : i \in DOMAIN bucket[s]} : s \in Service}
    /\ UNCHANGED <<toLoad, cursor, tracked, older, external, bounds>>

(* The process ends, by a crash in any phase or at the end of the shutdown *)
(* (aclose does not wait for the persist tasks), and is started again.     *)
(* smembers may fail, then nothing is loaded.                              *)
Restart ==
    /\ restarts < MaxRestarts
    /\ restarts' = restarts + 1
    /\ phase' = "preload"
    /\ toLoad' \in {known, {}}
    /\ cursor' = [s \in Service |-> 0]
    /\ tracked' = {}
    /\ older' = {}
    /\ bucket' = [s \in Service |-> <<>>]
    /\ series' = [s \in Service |-> <<>>]
    /\ tsIndex' = [s \in Service |-> {}]
    /\ held' = [s \in Service |-> 0]
    /\ persisting' = {}
    /\ UNCHANGED <<external, spans>>

Next ==
    \/ \E s \in Service : LoadService(s) \/ LoadFails(s)
    \/ PreloadDone
    \/ \E s \in Service, p \in Point : IngestRed(s, p)
    \/ BackfillDone
    \/ \E s \in Service, m \in Minute : Update(s, m)
    \/ \E t \in persisting : Persist(t) \/ PersistFails(t)
    \/ FlushOpenBuckets
    \/ Restart

Spec == Init /\ [][Next]_vars

-----------------------------------------------------------------------------
(* Properties.                                                             *)

\* Every variable has the type of the field it models.
TypeOK ==
    /\ phase \in Phase
    /\ toLoad \subseteq Service
    /\ cursor \in [Service -> Nat]
    /\ tracked \subseteq Service
    /\ older \subseteq Service \X Service
    /\ bucket \in [Service -> Seq(Point)]
    /\ \A s \in Service : Len(bucket[s]) <= 1
    /\ series \in [Service -> Seq(Point)]
    /\ \A s \in Service : Len(series[s]) <= MaxLen
    /\ tsIndex \in [Service -> SUBSET Minute]
    /\ persisting \subseteq Service \X Point
    /\ redis \in [Service -> SUBSET Point]
    /\ \A s \in Service : IsFiniteSet(redis[s])
    /\ known \subseteq Service
    /\ DOMAIN held = Service
    /\ written \in [Service -> SUBSET Point]
    /\ spans \in Nat
    /\ restarts \in Nat

\* Spans with ever new service names never make the store track more than
\* max_services services, whichever path (preload, backfill, live) they come
\* by (_touch, _evict_lru).
CardinalityBounded == Cardinality(tracked) <= MaxServices

\* A service the LRU dropped leaves nothing behind: a bucket, series or index
\* without an _lru entry could never be evicted again, and a stale index
\* would make a later backfill of the service skip its minutes.
NoOrphanState ==
    \A s \in Service \ tracked :
        bucket[s] = <<>> /\ series[s] = <<>> /\ tsIndex[s] = {}

\* The dedup index covers every point in memory, whoever appended it (the
\* preload, the backfill, a closing bucket, the shutdown flush).
IndexCoversSeries == \A s \in Service : Minutes(series[s]) \subseteq tsIndex[s]

DistinctMinutes(q) ==
    \A i, j \in DOMAIN q : i # j => q[i].minute # q[j].minute

\* As long as only the preload and the backfill have written, no minute is in
\* a series twice, although Redis may hold two points of one minute and the
\* backfill reads minutes the preload has already brought.
StartupMinutesDistinct ==
    phase \in {"preload", "backfill"} =>
        \A s \in Service : DistinctMinutes(series[s])

\* load_from_redis brings back every minute Redis holds of a service it read
\* and kept, and nothing else: a restart loses no persisted minute.
PreloadMirrorsRedis ==
    phase = "preload" =>
        \A s \in tracked :
            Minutes(series[s]) = {p.minute : p \in redis[s]}

\* The fire-and-forget persists of one service run in any order, some fail,
\* and the process may restart between them; still each sorted set holds
\* exactly the newest maxlen of the points ever written to it.
RedisHoldsNewest ==
    \A s \in Service :
        /\ redis[s] \subseteq written[s]
        /\ \/ redis[s] = written[s] /\ Cardinality(redis[s]) <= MaxLen
           \/ Cardinality(redis[s]) = MaxLen
        /\ \A p \in written[s] \ redis[s] : \A q \in redis[s] : Before(p, q)

\* No span is counted twice or dropped between bucket and series: the spans in
\* the open bucket and the ring are those put in, less those of the points the
\* ring dropped at its limit.
SpansAccounted ==
    \A s \in Service : held[s] = Weight(bucket[s]) + Weight(series[s])

\* An eviction takes a service touched before every one it leaves, and the
\* service whose bucket is written becomes the last in line.
LeastRecentlyUsedGoes ==
    [][ restarts' = restarts =>
          /\ \A v \in tracked \ tracked', u \in tracked' \cap tracked :
                <<v, u>> \in older
          /\ \A s \in tracked' : \A u \in tracked' \ {s} :
                Len(bucket'[s]) > 0 /\ bucket'[s] # bucket[s] =>
                    <<u, s>> \in older' ]_vars
=============================================================================
