# TLA+ models of javi-forecast

javi-forecast is one asyncio process: a FastAPI application whose lifespan
(`app/main.py`) builds in-memory stores, starts periodic engines and a Kafka
consumer, and, when they are configured, talks to Redis, ClickHouse, an alert
webhook and a language-model service.  All paths below are relative to `src/`.

This directory holds models of its stateful parts, the TLC configurations that
check them on small instances, and proofs, checked by TLAPS, of what holds for
every value of the constants.  `PROJECT.json` lists components, runs, mutants,
the source lines behind every definition, the hazards and the theorems.

## Concurrency in this program

* One event loop.  A handler runs until it really suspends; an `async with
  lock` that no one holds across an await never suspends.  So a critical
  section without an inner await is *one action* of a model, whatever locks it
  takes, and a step ends at each call of the network, the thread pool or
  `asyncio.sleep`.
* Several tasks: the consumer's poll loop, the engines' loops (detector, RCA,
  forecaster, Granger, VAR, baselines, JVM, burn rate), the HTTP handlers, and
  fire-and-forget tasks (`_redis_persist`).  They interleave at those points.
* The thread pool: ClickHouse calls and model fits run in executor threads.  Two
  calls started in one order may end in the other.
* Outside the process: other replicas with the same Redis, ClickHouse and Kafka
  group; brokers that reassign partitions; crashes and restarts.

## Inventory

| component | state | operations | interacts with | hard part | what makes it right |
|---|---|---|---|---|---|
| FeatureStore (`engine/feature_store.py`) | open bucket, ring, LRU time and dedup index per service | `update`, `ingest_red`, `load_from_redis`, `flush_open_buckets` | spans from the consumer and `POST /ingest`; Redis; ClickHouse backfill; read by every engine | late spans, LRU eviction in the middle of a write, reordered and failed Redis writes, preload and backfill of the same minutes, crash | limit kept, nothing orphaned, no span lost or doubled, Redis keeps the newest points, a restart brings back what Redis holds |
| KafkaConsumerService (`consumer/kafka_consumer.py`) | position, committed offset, task | `start`, `stop`, `_consume_loop` | Kafka; event handlers | commit failure, cancellation in a commit, poison records, reassignment, no committed offset | acknowledged implies delivered; no record blocks the partition |
| AlertStore (`engine/alert_store.py`, `api/alerts.py`) | alert records, table `apm.alerts` | create, acknowledge, resolve, list, purge, load | detector, operators, ClickHouse, other pods | inserts reordered in the thread pool, lost inserts, restart from the table | records only move forward; active alerts survive a restart; table agrees |
| AnomalyDetector (`engine/anomaly_detector.py`) | suppression windows, the cycle's anomalies | `_run`, `_detect`, `stop` | ClickHouse, WebhookAlerter, AlertStore, AnomalyClusterer | a failing insert between suppression and hand-over, slow deliveries, cancellation | once per window; everything recorded is alerted and clustered; cycles end |
| WebhookAlerter (`alerter/webhook.py`) | time of the last alert per key | `fire`, `fire_anomaly` | detector, forecaster, API | concurrent callers around a slow POST | at most one alert per key and window |
| AnomalyClusterer (`engine/anomaly_clusterer.py`) | incidents | `ingest`, `close_incident`, `list_incidents` | detector, operators | incidents that stay open, first-match search, purge while open ones remain | incidents are disjoint sessions that only grow |
| RCAEngine (`engine/rca_engine.py`) | none but its last run | `_process` | anomalies, spans, neighbours and deployments in ClickHouse; incident store; language model | windows of two intervals overlap; failures per anomaly; failing inserts; restarts | each anomaly gets a report unless its own analysis raises, and at most three |
| Forecaster (`engine/forecaster.py`, `api/forecast.py`, `engine/selector.py`) | its task; writes forecasts, baselines, predictions, alerts | `_loop`, `_run_cycle`, `_forecast_service_metric`, runs over the API | FeatureStore, models in threads, ForecastStore, BaselineStore, AccuracyTracker, alerter | runs over the API beside the loop; one service failing; stale last points | one failure does not stop the others; a cycle refreshes what it could see |
| ForecastStore (`store/forecast_store.py`) | forecasts with expiry | set, get, evict_expired | forecaster, API | expiry against reads, overlapping writers | nothing fresh is dropped; only an overlapping run replaces a newer forecast |
| AccuracyTracker (`engine/accuracy_tracker.py`) | predictions per service, metric, model | record prediction, record actual | forecaster, selector | matching within ±90 s, duplicates | a prediction is compared with a later observation of its minute |
| BaselineStore (`engine/baseline_store.py`) | Welford sums per weekday and hour | update, get_baseline | forecaster, predictor | the same points fed each cycle | no observation missed, none counted twice |
| DependencyMap, GrangerAnalyzer (`engine/dependency_map.py`, `engine/granger_analyzer.py`) | edges | update, impact search | analysis loop in threads; API | a graph changed between two reads; cycles; edges of services that vanished | search equals reachability; edges as last tested |
| SpanTopologyTracker (`engine/span_topology.py`) | span to service cache, edges | record span, queries | consumer; `POST /ingest`; topology API | parents that arrive after children, bounded cache, redelivered spans | an edge is a real call; recent calls are shown |
| Burn rate, JVM, metric rings (`engine/burn_rate_analyzer.py`, `engine/jvm_*.py`, `engine/metric_feature_store.py`) | rings, last alerts | periodic analysis | consumer; API; WebhookAlerter | late or repeated snapshots; a service that raises; a cooldown that ignores the severity | a signal follows from the snapshots; a lasting burn keeps alerting |
| Registries (`engine/service_registry.py`, `deployment_store.py`, `feedback_store.py`) | bounded or expiring maps | record, list | consumer; API | limits, expiry | bounds kept; totals agree |
| Lifespan and health (`main.py`, `api/health.py`) | readiness, tasks | startup, shutdown, probes | everything | a task that died; order of start and stop | ready only when preloaded; a dead engine is reported |
| ClickHouseStore (`store/clickhouse.py`) | the client | queries and inserts | the stores above | rows in flight in threads | modelled with its users |
| Models, predictor, isolation forest, STL, VAR | fitted parameters | fit, score | forecaster, detector | numeric | out of a model checker's reach |
| RAG (`rag/`, `api/rag.py`) | logs and incidents in memory and in ChromaDB | index, search, answer | consumer, RCA, forecaster, language model, vector store | two copies that fail separately, redelivery, restart | a search finds what was saved and not lost |

## Modules

Each module's comments name the code its actions model; `PROJECT.json` has the
line ranges.

### FeatureStore

A point is its minute and the number of spans in it: percentiles and rates do
not influence control.  `Update` is a span (`update`), `IngestRed` a backfilled
row, `LoadService` one sorted set of the preload, `Persist`/`PersistFails` the
end of one fire-and-forget Redis pipeline, `FlushOpenBuckets` the shutdown flush
and `Restart` a crash or the end of the process at any point.  `phase` follows
the lifespan: HTTP and Kafka are served only after the backfill.  The LRU keeps
the *order* of the touch times (`older`) instead of the times.  A touch may evict
before the caller writes; `Store` is both, in the code's order.  `held` and
`written` are history variables: the spans handed to the store and kept, and the
points Redis was ever given.

### KafkaConsumer and AtLeastOnce

One partition and one group.  A dispatch never suspends, so `Dispatch` is one
step; the commit is a step of its own that may succeed, fail, or be in flight
when `stop` cancels the task (then it may or may not reach the broker).  A record
either lets the dispatch return (also malformed ones: the handlers and decoders
catch their errors) or makes it raise (a record without a value), which skips the
commit and sleeps.  A start that fails is logged and the process serves HTTP without
a consumer for good (`StartFails`, phase "abandoned"); only the next process starts
one again.  `AtLeastOnce` is the abstract promise, which is not about
polling or phases at all: an offset is acknowledged only when every record up to
it was delivered, or was forgone before the first acknowledgement.  The property
`AcknowledgesOnlyDelivered` is that promise under the mapping `published <-
Len(log)`, `delivered <- dispatched`, `acked <- committed`.

### AlertStore

Pods share the table `apm.alerts`, a ReplacingMergeTree whose version column is
`fired_at`; all rows of an alert have the same version, so the row merged or read
last wins.  `CreateAlert`, `Acknowledge` and `Resolve` change memory and start an
insert in the thread pool; `InsertLands` and `InsertFails` end any outstanding
one, in any order.  Time is two facts per alert: fired more than `ttl_hours` ago
(`aged`), and RESOLVED long enough to be purged (`stale`).  A pod's `Start` loads
the active rows, `StartUnloaded` is the preload that fails and is logged.  What
`client.insert` really does with the statement text it is given is the driver's
business; the model lets each insert succeed or fail.

### AnomalyClusterer

Incidents as the set of the records `ingest` keeps.  All anomalies of one
detection cycle carry one minute, which lags behind the clock by at most
`MaxDelay`; `Join` takes the first open incident that matches, in the order they were
opened, as the code's search does, and `Open` is for when there is none.  That at most
one ever matches is the lemma `NearIsNewest`.  `ListIncidents` purges.

### AnomalyDetector

The detector's task from the suppression filter to the clusterer, and the
`WebhookAlerter` it shares with the forecaster.  What is anomalous is any set of
anomalies.  The stages are the awaits: the insert, each delivery, each alert
record.  Records and clusters are of every anomaly inserted, whether its webhook went
out or not.  `FireForecast` is the forecaster firing for a metric, in its loop or in
a run over the API; `Posted` ends a delivery either way.  Alerter keys leave out
the span, so two spans of a service share one.

### Forecaster

The loop's cycle with its gather and semaphore, requests to
`POST /api/forecast/run`, and the stores a run writes.  A run is one record in
`runs`: it reads its points and counts them in the baselines (`LoopTask` or
`ApiRun`, through `Begin`), waits for the fit in the thread pool, then analyses,
stores, and either ends (`Forecast`) or waits for the delivery of an alert
(`ForecastAnomaly`, `Alerted`) before it records the prediction and the actuals.
`RunFails` is a fit or prediction that fails and is logged, or an analysis that
raises into the gather or the request.

A series holds the minutes of its points in the order of their *arrival*, and a point
is its position there: `Span` closes the open bucket for a span of any other minute, in
time or late, so older minutes follow newer ones and a minute may occur twice.  The
newest point to a run is the one that arrived last (`LastPoint`).  What is left out of
the numbers is told apart by how much of its series a run had read (`seen`): a stored
forecast is that number and the minute it was stored, a prediction record the minute it
is for, `seen`, and the point it was compared with.  An entry expires when `Ttl` minutes
have passed; within the last of them it may or may not be gone (`Expiries`), and is
dropped by the reader that finds it so or by the end of a cycle.

Keys are independent, which includes the five metrics of one service.  Custom metrics,
isolation forest and STL run between the gather and `evict_expired` and are part of the
stage "detecting"; they write none of the state modelled, except that custom-metric
forecasts go to the same store under keys of their own, by runs that read their points
before they get a permit (`forecaster.py:295`) and not after.  The ring's end is
FeatureStore's subject, and spans that claim a minute yet to come are left out.

`due` and `owed` are history variables: the points of each key that the cycle could see
when it began, and those that the forecast it ends with must know.  A run that read its
points before the loop's run did may end after it and put its older forecast in the
place of the newer one, so `owed` is the least of `due` and of what such runs had read.

### Ingest and SpanTopology

`Ingest` EXTENDS `KafkaConsumer`: a record now has contents, and the consumer's
`Dispatch`, `Stop` and other steps are conjuncts of the steps here.  A message has
a topic, a shape (`one` document, a `batch` validated as a whole, a `list`
validated item by item, `null`) and items, each valid, malformed (refused by
pydantic) or unhandled (accepted, but its time fits no datetime).  `Decoded` is
what of it reaches the handler; `Handled` is one item through a handler.  The
stores are the fields of `mem`: the call graph of `SpanTopology` (an index of
span ids with an expiry, edges, `Collected` for the purge of a read), the service
registry, the deployment rings, the metric rings and the logs.  FeatureStore
appears only as the number of times it was given each span (`counted`).  A log
goes to memory and to the ChromaDB collection, whose write may fail (`Handle`); a search
reads the collection, or the memory if there is none or the query fails (`Searched`).
`IngestStop` empties `mem` and keeps the collection; what was dispatched and not
committed is delivered again.  `PostBody` is a request that shares the handlers;
`GetTopology` is a read that purges.  `trace` and `unwritten` are history
variables.  `Own` marks the ids that occur in one item only, for which a count of
spans is a count of deliveries.  `Select` (module `Selection`) is the list
comprehension of the readers, here and in the analyzers.
Two facts about messages are assumed (`MessageAssumption`): FastAPI validates a body
before a handler sees it, so it has no malformed item, and an id names one service.
`SpanTtl` is at least 1, since a span that expired at once could be no parent.  The
two clocks of the tracker, monotonic and wall, are one.

### Lifecycle

The lifespan of `main.py` as two sequences of steps, `StartUp` and `ShutDown`, and
the position `at` in them.  Every engine is a task with one `start` and one
`stop`; `StopRaises` is the `await` of a task that died, which leaves the lifespan.
The only task that can die is the detector's, in its first training, before its
loop's `try`.  `Probe`, `Pinged` and `Answer` are the three parts of `/readyz`:
what it reads of the tasks is read after the ping.  `Init` picks any
configuration.  Two things outlive their tasks in the code and are no part of the
properties: the thread of a ClickHouse call whose `await` was cancelled goes on with the
client that the shutdown then closes (`baseline_computer.py:57`, `clickhouse.py:106`),
and the Redis writes still scheduled when `aclose` is called, which fail (`pending` is
set to 0).  uvicorn ends the requests in flight before the shutdown.

### RcaEngine

The cycles with their waits for the database and the language model, and the
incident store their analyses search.  `InsertAnomaly` is the detector; `Query` fixes
the cycle's anomalies, those of the last two intervals; `Analyze` takes one of them,
with evidence that is whole or lacks a part (each fetch is caught on its own).  It makes
a report, or raises, which is caught per anomaly and leaves none (`raised` remembers it).
The batch of reports is inserted (`Insert`) or lost (`InsertFails`); a cycle without a
report inserts nothing.  An interval passes after the *end* of a cycle.  A crash forgets
the incidents in memory; the collection of the incident store is there.  The topology
and the dependency map do not occur because the engine never reads them.

### DependencyMap

Three services are tested pair by pair in a worker thread (`TestPair`), which goes
on when its task is cancelled; the p-values are any.  A request reads the causes of
a service in two calls (`reading`), between which the thread may add and remove
edges.  `Visit` is one iteration of the code's breadth-first search and `Upstream`
as many of them as the search can take, one for the service and one for each edge;
that these empty the queue is part of what is proved.  `RootCausesRight` compares it
with the paths of the graph.

### JvmAnalyzer

Snapshots arrive late or twice; the ring keeps them in order of arrival.  A cycle
reads one service's window at a time (`ReadWindow`), computes the signals in the
executor and fires what they give.  Nothing keeps a snapshot's heap below the maximum it states;
one above it leaves negative time and no warning.  The least-squares fit, the mean and the
deviation are exact integer arithmetic on cross products.  A fit whose snapshots
all have one timestamp raises, which ends the cycle; the next one begins after the
interval.  The severity of an alert is left out, and its rate limit is checked in
AnomalyDetector and BurnRate.

### BurnRate

Each service's error rates by age in minutes.  `Compute` compares the mean of both
windows with the page and the ticket threshold; `Fire` goes through the alerter's
cooldown, whose key ignores the severity.  The loop wakes on time and a cycle takes
at most `MaxCycle`, because deliveries time out.  `sent` and `calmAt` are history
variables; `sent` is what the limit let pass, delivered or not.  A service's minutes are
kept by age, as far as a cycle reads or alerts of them (`Ages`), one point to a minute:
a late span may close an older one (`BurnMaxLate`), but that a minute closed twice
weighs twice in the mean is left out.  The ticket threshold is positive (it is 6 in the code): at a rate of
zero every service would burn.

### MCAlerts and MCAnalysis

AlertStore and AnomalyClusterer share no variable, so one run explores each of them
while the other is at rest: the union of their state spaces, not the product.  The
same holds of RcaEngine, DependencyMap, JvmAnalyzer and BurnRate in `MCAnalysis`.

## Runs

| run | expectation | question |
|---|---|---|
| `feature_store_ring` | pass | one service, three minutes, a ring of two, two restarts: ring, index, Redis and span counts stay consistent |
| `feature_store_evict` | pass | three services for two places: LRU limit, choice of victim, nothing orphaned |
| `kafka_commits` | pass | commit discipline refines `AtLeastOnce`; commits never go back; every record is reached by a consumer that started |
| `kafka_skip` | violation | a restart before the group's first commit jumps over records |
| `alerts` | pass | records of two pods, one anomaly each, three inserts outstanding, one failure, one restart: records move forward and survive; incidents of two services, window 1, retention 2, four ticks: disjoint, never split (about 1.3 million states, one minute) |
| `detector_cycle` | pass | three cycles over two spans with a shared alert key, and a forecast key fired meanwhile |
| `forecast_pipeline` | pass | two keys, one permit, a cycle and a request beside it, late spans, failures, expiry and shutdown (about 0.7 million states, two minutes) |
| `forecast_accuracy` | violation | a prediction is resolved by a point it was made from |
| `ingest` | pass | every kind of record, malformed items, one request, one stop or crash with redelivery, failing writes to and queries of ChromaDB: the stores hold what the log says, in order (about 2.5 million states, two and a half minutes) |
| `lifecycle` | pass | all 256 configurations, missing dependencies, a detector that dies: no task outlives the clients it uses, the probe tells the truth, the lifespan ends (131,456 states) |
| `analysis` | pass | overlapping RCA windows over a crash; the graph read while it changes; JVM signals over late snapshots; burn-rate alerts through the cooldown (about 2 million states, two and a half minutes) |
| `rca_incidents` | violation | after a restart the list of incidents lacks those an analysis finds |

The type invariants are theorems and no run repeats them.  When a module is changed,
its type invariant, and the other parts of the inductive invariant of its proof, can
be added to the configuration to see first whether they hold.

### Bounds

Bounds are constants named `Max...` and appear only in guards.  A ring of two
with three minutes overflows and reorders; two spans per bucket tell a doubled
bucket from a single one; two restarts let a second start load what the first
one left half written.  Three services for two places is the least that has a
choice of victim.  Four records and three stops allow a stop before, in and after
a commit and a reassignment behind it.  Three inserts outstanding allow a state
to be overtaken twice.  Window 1 and retention 2 with four ticks reach "just
within", "just beyond", and a purge with an older incident still open.  Two
suppression windows and two cooldowns pass within the four ticks of the detector.
Two keys with one permit make one task wait for the other while points arrive; the
request may read its points before the cycle, beside it or after it, and end in any
order.  Two points to a series and spans a minute late give series in order, out of
order and with a minute repeated; three minutes let a point leave the window and a
forecast of the first minute expire.  A second cycle would multiply the states beyond
what a run can hold; what an earlier cycle leaves in the stores a request leaves too,
and the theorems are of any number of cycles.  A tracker of one record overflows.

Ingest has a partition of three records out of seven, so that a caller's span, a
callee's span and a cut list come in every order; one stop, which may be a crash
between a dispatch and its commit, gives redelivery; the clock takes one step, past
which edges are old; rings of one overflow with the second item.  The collection is
there (`Collection = TRUE`): without it a search reads the memory, which is the
simpler case.  Lifecycle needs no bound but two outstanding Redis writes.
For the RCA engine two anomalies, an interval of two and a clock to seven hold
three overlapping windows and a restart between them.  Three services and two lags
give the graph cycles, chains and edges that change between two reads.  Five JVM
snapshots of two services, out of four samples of which one is late and above the heap's
size and one has no heap size, with a ring of four, reach overflow, disorder and equal timestamps;
`MinSnapshots` is two instead of the code's five.  One service with rates 0 and 3,
windows of two and three minutes and a clock to nine let burns begin, page, decay
to a ticket and last through two cooldowns; minutes close up to two late.  As that
service is the only one, an alert in `analysis` is late only by its own waiting; that
others' deliveries come before it is the theorem's part.


`CHECK_DEADLOCK FALSE` is set where the bounds end a behaviour; the system itself
is never out of steps.

### What the properties leave open

* `StartupMinutesDistinct` speaks of start-up; the live bucket of a minute the backfill
  brought is appended once more after it (see below).
* `NoObservationMissed` says that each point is counted, not that it is counted once.
* `CycleRefreshes` lets a run that had read its points before the loop's run put its
  older forecast in place, which the code does (see below).
* `NoAnomalyMissed` says nothing of an anomaly once an analysis of it raised.
* `ShutDownComplete` has the consumer stopped before the flush and no bucket left open;
  the Redis writes the flush schedules may still fail.
* `AppliedInOrder` is about ids that occur in one item only.  In the run few items of a
  list are of that kind, and its half about lists rests on the theorem.
* `SignalsJustified` takes "an earlier snapshot" of a thread leak in the order of
  arrival, as `_check_thread_leak` does.  Its arithmetic is exact: a slope that floating
  point makes of a constant heap by rounding is left out.
* `BurningKeepsAlerting` is of alerts of any severity: a page that waits for the cooldown
  of a ticket is not ruled out.

### Fairness

* Kafka: weak fairness of the end of a start, good or bad (`Start \/ StartFails`), of
  `Dispatch`, of the end of a commit and of the end of a back-off.  asyncio runs a
  ready task, aiokafka answers or fails a start and a commit by its request timeout,
  the deployment restarts an ended process.  That a start *succeeds* is not assumed, so
  `EventuallyDispatched` is a promise of a process whose start did; after one that did
  not (`main.py:275`) nothing is promised until that process ends.
  Nothing is assumed of `Publish`, `Stop`, `Reassign` or `PollFails`, which are
  bounded instead: an endless sequence of reassignments could starve a consumer.
* Detector: weak fairness of the steps of a cycle that has begun.  Calls of
  ClickHouse and deliveries (httpx, 10 s timeout) end.  Ticks and other callers
  are not assumed.
* Forecaster: weak fairness of the steps of a cycle that has begun.  A fit in the
  thread pool ends, a delivery ends by its timeout, and asyncio runs the task
  that waits for it.  New cycles, requests, spans and shutdown are not assumed.

* Lifecycle: weak fairness of a step of the start-up, of the shutdown, and of the
  two later parts of a probe.  Connecting and the probe's ping of ClickHouse time out,
  a cancelled task ends (nothing in the engines swallows the cancellation for good),
  and asyncio resumes what waited.  One thing is assumed that no timeout gives: a Redis
  that accepts the connection also answers the `ping` of the start-up and the reads of
  the preload, since its client only limits the time to connect (`main.py:97-103`).  One
  that never answers would hang the start-up.  Spans, probes, the end of the training and the request to
  stop are not assumed.
* Ingest and the analyzers state safety only.  That a burn-rate loop wakes on time
  is a bound on its clock (`BurnTick`), not fairness.

### Disagreements between the code and what it says

Runs of kind "violation" show three of them (`findings` in `PROJECT.json` quotes the
lines):

* `kafka_skip`: a restart before the group's first commit jumps over records.
* `forecast_accuracy`: a prediction is compared with a point it was made from.
* `rca_incidents`: the list of incidents reads the memory only, while
  `api/rag.py:352` says all that are stored; after a restart it lacks what an analysis
  of the same service still finds.

Others were met while modelling and are told here only:

* Alert records are made of every anomaly a cycle inserted (`anomaly_detector.py:303`),
  also of those the webhook's cooldown held back, while `alert_store.py:4` speaks of
  those that pass it.  `RecordedIsAlertedAndClustered` is of what the code does.
* Late spans make a series out of order (`feature_store.py:136`), while
  `models/base.py:21` expects chronological values.  A run then also predicts from the
  point that arrived last (`forecaster.py:448`), which may be of an older minute than the
  one it saw before.
* `forecast_store.set` overwrites whatever is there (`forecast_store.py:45`), so of two
  overlapping runs of a key the one that ends last wins, although it may have read fewer
  points, while `api/forecast.py:60` says latest.
* Two pods that detect one anomaly create two alerts: `create_alert` draws a
  fresh id, although `alert_store.py:7-8` expects duplicates to be suppressed.
* An incident stays open until somebody closes it, while
  `anomaly_clusterer.py:41` describes a time; retention is counted from
  `last_seen_at`, not from the closing (`:44`).
* `alerts_fired` (`anomaly_detector.py:301`) counts what the cooldown held back
  too, while `prom_metrics.py:69` says dispatched.
* Each forecast run counts its whole window in the baselines again
  (`forecaster.py:426-430`; `counts` in the model exceeds 1), while
  `baseline_store.py:80` says "Record a single observation" and `:64` asks for a
  minimum of *samples* before a slot is trusted.
* The gauge of firing alerts is refreshed only by a detection cycle
  (`anomaly_detector.py:306`).
* A minute the backfill brought is appended again when its live bucket closes
  (`feature_store.py:259`), while `docs/ARCHITECTURE.md:165` says that duplicate
  minutes are filtered.  The index of minutes keeps growing past the ring (`:258`).
* Two inserts of one alert in the thread pool may land in the other order, with
  equal versions (`clickhouse.py:556`), so the table may keep the older state,
  while `alert_store.py:6-8` relies on it.
* An insert that fails after its suppression was recorded (`anomaly_detector.py:267`)
  loses the anomaly for a whole window.
* `/readyz` answers 200 "only when fully initialised" (`health.py:60`), but a
  ClickHouse or Kafka that failed at start counts as disabled.
* The count of events "successfully enqueued" (`ingest.py:48-49`) includes those
  whose store raised and was caught.
* `deployment_store.py:24-25` speaks of a total; each service has a ring too.
* `rag.py:501` says that the recent logs are those of the vector store, but this list
  reads the memory only; after a restart it is empty while a search is not, unless the
  search's query fails: then it reads the memory too.  A redelivered log is a second
  document of the collection.  The `count()` of a search is outside
  its `try` (`log_store.py:141`).
* `docs/ARCHITECTURE.md` says that the RCA engine uses the dependency map; it never
  reads it, and a report's `similar_incidents` is always empty.
* A call is not in the topology if the child's span comes before its parent's
  (`span_topology.py:9-15`); `get_callers` and `get_callees` return stale edges too
  (`:62-63`).
* The "most recent" JVM snapshot (`jvm_feature_store.py:72`) is the last that
  arrived.  A GC storm is an *absolute* z-score, so unusually short pauses count,
  and pauses that are always excessive (deviation 0) never do.  A service whose
  analysis raises ends the cycle for those after it (`jvm_analyzer.py:127`).
* The burn-rate docstring says more than the threshold; the code says at least.
* An edge of the dependency graph is removed only when its pair is tested again
  (`dependency_map.py:70`); services that vanished keep theirs.
* `VarForecaster` joins the series on the minutes all services have
  (`var_forecaster.py:63`): one young service disables every forecast.

## Proofs

| module | what is proved, for every value of the constants |
|---|---|
| `FeatureStoreProofs` | `TypeOK`, `CardinalityBounded`, `NoOrphanState`, `StartupMinutesDistinct`, `IndexCoversSeries`, `LeastRecentlyUsedGoes`, `RedisHoldsNewest`, `PreloadMirrorsRedis`, `SpansAccounted` |
| `IngestProofs` | of KafkaConsumer: `TypeOK`, `AcknowledgesOnlyDelivered` (the refinement of `AtLeastOnce`), `CommitsMonotone`, `NothingIsLost`; of Ingest: `IngestTypeOK`, `IngestSpec` implements the `Spec` of KafkaConsumer, handlers see a valid prefix, `TopologyShowsRecentCalls`, `AppliedInOrder`, `LogsSearchable`, `CaughtUpStoresCurrent` |
| `AlertStoreProofs` | `TypeOK`, `LifecycleForward`, `ActiveSurvivesRestart` |
| `AnomalyDetectorProofs` | `TypeOK`, `RecordedIsAlertedAndClustered`, `SuppressedOncePerWindow`, `RateLimited` |
| `ForecasterProofs` | `TypeOK`, `CycleRefreshes`, `NoObservationMissed`, `NothingUnresolved` |
| `AnalysisProofs` | of AnomalyClusterer: `ClusterTypeOK`, `IncidentsDoNotOverlap`, `OpenIncidentsApart`, `IncidentsOnlyGrow`; of RcaEngine: `RcaTypeOK`, `NoAnomalyMissed`, `AtMostThreeReports`; of BurnRate: `BurnTypeOK`, `BurningKeepsAlerting`, `AlertsAreRecent`; of DependencyMap: `GraphTypeOK`, `RootCausesRight`; of JvmAnalyzer: `JvmTypeOK`, `SignalsJustified` |
| `LifecycleProofs` | `TypeOK`, `TasksUseOpenClients`, `ShutDownComplete`, `ReadyMeansAlive` |
| `FoldLemmas` | induction over numbers and finite sets, that recursive functions exist, and what `FoldLeft`, `MapThenFoldSet`, `SetToSeq` and `Select` compute, for the others |

The only assumptions are the named ASSUMEs of the modules (finite sets or sequences of names,
natural bounds), which TLC evaluates in the runs.

*FeatureStore.*  The inductive invariant is the conjunction of the first five
properties.  `StartupMinutesDistinct` alone is not inductive: a row is skipped
because its minute is *indexed*, so `IndexCoversSeries` is what keeps the series
free of duplicates; and the index of a service that comes back after its eviction
says nothing of its series unless the eviction took both, which is
`NoOrphanState`.  The lemmas about `Ring`, `Touch`, `Evictions`, `Store` and
`Loaded` say what each helper returns and carry every step of `NextIInv`.  The other
four rest on it.  `LeastRecentlyUsedGoes` needs that `older` orders all services in
memory (`LruIsTotal`).  `RedisHoldsNewest` and `SpansAccounted` are inductive as
they stand; the second is an induction over the sums of rings.  `PreloadMirrorsRedis`
needs that no write is under way in the preload and that no service is read twice
(`Preloading`).

*KafkaConsumer.*  The invariant adds `ReadIsAccountedFor`: all offsets up to the
committed one, and in a running consumer up to its position, were dispatched or
forgone, and the position is not behind the group.  A commit without arguments
sends the position, whatever else happened since the dispatch, so the position is
what the invariant must speak of.  `StepRefines` maps each step to a step of
`AtLeastOnce` or a stutter; `Implements` lifts it with the invariant.

*AlertStore.*  The invariant ties three places that may hold an alert's state:
memory, outstanding inserts and the table.  A row that is not RESOLVED and whose
alert was never resolved stays active whatever order inserts land in, because no
RESOLVED row of it was ever started.

*AnomalyClusterer.*  The two properties need each other: an anomaly joins the
incident that `Near` finds, and only because open incidents of a service are more
than the window apart is that the newest one, so extending it cannot run into a
later incident.

*AnomalyDetector.*  `SuppressedOncePerWindow` and `RateLimited` compare the
program's tables with the times of the passes and dispatches themselves, which
are history variables.  `WindowsFollowPasses` says what an entry, and the absence
of one, means: an entry ends one window after the pass that set it, and a purged
one belongs to a pass at least a window ago.  `CooldownsFollowDispatches` does the
same for the alerter.  For the hand-over the invariant follows the cycle through
its stages: what is still to do and what has an alert make up what was inserted.

*Lifecycle.*  The properties are about clients and tasks at every stage, so the
invariant says which clients may be open and which tasks alive at each position of
`StartUp` and `ShutDown`; each step moves the position by one and settles the entry
it passes.

*RcaEngine.*  `AtMostThreeReports` counts: queries of completed cycles are an
interval apart, so the k-th report on an anomaly, stored or on its way, comes of a
query at least k - 1 intervals after the anomaly was inserted, and a query two
intervals and more later does not see it.  `NoAnomalyMissed` rests on
`CoverInv`: what the cycle's query saw is in its batch or among its reports, and,
as long as good cycles asked at most two intervals apart, whatever was inserted
before the last of them asked has a stored report, or an analysis of it raised.

*Ingest.*  A projection: its steps are steps of KafkaConsumer or leave its
variables alone, so everything proved there carries over.
`HandlersSeeAValidPrefix` takes the least position of a malformed item.  The stores
are proved against the history of events: `Kept` (a part of `IngestTyped`) says of
each what it holds of `trace`.  An attribute is that of the last span that had it, a
ring ends with its service's last event, an index entry belongs to the latest span of
its id, and an edge counts calls and was seen at one.  One lemma per store shows that
one item keeps it (`RegistryKept`, `RingsKept`, `IndexKept`, `EdgesKept`), and
`ItemsKeep` carries that through the fold over a message's items.
`TopologyShowsRecentCalls` follows.  `AppliedInOrder` is inductive once it is said of
all messages and not only of those in the log (`Applied`).  `LogsSearchable` counts:
`LogInv` adds the records the present consumer is past, which the next stop turns
into copies, and the newest logs of the present process, which are in its memory
whether or not their write to the collection failed.  For `CaughtUpStoresCurrent` the events must be related to the log.
`Replay` says that they are of the log (`OfTheLog`) and that an event before which
the consumer was further on is followed by another delivery of what it had handled,
once it is past that again (`Redelivered`).  So the last event of a caught-up
consumer is of the newest offset.  Before a first commit a reassignment moves the
position to the end, and the events come in order (`Ascending`).

*Forecaster.*  A series only grows, so a run that reads it later has seen more of it,
in whatever order its minutes came.  When the loop's run of a key has read its points,
each fit of the key in progress has seen as much as is owed, because what is owed is the
least of what they saw; and one that begins later has seen more.  So whichever of them
stores last, the forecast is good enough (`Refreshing`), which with `Kept` (what was
stored is live or old) and `Gathering` (no run of the loop is left) gives
`CycleRefreshes`.  `Counting` is the same argument for the baselines.
`NothingUnresolved` holds after every run because the last point of the run resolves
its own prediction, the only one that is open, wherever the minutes before it lie: an
induction over the fold of `record_actual` (`TrackedResolves`).

*BurnRate.*  `AlertedInv` says as of when each service is settled, that is calm or
alerted within the cooldown: as of the start of the cycle if the cycle has done with
it, else as of the start of the cycle before.  `PaceInv` bounds how long ago that was.
An alert needs an error because the mean is compared with a positive threshold
(`BurnHasError`, `SumOfZeros`), and the minutes only grow older while the cycle waits.

*DependencyMap.*  `CausingIsLeast` gives the reference its meaning: the services with
a path to this one are the least set that holds the causes of the service and of its
own members, because a set that still grows has a member for every iteration.  The
search keeps `Searching`: whatever it has met leads to the service, the causes of what
it visited are met, and its roots are those visited that nothing causes.  It ends
because the queue's length and the edges into services not visited together fall with
each iteration (`Remaining`), in a graph with cycles too; the visited set is then
closed, so it is the least closed set (`UpstreamFinds`).  The second half of the
property needs `ReadInv`: the causes a request read are those of the graph until an
update spoils them.

*JvmAnalyzer.*  A window's numerator and denominator are covariances: `CovarianceUpTo`
shows, one row after the other, that a covariance adds up the products of what each two
rows differ by.  If none of these is positive, nor is the slope, so a rising line has
two snapshots of which the later has the larger heap; and the denominator is 0 only for
equal timestamps (`RisingLine`).  The storm is Samuelson's inequality
(`OneAmongMany`, `StormHasMany`): of n values none is more than the square root of
n - 1 deviations from their mean, so with `_GC_STORM_Z` = 3 and the code's
minimum of five snapshots, no window of nine or fewer is a storm by deviation alone.
A leak needs a step up (`LeakHasRise`).  What is left is that the alerts in hand were
computed from the window kept with them, whatever is posted meanwhile.

*FoldLemmas.*  The folds of the community modules are recursive functions over finite
sets, so they can be reasoned about in set theory: induction is stated for the *set*
of the cases that hold (`UpTo`, `SubsetInduction`), and a fold is shown to exist and
then to pass through the prefixes of its sequence (`FoldPrefixes`) or, for a sum,
through the subsets of its set in any order (`SumAnyOrder`).  `RecursionExists` does the
same for a recursive function on numbers, such as the search and the reference it is
compared with.

## What is only model-checked

* Liveness (`EventuallyDispatched`, the two `CycleEnds`, `LifespanMovesOn`):
  fairness and `ENABLED` are beyond the prover.
* The three runs that expect a violation.

## Not modelled, and the plan

Done, with proofs: FeatureStore, KafkaConsumer with AtLeastOnce, AlertStore,
AnomalyDetector with WebhookAlerter, AnomalyClusterer, Ingest with SpanTopology,
Lifecycle, RcaEngine, Forecaster with its stores, BurnRate, DependencyMap, JvmAnalyzer.
What could come next:

1. an abstract map of the newest value per service that the stores of Ingest
   implement between redeliveries
2. FeedbackStore (expiring entries, a total read beside the purge) and the choice of
   the model in `engine/selector.py`
3. the detector's later trainings, which only read ClickHouse

Not planned: the numerical models (ARIMA, Holt-Winters, EWMA, VAR, STL, isolation
forest, the anomaly predictor: floating point, by libraries); retrieval prompts,
text-to-SQL and the language model (calls to services); routes that only format
what a store holds; the data classes and the configuration.  `VarForecaster` keeps
nothing but its last result, which its numerical fit decides.
