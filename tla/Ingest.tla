------------------------------- MODULE Ingest -------------------------------
(***************************************************************************)
(* Ingestion: the consumer of KafkaConsumer with the contents of its       *)
(* records, the four handlers it dispatches to (app/consumer/), the HTTP   *)
(* endpoints that share them (app/api/ingest.py, app/api/events.py,        *)
(* POST /logs/ingest), and the stores they fill: the call graph of         *)
(* SpanTopology, the service registry, deployments, custom metrics and     *)
(* logs.  FeatureStore has a module of its own; here it is the number of   *)
(* times it was given each span.                                           *)
(*                                                                         *)
(* No handler suspends: a record, and the body of a POST, is one step.     *)
(***************************************************************************)
EXTENDS KafkaConsumer, SpanTopology, Selection

CONSTANTS
    Message,     \* records: [topic, shape, items]
    Body,        \* bodies posted: [topic, items]
    Service,
    PerService,  \* deployments kept for one service
    MaxAll,      \* deployments kept for all services
    MaxPoints,   \* points kept of a custom metric
    MaxMemory,   \* logs kept in memory
    Collection,  \* whether the log store has ChromaDB
    MaxPosts,    \* bound: bodies posted
    MaxNow       \* bound: the clock

ASSUME RingAssumption ==
    /\ {PerService, MaxAll, MaxPoints, MaxMemory} \subseteq Nat \ {0}
    /\ {MaxPosts, MaxNow} \subseteq Nat
    /\ Collection \in BOOLEAN

VARIABLES
    content,     \* the records of the partition
    mem,         \* the stores of the process
    chroma,      \* documents of each log in the Chroma collection, on disk
    unwritten,   \* history: logs some write of which did not reach the collection
    trace,       \* history: events handled since the process started
    now,         \* the clock
    posts        \* bounded count of bodies posted

stores == <<content, mem, chroma, unwritten, trace, now, posts>>

-----------------------------------------------------------------------------
(* Messages.  An item is a record [kind, id, service, parent, error,       *)
(* attrs, time].  "valid" items are what the pydantic model accepts,       *)
(* "malformed" ones what it refuses; an "unhandled" item is accepted but   *)
(* has a time no datetime holds.                                           *)

Items == UNION {ToSet(m.items) : m \in Message \cup Body}
Ids == {i.id : i \in Items}

\* Every span with an id is of one service: a second one is a redelivery.
\* FastAPI refuses a body with a malformed item.
ASSUME MessageAssumption ==
    /\ \A m \in Message \cup Body :
          m.topic \in {"spans", "deploys", "metrics", "logs"} /\ m.items \in Seq(Items)
    /\ \A i \in Items : /\ i.service \in Service /\ i.time \in Nat /\ i.error \in BOOLEAN
                       /\ i.attrs = [a \in DOMAIN i.attrs |-> i.attrs[a]]
    /\ \A i, j \in Items : i.id = j.id => i.service = j.service
    /\ \A b \in Body : \A i \in ToSet(b.items) : i.kind # "malformed"

\* json.loads(None) raises a TypeError, which no _process_ method catches.
EndingOf(m) == IF m.shape = "null" THEN "raises" ELSE "returns"

Malformed(m) == {i \in DOMAIN m.items : m.items[i].kind = "malformed"}

\* Mutant: a malformed item of a list is skipped.
DecodedSkipping(m) == SelectSeq(m.items, LAMBDA i : i.kind # "malformed")

(* The items of a message that reach a handler.  The spans of a batch and  *)
(* the item of an object are validated as a whole, a list item by item up  *)
(* to the first malformed one.  Metrics and deployments come one by one,   *)
(* and bytes that are not JSON, scalars and unknown shapes are dropped.    *)
Decoded(m) ==
    CASE m.shape = "one" /\ Malformed(m) = {} -> m.items
      [] m.shape = "batch" /\ m.topic = "spans" /\ Malformed(m) = {} -> m.items
      [] m.shape = "list" /\ m.topic \in {"spans", "logs"} ->
            SubSeq(m.items, 1,
                   IF Malformed(m) = {} THEN Len(m.items)
                   ELSE (CHOOSE i \in Malformed(m) : \A j \in Malformed(m) : i <= j) - 1)
      [] OTHER -> <<>>

-----------------------------------------------------------------------------
(* Stores.  A ring is a deque with a maxlen.                               *)

Pushed(ring, x, n) == IF Len(ring) < n THEN Append(ring, x) ELSE Append(Tail(ring), x)

\* The last n elements: events[-limit:].
Newest(seq, n) == IF Len(seq) <= n THEN seq ELSE SubSeq(seq, Len(seq) - n + 1, Len(seq))

\* The stores of a process that has just started.
NewStores ==
    [topology |-> NoSpans,
     counted |-> [i \in Ids |-> 0],
     registry |-> [s \in Service |-> <<>>],
     all |-> <<>>,
     by |-> [s \in Service |-> <<>>],
     metrics |-> [s \in Service |-> <<>>],
     logs |-> <<>>]

\* Mutant: an attribute keeps the first value seen.
UpdateFromSpanFirst(r, span) == [r EXCEPT ![span.service] = Updated(span.attrs, @)]

\* update_from_span: each attribute keeps the value of the last span that had it.
UpdateFromSpan(r, span) == [r EXCEPT ![span.service] = Updated(@, span.attrs)]

\* EventHandler.handle: feature store, call graph and registry, in this order.
HandleSpan(m, span, at) ==
    [m EXCEPT !.counted[span.id] = @ + 1,
              !.topology = Record(@, span, at),
              !.registry = UpdateFromSpan(@, span)]

\* DeployEventHandler.handle: a deployment without a time happened now.
HandleDeployment(m, event, at) ==
    LET d == [id |-> event.id, service |-> event.service,
              time |-> IF event.time = 0 THEN at ELSE event.time]
    IN  [m EXCEPT !.all = Pushed(@, d, MaxAll), !.by[event.service] = Pushed(@, d, PerService)]

\* MetricFeatureStore.update: points are kept in the order they come.
HandleMetric(m, event) ==
    [m EXCEPT !.metrics[event.service] = Pushed(@, [id |-> event.id, time |-> event.time], MaxPoints)]

\* LogStore.add_log, as far as the memory goes.
HandleLog(m, event) ==
    [m EXCEPT !.logs = Pushed(@, [id |-> event.id, service |-> event.service, time |-> event.time], MaxMemory)]

\* The handlers swallow what their store raises for such a time; the
\* deployment store does not look at it.
Raises(topic, item) == item.kind = "unhandled" /\ topic # "deploys"

Handled(m, topic, item, at) ==
    IF Raises(topic, item) THEN m
    ELSE CASE topic = "spans" -> HandleSpan(m, item, at)
           [] topic = "deploys" -> HandleDeployment(m, item, at)
           [] topic = "metrics" -> HandleMetric(m, item)
           [] topic = "logs" -> HandleLog(m, item)

\* The stores after the items of a message, one after the other.
Stored(m, topic, items, at) ==
    FoldLeft(LAMBDA held, i : Handled(held, topic, i, at), m, items)

-----------------------------------------------------------------------------
(* Readers.                                                                *)

\* GET /deploy and GET /deploy/{service_name}.
Since(seq, from) == Select(seq, {d \in ToSet(seq) : d.time >= from})
ListDeployments(from, limit) == Newest(Since(mem.all, from), limit)
ServiceDeployments(s, from, limit) == Newest(Since(mem.by[s], from), limit)

\* latest_for_service; the empty sequence stands for None.
LatestForService(s) == Newest(mem.by[s], 1)

\* MetricFeatureStore.get_series.
Series(s, window) ==
    Select(mem.metrics[s], {p \in ToSet(mem.metrics[s]) : p.time + window >= now})

\* GET /api/registry: only services with an attribute are registered.
HasMetadata(s) == mem.registry[s] # <<>>

InMemory == {r.id : r \in ToSet(mem.logs)}

\* LogStore.get_recent reads the memory only.
Recent(window) == {r.id : r \in {q \in ToSet(mem.logs) : q.time + window >= now}}

InCollection == {l \in Ids : chroma[l] > 0}

\* Mutant: a log store with a collection searches its memory.
SearchedMemory(fails) == InMemory

\* LogStore.search queries the collection if there is one with documents; if the
\* query fails, or there is no collection, it looks into the memory.
Searched(fails) ==
    IF Collection /\ (fails => InCollection = {}) THEN InCollection ELSE InMemory

-----------------------------------------------------------------------------
(* Steps.                                                                  *)

\* A process with empty stores; the collection is empty too.
IngestInit ==
    /\ Init
    /\ content \in [DOMAIN log -> {m \in Message : EndingOf(m) = "returns"}]
    /\ mem = NewStores
    /\ chroma = [i \in Ids |-> 0]
    /\ unwritten = {}
    /\ trace = <<>>
    /\ now = 0
    /\ posts = 0

\* The history after them: the events that reached a store.
Traced(t, o, topic, items, at) ==
    FoldLeft(LAMBDA seen, i : IF Raises(topic, i) THEN seen
                              ELSE Append(seen, [o |-> o, topic |-> topic, item |-> i, at |-> at]),
             t, items)

(* The items reach their handler one after the other.  A write to the      *)
(* collection may fail; the handler logs it and the record stays in the    *)
(* memory.  o is the record's offset, 0 for a body.                        *)
Handle(o, topic, items) ==
    LET logged == IF topic = "logs" THEN {i.id : i \in {j \in ToSet(items) : ~Raises(topic, j)}} ELSE {}
    IN  /\ mem' = Stored(mem, topic, items, now)
        /\ trace' = Traced(trace, o, topic, items, now)
        /\ \E written \in SUBSET logged :
              /\ written # {} => Collection
              /\ chroma' = [l \in Ids |-> IF l \in written THEN chroma[l] + 1 ELSE chroma[l]]
              /\ unwritten' = unwritten \cup (logged \ written)

\* javi-collector publishes a record.
IngestPublish ==
    /\ Publish
    /\ \E m \in Message : EndingOf(m) = Last(log') /\ content' = Append(content, m)
    /\ UNCHANGED <<mem, chroma, unwritten, trace, now, posts>>

\* _process_span_message and its three siblings.
IngestDispatch ==
    /\ Dispatch
    /\ LET m == content[position + 1] IN Handle(position + 1, m.topic, Decoded(m))
    /\ UNCHANGED <<content, now, posts>>

\* The process ends, stopped or crashed: what it had in memory is lost.
IngestStop ==
    /\ Stop
    /\ mem' = NewStores
    /\ trace' = <<>>
    /\ UNCHANGED <<content, chroma, unwritten, now, posts>>

\* Steps of the consumer that touch no store.
ConsumerStep ==
    /\ Start \/ StartFails \/ Commit \/ CommitFails \/ PollFails \/ BackoffOver \/ Reassign
    /\ UNCHANGED stores

\* A body FastAPI has validated; HTTP is served with a consumer or without.
PostBody ==
    /\ phase # "stopped"
    /\ posts < MaxPosts
    /\ posts' = posts + 1
    /\ \E b \in Body : Handle(0, b.topic, b.items)
    /\ UNCHANGED <<content, now, vars>>

\* GET /spans removes the edges that are too old.
GetTopology ==
    /\ phase # "stopped"
    /\ mem' = [mem EXCEPT !.topology = Collected(@, now)]
    /\ mem' # mem
    /\ UNCHANGED <<content, chroma, unwritten, trace, now, posts, vars>>

\* Time passes.
Tick ==
    /\ now < MaxNow
    /\ now' = now + 1
    /\ UNCHANGED <<content, mem, chroma, unwritten, trace, posts, vars>>

IngestNext ==
    \/ IngestPublish
    \/ IngestDispatch
    \/ IngestStop
    \/ ConsumerStep
    \/ PostBody
    \/ GetTopology
    \/ Tick

IngestSpec == IngestInit /\ [][IngestNext]_<<stores, vars>>

-----------------------------------------------------------------------------
(* Properties.                                                             *)

\* Every store has its shape and no ring passes its length.
IngestTypeOK ==
    /\ TypeOK
    /\ Len(content) = Len(log) /\ ToSet(content) \subseteq Message
    /\ mem.counted \in [Ids -> Nat]
    /\ Len(mem.all) <= MaxAll /\ Len(mem.logs) <= MaxMemory
    /\ \A s \in Service :
          Len(mem.by[s]) <= PerService /\ Len(mem.metrics[s]) <= MaxPoints
    /\ chroma \in [Ids -> Nat] /\ unwritten \subseteq Ids
    /\ now \in 0 .. MaxNow /\ posts \in 0 .. MaxPosts

\* Events of a topic and service; the offsets handled since the process started.
EventsOf(topic, s) == {n \in DOMAIN trace : trace[n].topic = topic /\ trace[n].item.service = s}
HandledOffsets == {trace[n].o : n \in DOMAIN trace} \ {0}

(* The items of a set of events that come last in the partition: the       *)
(* newest offset's, however often and in which order it was delivered.     *)
NewestInLog(events) ==
    {trace[n].item : n \in {e \in events : /\ \A f \in events : trace[f].o <= trace[e].o
                                           /\ \A f \in events : trace[f].o = trace[e].o => f <= e}}

(* After redeliveries have sent the stores back to older records           *)
(* (kafka_consumer.py:253 commits late, service_registry.py:84 and         *)
(* deployment_store.py:35 overwrite without looking at a time), a consumer *)
(* that has caught up again leaves, for every service no POST touched, the *)
(* attributes, the deployment and the metric point newest in the log.      *)
CaughtUpStoresCurrent ==
    (\A o \in HandledOffsets : o <= position) =>
        \A s \in Service :
            (\A n \in DOMAIN trace : trace[n].item.service = s => trace[n].o # 0) =>
            /\ HasMetadata(s) <=> \E n \in EventsOf("spans", s) : trace[n].item.attrs # <<>>
            /\ \A a \in DOMAIN mem.registry[s] :
                  \A i \in NewestInLog({n \in EventsOf("spans", s) : a \in DOMAIN trace[n].item.attrs}) :
                      mem.registry[s][a] = i.attrs[a]
            /\ \A i \in NewestInLog(EventsOf("deploys", s)) :
                  LET all == ListDeployments(0, MaxAll)
                      listed == Select(all, {d \in ToSet(all) : d.service = s})
                  IN
                  /\ LatestForService(s) = ServiceDeployments(s, 0, 1)
                  /\ LatestForService(s)[1].id = i.id
                  /\ listed # <<>> => Last(listed).id = i.id
            /\ \A i \in NewestInLog(EventsOf("metrics", s)) :
                  Last(Series(s, MaxNow)).id = i.id

\* Span events that found their parent: the caller's service was handled before them.
Calls(key) ==
    {n \in EventsOf("spans", key[2]) :
        \E p \in EventsOf("spans", key[1]) : p < n /\ trace[p].item.id = trace[n].item.parent}

\* The call graph served (span_topology.py:87) shows every call of the last
\* EdgeTtl whose parent was handled less than SpanTtl before it, whatever the
\* evictions of a full index dropped and earlier readers collected, and shows
\* nothing else: every edge has a recent call, and no more calls than there were.
\* The index passes its limit only with spans that were live at the last record.
TopologyShowsRecentCalls ==
    LET shown == Collected(mem.topology, now).edges IN
    /\ \A key \in Service \X Service :
          (/\ key[1] # key[2]
           /\ \E n \in Calls(key), p \in EventsOf("spans", key[1]) :
                /\ p < n /\ trace[p].item.id = trace[n].item.parent
                /\ trace[n].at - trace[p].at < SpanTtl
                /\ now - trace[n].at <= EdgeTtl)
          => key \in DOMAIN shown
    /\ \A key \in DOMAIN shown :
          /\ \E n \in Calls(key) : now - trace[n].at <= EdgeTtl
          /\ shown[key].errors <= shown[key].calls
          /\ shown[key].calls <= Cardinality(Calls(key))
          /\ \A s \in {key[1], key[2]} : key \in ServiceTopology(mem.topology, s)
    /\ Stats(mem.topology).span_index_size <= MaxIndex \/
          LET spans == {n \in DOMAIN trace : trace[n].topic = "spans"}
              live == {n \in spans : \A l \in spans : trace[n].at + SpanTtl > trace[l].at}
          IN  Stats(mem.topology).span_index_size <= Cardinality({trace[n].item.id : n \in live})

\* Ids of one item of one message only.
Own ==
    {i \in Ids : \E m \in Message : \E n \in DOMAIN m.items :
        /\ \A l \in DOMAIN m.items \ {n} : m.items[l].id # i
        /\ \A k \in (Message \cup Body) \ {m} : \A j \in ToSet(k.items) : j.id # i}

\* A message cut short by an item no model accepts (kafka_consumer.py:285) is
\* applied as a prefix if it is a list and not at all if it is a batch,
\* however often it is delivered: a later item never without the earlier ones.
AppliedInOrder ==
    \A o \in Offsets :
        LET m == content[o] IN
        m.topic = "spans" =>
            \A i, j \in {n \in DOMAIN m.items : m.items[n].id \in Own /\ m.items[n].kind # "unhandled"} :
                /\ m.shape = "list" /\ i < j => mem.counted[m.items[j].id] <= mem.counted[m.items[i].id]
                /\ m.shape = "batch" /\ m.items[i].kind = "malformed" => mem.counted[m.items[j].id] = 0

\* Deliveries a log has had: its copies in the partition and the posts of it.
Copies(l) ==
    Cardinality({o \in Offsets : content[o].topic = "logs" /\ \E i \in ToSet(content[o].items) : i.id = l})

\* The newest logs handled since the process started.
NewestLogs ==
    LET events == {n \in DOMAIN trace : trace[n].topic = "logs"}
    IN  {trace[n].item.id : n \in {e \in events : Cardinality({l \in events : l > e}) < MaxMemory}}

\* A log the consumer has acknowledged is found by a search, over restarts and
\* failed writes of other logs, unless a write of its own failed (log_store.py:119),
\* the process had no collection, or the query fails.  A search whose query fails
\* (:175), like one without a collection, still finds the newest logs handled since
\* the process started, in the collection or not, but none from before; and
\* at-least-once delivery stores a log at most once more for each stop, crash or
\* reassignment.
LogsSearchable ==
    /\ \A o \in Offsets : (content[o].topic = "logs" /\ o <= committed /\ o \notin forgone) =>
          \A i \in ToSet(Decoded(content[o])) :
              i.kind = "valid" => i.id \in unwritten \/ (Collection => i.id \in Searched(FALSE))
    /\ \A l \in Recent(MaxNow) \cup NewestLogs, fails \in BOOLEAN :
          l \in Searched(fails) \/ (Collection /\ l \in unwritten)
    /\ \A l \in Ids : chroma[l] <= Copies(l) * (1 + stops) + posts
=============================================================================
