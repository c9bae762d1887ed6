------------------------------ MODULE Lifecycle ------------------------------
(***************************************************************************)
(* The lifespan of the process (app/main.py): what is started and stopped, *)
(* in which order, what happens when a dependency is missing or a          *)
(* background task has died, and what the readiness probe                  *)
(* (app/api/health.py) says meanwhile.  uvicorn serves requests only       *)
(* between start-up and shutdown, and lets those in flight end first.      *)
(*                                                                         *)
(* Every engine has the same start and stop: start makes a task, stop      *)
(* cancels it and awaits it, catching only the CancelledError.             *)
(***************************************************************************)
EXTENDS Naturals, Sequences

CONSTANTS
    Settings,   \* what the configuration may enable
    MaxPending  \* bound: Redis writes scheduled and not done

\* The background tasks, and the dependencies the process holds a client of.
Engine == {"kafka", "baseline", "detector", "rca", "jvm", "burn", "var", "granger", "forecaster"}
Client == {"redis", "clickhouse", "alerter"}

\* Engines that are started whatever the configuration, and by what they use.
AlwaysOn == {"jvm", "burn", "forecaster"}
UsesClickHouse == {"baseline", "detector", "rca"}
UsesAlerter == {"detector", "jvm", "burn", "forecaster"}

ASSUME LifecycleAssumption ==
    /\ Settings \subseteq (Engine \cup {"redis", "clickhouse"}) \ AlwaysOn
    /\ MaxPending \in Nat

VARIABLES
    enabled,    \* the configuration
    phase,      \* the lifespan: starting, serving, stopping, done, aborted
    at,         \* its next step, in the order of StartUp or ShutDown
    client,     \* the clients
    task,       \* the task of each engine
    bucket,     \* whether the feature store has an open bucket
    pending,    \* Redis writes scheduled and not done
    ready,      \* _ready
    probe,      \* what GET /readyz has found out so far
    answer      \* what it answered last

vars == <<enabled, phase, at, client, task, bucket, pending, ready, probe, answer>>

-----------------------------------------------------------------------------

\* The steps of the lifespan before it yields.
StartUp == <<"redis", "clickhouse", "load", "alerter", "kafka", "baseline", "detector", "rca",
             "jvm", "burn", "var", "granger", "forecaster", "ready">>

\* Mutant: the open buckets are flushed before the consumer stops.
ShutDownFlushFirst ==
    <<"unready", "forecaster", "jvm", "burn", "rca", "detector", "baseline", "var",
      "granger", "flush", "kafka", "alerter", "clickhouse", "redis">>

\* Mutant: the alerter is stopped before the engines that alert.
ShutDownAlerterFirst ==
    <<"unready", "alerter", "forecaster", "jvm", "burn", "rca", "detector", "baseline", "var",
      "granger", "kafka", "flush", "clickhouse", "redis">>

\* The steps after it.
ShutDown == <<"unready", "forecaster", "jvm", "burn", "rca", "detector", "baseline", "var",
              "granger", "kafka", "flush", "alerter", "clickhouse", "redis">>

Init ==
    /\ enabled \in SUBSET Settings
    /\ phase = "starting"
    /\ at = 1
    /\ client = [c \in Client |-> "absent"]
    /\ task = [e \in Engine |-> "none"]
    /\ bucket = FALSE
    /\ pending = 0
    /\ ready = FALSE
    /\ probe = "none"
    /\ answer = "none"

-----------------------------------------------------------------------------
(* Start-up.                                                               *)

Starting(step) == phase = "starting" /\ StartUp[at] = step /\ at' = at + 1

\* Redis or ClickHouse answers a ping or is done without, for good.
Connect ==
    /\ \E c \in {"redis", "clickhouse"}, found \in {"absent", "open"} :
          /\ Starting(c)
          /\ found = "open" => c \in enabled
          /\ client' = [client EXCEPT ![c] = found]
    /\ UNCHANGED <<enabled, phase, task, bucket, pending, ready, probe, answer>>

\* Alerts, Redis preload and backfill are awaited; what they raise is caught.
Load ==
    /\ Starting("load")
    /\ UNCHANGED <<enabled, phase, client, task, bucket, pending, ready, probe, answer>>

StartAlerter ==
    /\ Starting("alerter")
    /\ client' = [client EXCEPT !["alerter"] = "open"]
    /\ UNCHANGED <<enabled, phase, task, bucket, pending, ready, probe, answer>>

\* Whether an engine is started.
Wanted(e) ==
    /\ e \in enabled \cup AlwaysOn
    /\ e \in UsesClickHouse => client["clickhouse"] = "open"

\* start makes the task; the consumer alone waits for its broker, and does
\* without it if that fails.  The detector trains before it detects.
StartEngine ==
    /\ \E e \in Engine :
          /\ Starting(e)
          /\ \/ /\ Wanted(e)
                /\ task' = [task EXCEPT ![e] = IF e = "detector" THEN "training" ELSE "running"]
             \/ /\ ~Wanted(e) \/ e = "kafka"
                /\ UNCHANGED task
    /\ UNCHANGED <<enabled, phase, client, bucket, pending, ready, probe, answer>>

\* set_dependencies and mark_ready; the lifespan yields.
MarkReady ==
    /\ phase = "starting"
    /\ StartUp[at] = "ready"
    /\ ready' = TRUE
    /\ phase' = "serving"
    /\ at' = 1
    /\ UNCHANGED <<enabled, client, task, bucket, pending, probe, answer>>

-----------------------------------------------------------------------------
(* While the process runs.                                                 *)

\* FeatureStore._flush_bucket schedules a write when there is a Redis client.
Scheduled == IF client["redis"] = "open" /\ pending < MaxPending THEN pending + 1 ELSE pending

\* A span, consumed or posted, opens a bucket, and closes an older one.
Ingest ==
    /\ task["kafka"] = "running" \/ phase = "serving"
    /\ bucket' = TRUE
    /\ pending' \in {pending, IF bucket THEN Scheduled ELSE pending}
    /\ UNCHANGED <<enabled, phase, at, client, task, ready, probe, answer>>

\* A scheduled write is done or fails.
Persist ==
    /\ pending > 0
    /\ pending' = pending - 1
    /\ UNCHANGED <<enabled, phase, at, client, task, bucket, ready, probe, answer>>

\* The detector's first training ends, or raises what nothing in its task catches
\* (a baseline that is no number): the task is over.
FirstTraining ==
    /\ task["detector"] = "training"
    /\ \E end \in {"running", "dead"} : task' = [task EXCEPT !["detector"] = end]
    /\ UNCHANGED <<enabled, phase, at, client, bucket, pending, ready, probe, answer>>

\* GET /readyz first awaits a ping of ClickHouse, for three seconds at most.
Probe ==
    /\ phase = "serving"
    /\ probe = "none"
    /\ probe' = "pinging"
    /\ UNCHANGED <<enabled, phase, at, client, task, bucket, pending, ready, answer>>

Pinged ==
    /\ probe = "pinging"
    /\ \E result \in {"reached", "unreached"} :
          /\ client["clickhouse"] = "absent" => result = "reached"
          /\ probe' = result
    /\ UNCHANGED <<enabled, phase, at, client, task, bucket, pending, ready, answer>>

\* Mutant: the state of the detector's task is not looked at.
ChecksPassIgnoringDetector ==
    /\ probe = "reached"
    /\ task["kafka"] \in {"none", "running"}
    /\ task["forecaster"] = "running"

\* What it reads after the ping: the consumer's flag and two tasks.
ChecksPass ==
    /\ probe = "reached"
    /\ task["kafka"] \in {"none", "running"}
    /\ task["forecaster"] = "running"
    /\ task["detector"] \in {"none", "training", "running"}

Answer ==
    /\ probe \in {"reached", "unreached"}
    /\ probe' = "none"
    /\ answer' = IF ready /\ ChecksPass THEN "ready" ELSE "not_ready"
    /\ UNCHANGED <<enabled, phase, at, client, task, bucket, pending, ready>>

-----------------------------------------------------------------------------
(* Shutdown.                                                               *)

\* SIGTERM, once uvicorn has seen the requests in flight end.
RequestStop ==
    /\ phase = "serving"
    /\ probe = "none"
    /\ phase' = "stopping"
    /\ at' = 1
    /\ UNCHANGED <<enabled, client, task, bucket, pending, ready, probe, answer>>

Stopping(step) ==
    /\ phase = "stopping"
    /\ ShutDown[at] = step
    /\ at' = at + 1

Unready ==
    /\ Stopping("unready")
    /\ ready' = FALSE
    /\ UNCHANGED <<enabled, phase, client, task, bucket, pending, probe, answer>>

\* Mutant: stop waits for a training under way.
StopEndsTrained(e) == task[e] \notin {"dead", "training"}

\* stop returns when the task is cancelled, or was never made.
StopEnds(e) == task[e] # "dead"

\* cancel and await.  A call that a task made in a thread goes on in it after the
\* task has ended; threads are left out.
StopEngine ==
    /\ \E e \in Engine :
          /\ Stopping(e)
          /\ StopEnds(e)
          /\ task' = [task EXCEPT ![e] = IF @ = "none" THEN @ ELSE "ended"]
    /\ UNCHANGED <<enabled, phase, client, bucket, pending, ready, probe, answer>>

\* Awaiting a task that died raises its exception again, out of the lifespan:
\* the rest of the shutdown is skipped.
StopRaises ==
    /\ phase = "stopping"
    /\ \E e \in Engine : ShutDown[at] = e /\ task[e] = "dead"
    /\ phase' = "aborted"
    /\ UNCHANGED <<enabled, at, client, task, bucket, pending, ready, probe, answer>>

\* flush_open_buckets schedules a last write.
Flush ==
    /\ Stopping("flush")
    /\ bucket' = FALSE
    /\ pending' = IF bucket THEN Scheduled ELSE pending
    /\ UNCHANGED <<enabled, phase, client, task, ready, probe, answer>>

\* alerter.stop and clickhouse.close.
Close ==
    /\ \E c \in {"alerter", "clickhouse"} :
          /\ Stopping(c)
          /\ client' = [client EXCEPT ![c] = IF @ = "open" THEN "closed" ELSE @]
    /\ UNCHANGED <<enabled, phase, task, bucket, pending, ready, probe, answer>>

\* aclose, which does not wait for the writes: they fail.
CloseRedis ==
    /\ Stopping("redis")
    /\ client' = [client EXCEPT !["redis"] = IF @ = "open" THEN "closed" ELSE @]
    /\ pending' = 0
    /\ phase' = "done"
    /\ UNCHANGED <<enabled, task, bucket, ready, probe, answer>>

StartUpStep == Connect \/ Load \/ StartAlerter \/ StartEngine \/ MarkReady
ShutDownStep == Unready \/ StopEngine \/ StopRaises \/ Flush \/ Close \/ CloseRedis
Running == Ingest \/ Persist \/ FirstTraining \/ Probe \/ Pinged \/ Answer

Next == StartUpStep \/ Running \/ RequestStop \/ ShutDownStep

Spec == Init /\ [][Next]_vars

\* asyncio resumes the lifespan and the probe when what they await is over:
\* connecting and the probe's ping time out, a cancelled task ends.  That a Redis
\* which accepts the connection also answers the ping of the start-up is assumed:
\* only connecting has a timeout (main.py:101).
Fairness == WF_vars(StartUpStep) /\ WF_vars(ShutDownStep) /\ WF_vars(Pinged) /\ WF_vars(Answer)

FairSpec == Spec /\ Fairness

-----------------------------------------------------------------------------
(* Properties.                                                             *)

\* Every variable has the type of the state it models.
TypeOK ==
    /\ enabled \subseteq Settings
    /\ phase \in {"starting", "serving", "stopping", "done", "aborted"}
    /\ at \in 1 .. 15
    /\ client \in [Client -> {"absent", "open", "closed"}]
    /\ task \in [Engine -> {"none", "training", "running", "dead", "ended"}]
    /\ bucket \in BOOLEAN /\ ready \in BOOLEAN
    /\ pending \in 0 .. MaxPending
    /\ probe \in {"none", "pinging", "reached", "unreached"}
    /\ answer \in {"none", "ready", "not_ready"}

Alive(e) == task[e] \in {"training", "running"}

\* No task outlives what it uses (main.py:346-372): while an engine that alerts
\* or queries is alive, in start-up, service or any stage of the shutdown, the
\* alerter's session and the ClickHouse client are open.  (The thread of a query
\* cancelled in flight is no task, and may still be in the client when it closes.)
TasksUseOpenClients ==
    /\ \A e \in UsesAlerter : Alive(e) => client["alerter"] = "open"
    /\ \A e \in UsesClickHouse : Alive(e) => client["clickhouse"] = "open"

\* A shutdown that ran to its end leaves nothing behind: no task, no client, and
\* no bucket opened after the flush (main.py:363-365); only a detector that died
\* in its first training (anomaly_detector.py:88) keeps it from getting there.
ShutDownComplete ==
    /\ phase = "done" =>
          /\ \A e \in Engine : task[e] \in {"none", "ended"}
          /\ \A c \in Client : client[c] # "open"
          /\ ~bucket /\ ~ready
    /\ phase = "aborted" => task["detector"] = "dead"

\* A probe answers "ready" only while the process serves and, at that moment and
\* not when it began to wait for the ping (health.py:75, :105-110), neither the
\* forecaster nor the detector is dead: a process whose detector died in its
\* first training never is ready again.
ReadyMeansAlive ==
    [][probe # "none" /\ probe' = "none" /\ answer' = "ready" =>
          phase = "serving" /\ Alive("forecaster") /\ task["detector"] # "dead"]_vars

\* A start-up gets to serving whatever dependency is missing, and a shutdown
\* ends: it completes, or is aborted, and never waits for a task that is over.
LifespanMovesOn ==
    /\ phase = "starting" ~> phase = "serving"
    /\ phase = "stopping" ~> phase \in {"done", "aborted"}
=============================================================================
