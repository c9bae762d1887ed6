---------------------------- MODULE AnomalyDetector ----------------------------
(***************************************************************************)
(* AnomalyDetector (app/engine/anomaly_detector.py) and the WebhookAlerter *)
(* (app/alerter/webhook.py) it shares with the forecaster: one detection   *)
(* cycle from the suppression filter through the ClickHouse insert to the  *)
(* webhook, the alert records and the incident clusters.                   *)
(*                                                                         *)
(* The statistics that decide what is anomalous are left out: a cycle      *)
(* detects any set of anomalies.  The cycle waits for ClickHouse and for   *)
(* every delivery, and time, the forecaster and the operators go on        *)
(* meanwhile.                                                              *)
(***************************************************************************)
EXTENDS Integers, FiniteSets

CONSTANTS
    Service, Span, Kind,  \* service, span and anomaly type names
    Metric,               \* the <<service, metric>> pairs the forecaster fires
    SuppressFor,          \* ANOMALY_SUPPRESSION_MINUTES
    Cooldown,             \* cooldown_seconds, in the same unit
    MaxTime,              \* bound: the time at which a behaviour ends
    MaxCycles             \* bound: cycles that detect something

ASSUME NamesAssumption ==
    /\ IsFiniteSet(Service) /\ IsFiniteSet(Span) /\ IsFiniteSet(Kind)
    /\ IsFiniteSet(Metric)
    /\ Metric \cap (Service \X Kind) = {}
ASSUME TimesAssumption ==
    SuppressFor \in Nat \ {0} /\ Cooldown \in Nat \ {0} /\ MaxTime \in Nat \ {0}
ASSUME BoundsAssumption == MaxCycles \in Nat

VARIABLES
    now,         \* wall-clock time
    stage,       \* where the detector task is
    suppressed,  \* _suppressed: until when, or 0
    toInsert,    \* the cycle's to_insert
    todo,        \* the part of it the current stage has not handled
    lastFired,   \* _last_fired, or -1
    posting,     \* _post calls waiting for an answer
    alertsFired, \* the alerts_fired counter
    passed,      \* history: when each anomaly last passed the filter, or -1
    dispatched,  \* history: when each key was last dispatched, or -1
    alerted,     \* history: create_alert calls of the cycle
    clustered,   \* history: ingest calls of the cycle
    cycles       \* bounded count of detections

alerter == <<lastFired, posting, dispatched>>
vars == <<now, stage, suppressed, toInsert, todo, alerter, alertsFired, passed,
          alerted, clustered, cycles>>

-----------------------------------------------------------------------------

Anomaly == Service \X Span \X Kind

Stage == {"training", "sleeping", "inserting", "firing", "delivering",
          "creating", "clustering", "dead", "stopped"}

\* Keys of the alerter: fire_anomaly's (service, type), which leaves out the
\* span, and fire's (service, metric).
Group(a) == <<a[1], a[3]>>
AlertKey == {Group(a) : a \in Anomaly} \cup Metric

Init ==
    /\ now = 1
    /\ stage = "training"
    /\ suppressed = [a \in Anomaly |-> 0]
    /\ toInsert = {}
    /\ todo = {}
    /\ lastFired = [k \in AlertKey |-> -1]
    /\ posting = {}
    /\ alertsFired = 0
    /\ passed = [a \in Anomaly |-> -1]
    /\ dispatched = [k \in AlertKey |-> -1]
    /\ alerted = {}
    /\ clustered = {}
    /\ cycles = 0

Tick ==
    /\ now < MaxTime
    /\ now' = now + 1
    /\ UNCHANGED <<stage, suppressed, toInsert, todo, alerter, alertsFired,
                   passed, alerted, clustered, cycles>>

\* The first training is over, whether it fitted a forest or gave up.
Trained ==
    /\ stage = "training"
    /\ stage' = "sleeping"
    /\ UNCHANGED <<now, suppressed, toInsert, todo, alerter, alertsFired, passed,
                   alerted, clustered, cycles>>

\* The first fit raises: it is outside the loop's try and ends the task.
TrainingRaises ==
    /\ stage = "training"
    /\ stage' = "dead"
    /\ UNCHANGED <<now, suppressed, toInsert, todo, alerter, alertsFired, passed,
                   alerted, clustered, cycles>>

-----------------------------------------------------------------------------
(* _detect.                                                                *)

\* The detected anomalies that are not suppressed.
Passing(found) == {a \in found : now >= suppressed[a]}

\* Mutant: a suppressed anomaly extends its window.
SuppressedSliding(found) ==
    [a \in Anomaly |-> IF a \in found THEN now + SuppressFor
                       ELSE IF now > suppressed[a] THEN 0 ELSE suppressed[a]]

\* _suppressed after the filter and the purge of its expired entries.
Suppressed(found) ==
    [a \in Anomaly |-> IF a \in Passing(found) THEN now + SuppressFor
                       ELSE IF now > suppressed[a] THEN 0 ELSE suppressed[a]]

\* A cycle finds anomalies and filters them.  Nothing suspends between the
\* last query and the insert.
Detect(found) ==
    /\ stage = "sleeping"
    /\ cycles < MaxCycles
    /\ cycles' = cycles + 1
    /\ suppressed' = Suppressed(found)
    /\ toInsert' = Passing(found)
    /\ passed' = [a \in Anomaly |-> IF a \in Passing(found) THEN now ELSE passed[a]]
    /\ stage' = IF Passing(found) = {} THEN "sleeping" ELSE "inserting"
    /\ alerted' = {}
    /\ clustered' = {}
    /\ UNCHANGED <<now, todo, alerter, alertsFired>>

\* insert_anomalies succeeds.
Inserted ==
    /\ stage = "inserting"
    /\ stage' = "firing"
    /\ todo' = toInsert
    /\ UNCHANGED <<now, suppressed, toInsert, alerter, alertsFired, passed,
                   alerted, clustered, cycles>>

\* insert_anomalies raises: the cycle is over.
InsertFails ==
    /\ stage = "inserting"
    /\ stage' = "sleeping"
    /\ toInsert' = {}
    /\ UNCHANGED <<now, suppressed, todo, alerter, alertsFired, passed,
                   alerted, clustered, cycles>>

-----------------------------------------------------------------------------
(* WebhookAlerter.  The lock is held without waiting, so the check and the *)
(* update of _last_fired are one step; the POST follows.                   *)

Cooling(k) == lastFired[k] >= 0 /\ now - lastFired[k] < Cooldown

\* Mutant: _last_fired is set once the delivery has ended.
FiredLate(k) == lastFired

Fired(k) == [lastFired EXCEPT ![k] = now]

\* fire and fire_anomaly up to the POST.
Fire(k, caller) ==
    /\ ~Cooling(k)
    /\ lastFired' = Fired(k)
    /\ posting' = posting \cup {<<k, caller>>}
    /\ dispatched' = [dispatched EXCEPT ![k] = now]

\* The forecaster fires for a metric, in its loop or in a run asked for over
\* the API: one of the two callers.
FireForecast(k, caller) ==
    /\ <<k, caller>> \notin posting
    /\ Fire(k, caller)
    /\ UNCHANGED <<now, stage, suppressed, toInsert, todo, alertsFired, passed,
                   alerted, clustered, cycles>>

\* Mutant: the detector waits for the end of the cooldown.
SkipsNever(k) == FALSE

\* fire_anomaly returns at once.
Skips(k) == Cooling(k)

\* The detector fires an anomaly: it waits for the delivery, or goes on at
\* once when the alerter is cooling down.
FireAnomaly(a) ==
    /\ stage = "firing"
    /\ a \in todo
    /\ todo' = todo \ {a}
    /\ \/ /\ Fire(Group(a), "detector")
          /\ stage' = "delivering"
          /\ UNCHANGED alertsFired
       \/ /\ Skips(Group(a))
          /\ alertsFired' = alertsFired + 1
          /\ UNCHANGED <<stage, alerter>>
    /\ UNCHANGED <<now, suppressed, toInsert, passed, alerted,
                   clustered, cycles>>

\* A POST is answered or fails; either way the caller goes on, and the
\* detector counts the alert.
Posted(t) ==
    /\ t \in posting
    /\ posting' = posting \ {t}
    /\ \/ /\ t[2] = "detector" /\ stage = "delivering"
          /\ stage' = "firing"
          /\ alertsFired' = alertsFired + 1
       \/ /\ t[2] # "detector" \/ stage # "delivering"
          /\ UNCHANGED <<stage, alertsFired>>
    /\ UNCHANGED <<now, suppressed, toInsert, todo, lastFired, dispatched, passed,
                   alerted, clustered, cycles>>

-----------------------------------------------------------------------------
(* The rest of the cycle.                                                  *)

\* Mutant: alert records are told apart as the alerter tells alerts apart, without
\* the span.
AlertsWantedPerKey == {CHOOSE b \in toInsert : Group(b) = Group(a) : a \in toInsert}

\* What an alert record is created for: every anomaly of the cycle, whether the
\* alerter was cooling down or not.
AlertsWanted == toInsert

FiringDone ==
    /\ stage = "firing"
    /\ todo = {}
    /\ stage' = "creating"
    /\ todo' = AlertsWanted
    /\ UNCHANGED <<now, suppressed, toInsert, alerter, alertsFired, passed,
                   alerted, clustered, cycles>>

\* AlertStore.create_alert, which waits for its own insert and never raises.
CreateAlert(a) ==
    /\ stage = "creating"
    /\ a \in todo
    /\ todo' = todo \ {a}
    /\ alerted' = alerted \cup {a}
    /\ UNCHANGED <<now, stage, suppressed, toInsert, alerter, alertsFired, passed,
                   clustered, cycles>>

CreatingDone ==
    /\ stage = "creating"
    /\ todo = {}
    /\ stage' = "clustering"
    /\ UNCHANGED <<now, suppressed, toInsert, todo, alerter, alertsFired, passed,
                   alerted, clustered, cycles>>

\* AnomalyClusterer.ingest never waits: the loop over to_insert is one step.
Cluster ==
    /\ stage = "clustering"
    /\ stage' = "sleeping"
    /\ clustered' = toInsert
    /\ UNCHANGED <<now, suppressed, toInsert, todo, alerter, alertsFired, passed,
                   alerted, cycles>>

\* The POSTs left when the detector's task is cancelled.
Cancelled == {t \in posting : t[2] # "detector"}

\* stop cancels the task wherever it waits.
Stop ==
    /\ stage \notin {"dead", "stopped"}
    /\ stage' = "stopped"
    /\ posting' = Cancelled
    /\ UNCHANGED <<now, suppressed, toInsert, todo, lastFired, dispatched,
                   alertsFired, passed, alerted, clustered, cycles>>

Next ==
    \/ Tick
    \/ Trained
    \/ TrainingRaises
    \/ \E found \in SUBSET Anomaly \ {{}} : Detect(found)
    \/ Inserted
    \/ InsertFails
    \/ \E k \in Metric, caller \in {"loop", "api"} : FireForecast(k, caller)
    \/ \E a \in todo : FireAnomaly(a) \/ CreateAlert(a)
    \/ \E t \in posting : Posted(t)
    \/ FiringDone
    \/ CreatingDone
    \/ Cluster
    \/ Stop

Spec == Init /\ [][Next]_vars

\* A step of a cycle that has begun.
CycleStep ==
    \/ Inserted
    \/ InsertFails
    \/ \E a \in todo : FireAnomaly(a) \/ CreateAlert(a)
    \/ \E t \in posting : t[2] = "detector" /\ Posted(t)
    \/ FiringDone
    \/ CreatingDone
    \/ Cluster

\* asyncio runs a task whose wait is over; ClickHouse calls and POSTs (httpx
\* with a timeout of 10 s) are answered or fail.
FairSpec == Spec /\ WF_vars(CycleStep)

-----------------------------------------------------------------------------
(* Properties.                                                             *)

\* Every variable has the type of the state it models; the detector has a
\* POST outstanding exactly while it delivers.
TypeOK ==
    /\ now \in 1 .. MaxTime
    /\ stage \in Stage
    /\ suppressed \in [Anomaly -> Nat]
    /\ toInsert \subseteq Anomaly
    /\ todo \subseteq toInsert
    /\ lastFired \in [AlertKey -> -1 .. now]
    /\ posting \subseteq AlertKey \X {"loop", "api", "detector"}
    /\ (stage = "delivering") <=> \E t \in posting : t[2] = "detector"
    /\ alertsFired \in Nat
    /\ passed \in [Anomaly -> -1 .. now]
    /\ dispatched \in [AlertKey -> -1 .. now]
    /\ alerted \subseteq Anomaly
    /\ clustered \subseteq Anomaly
    /\ cycles \in 0 .. MaxCycles

\* An anomaly that lasts is let through once per suppression window, neither
\* more often nor, although entries are purged and the window is set anew on
\* each pass, less often.
SuppressedOncePerWindow ==
    [][ cycles' = cycles + 1 =>
          \A a \in Anomaly :
             LET recent == passed[a] >= 0 /\ now - passed[a] < SuppressFor
             IN  /\ recent => a \notin toInsert'
                 /\ suppressed'[a] > now =>
                       passed'[a] >= 0 /\ now - passed'[a] < SuppressFor ]_vars

\* However the detector, the forecast loop and runs over the API interleave,
\* and however long deliveries take, one alert key is dispatched at most once
\* per cooldown window.
RateLimited ==
    [][ \A k \in AlertKey :
          (\E c \in {"loop", "api", "detector"} :
               <<k, c>> \in posting' \ posting) =>
             dispatched[k] < 0 \/ now - dispatched[k] >= Cooldown ]_vars

\* A cycle that ran to its end has made an alert record of, and clustered,
\* every anomaly it wrote to apm.anomalies, whatever the alerter's cooldown
\* and the deliveries did (anomaly_detector.py:298-310): the cooldown is of the
\* webhook alone, unlike what alert_store.py:4 says of the records.
RecordedIsAlertedAndClustered ==
    stage = "sleeping" /\ toInsert # {} => /\ alerted = clustered
                                           /\ clustered = toInsert

\* No cooldown and no failing delivery or insert holds a cycle up for good.
CycleEnds ==
    (stage \notin {"training", "dead"}) ~> (stage \in {"sleeping", "stopped"})
=============================================================================
