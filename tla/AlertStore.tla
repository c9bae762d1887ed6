------------------------------ MODULE AlertStore ------------------------------
(***************************************************************************)
(* AlertStore (app/engine/alert_store.py): the FIRING -> ACKNOWLEDGED ->   *)
(* RESOLVED records each pod keeps in memory, and their write-through to   *)
(* the apm.alerts table that the pods share.                               *)
(*                                                                         *)
(* Every mutation ends its critical section without waiting and takes the  *)
(* row it will write in the same breath, so a transition is one step; the  *)
(* insert runs in a thread pool and lands, or fails, in a step of its own. *)
(* A row carries the alert's fired_at as ReplacingMergeTree version, equal *)
(* in all rows of one alert, so the row inserted last is the one FINAL     *)
(* returns.                                                                *)
(***************************************************************************)
EXTENDS Naturals, FiniteSets

CONSTANTS
    Pod,         \* replicas of the service
    Anomaly,     \* anomalies, each detected at most once by a pod
    MaxInserting, \* bound: inserts outstanding at a time
    MaxFailures, \* bound: ClickHouse calls that fail in a behaviour
    MaxRestarts  \* bound: process ends in a behaviour

ASSUME PodAssumption == IsFiniteSet(Pod) /\ IsFiniteSet(Anomaly)
ASSUME BoundsAssumption ==
    MaxInserting \in Nat /\ MaxFailures \in Nat /\ MaxRestarts \in Nat

VARIABLES
    up,         \* pods whose lifespan has reached the alert preload
    preloaded,  \* history: pods whose alert preload worked
    alerts,     \* per pod, _alerts: the state of each record, or "none"
    stale,      \* per pod, records RESOLVED more than ttl_hours ago
    aged,       \* alerts fired more than ttl_hours ago
    inserting,  \* rows handed to the thread pool
    table,      \* apm.alerts FINAL: the state in each alert's row, or "none"
    created,    \* alerts that exist
    resolved,   \* history: alerts some pod has resolved
    failures,   \* bounded count of preloads and inserts that fail
    restarts    \* bounded count of process ends

memory == <<alerts, stale>>
history == <<created, resolved>>
bounds == <<failures, restarts>>
process == <<up, preloaded>>
vars == <<process, memory, aged, inserting, table, history, bounds>>

-----------------------------------------------------------------------------

State == {"FIRING", "ACKNOWLEDGED", "RESOLVED"}
Active == {"FIRING", "ACKNOWLEDGED"}

\* create_alert draws a fresh uuid: an alert is named after the pod that
\* created it and the anomaly it was created for.
Alert == Pod \X Anomaly

Row == [pod : Pod, alert : Alert, state : State]

Init ==
    /\ up = {}
    /\ preloaded = {}
    /\ alerts = [p \in Pod |-> [a \in Alert |-> "none"]]
    /\ stale = [p \in Pod |-> {}]
    /\ aged = {}
    /\ inserting = {}
    /\ table = [a \in Alert |-> "none"]
    /\ created = {}
    /\ resolved = {}
    /\ failures = 0
    /\ restarts = 0

\* _persist: the row is snapshot and handed to the thread pool.
PersistRow(p, a, state) ==
    /\ Cardinality(inserting) < MaxInserting
    /\ inserting' = inserting \cup {[pod |-> p, alert |-> a, state |-> state]}

\* create_alert: the detector of p reports anomaly k.
CreateAlert(p, k) ==
    LET a == <<p, k>>
    IN  /\ p \in up
        /\ a \notin created
        /\ created' = created \cup {a}
        /\ alerts' = [alerts EXCEPT ![p][a] = "FIRING"]
        /\ PersistRow(p, a, "FIRING")
        /\ UNCHANGED <<process, stale, aged, table, resolved, bounds>>

\* Mutant: any known alert can be acknowledged.
AcknowledgeableAny(state) == state # "none"

Acknowledgeable(state) == state = "FIRING"

\* acknowledge
Acknowledge(p, a) ==
    /\ p \in up
    /\ Acknowledgeable(alerts[p][a])
    /\ alerts' = [alerts EXCEPT ![p][a] = "ACKNOWLEDGED"]
    /\ PersistRow(p, a, "ACKNOWLEDGED")
    /\ UNCHANGED <<process, stale, aged, table, history, bounds>>

\* resolve
Resolve(p, a) ==
    /\ p \in up
    /\ alerts[p][a] \in Active
    /\ alerts' = [alerts EXCEPT ![p][a] = "RESOLVED"]
    /\ resolved' = resolved \cup {a}
    /\ PersistRow(p, a, "RESOLVED")
    /\ UNCHANGED <<process, stale, aged, table, created, bounds>>

\* list_alerts starts with _purge_expired.
PurgeExpired(p) ==
    /\ p \in up
    /\ stale[p] # {}
    /\ alerts' = [alerts EXCEPT ![p] =
                     [a \in Alert |-> IF a \in stale[p] THEN "none" ELSE @[a]]]
    /\ stale' = [stale EXCEPT ![p] = {}]
    /\ UNCHANGED <<process, aged, inserting, table, history, bounds>>

\* Time passes: an alert was fired ttl_hours ago.
FiredTtlPasses(a) ==
    /\ a \in created \ aged
    /\ aged' = aged \cup {a}
    /\ UNCHANGED <<process, memory, inserting, table, history, bounds>>

Expirable(state) == state = "RESOLVED"

\* Time passes: a record of p was resolved ttl_hours ago, and fired before.
ResolvedTtlPasses(p, a) ==
    /\ a \in aged \ stale[p]
    /\ Expirable(alerts[p][a])
    /\ stale' = [stale EXCEPT ![p] = @ \cup {a}]
    /\ UNCHANGED <<process, alerts, aged, inserting, table, history, bounds>>

-----------------------------------------------------------------------------
(* ClickHouse.                                                             *)

\* An insert of upsert_alert lands.
InsertLands(r) ==
    /\ r \in inserting
    /\ inserting' = inserting \ {r}
    /\ table' = [table EXCEPT ![r.alert] = r.state]
    /\ UNCHANGED <<process, memory, aged, history, bounds>>

Fails ==
    /\ failures < MaxFailures
    /\ failures' = failures + 1

\* An insert raises, which _persist only logs.
InsertFails(r) ==
    /\ r \in inserting
    /\ inserting' = inserting \ {r}
    /\ Fails
    /\ UNCHANGED <<process, memory, aged, table, history, restarts>>

\* Mutant: only FIRING alerts are asked for.
ActiveRowsFiring == {a \in Alert : table[a] = "FIRING" /\ a \notin aged}

\* query_active_alerts: unresolved rows fired within the last ttl_hours.
ActiveRows == {a \in Alert : table[a] \in Active /\ a \notin aged}

\* load_from_clickhouse before the pod serves: the memory becomes the rows.
Load(p, rows) ==
    alerts' = [alerts EXCEPT ![p] =
                  [a \in Alert |-> IF a \in rows THEN table[a] ELSE "none"]]

\* A pod starts and preloads.  (A pod that finds no ClickHouse runs no detector
\* and never holds an alert: it is as good as down.)
Start(p) ==
    /\ p \notin up
    /\ up' = up \cup {p}
    /\ preloaded' = preloaded \cup {p}
    /\ Load(p, ActiveRows)
    /\ UNCHANGED <<stale, aged, inserting, table, history, bounds>>

\* A pod starts, but the table cannot be created or queried.
StartUnloaded(p) ==
    /\ p \notin up
    /\ up' = up \cup {p}
    /\ Load(p, {})
    /\ Fails
    /\ UNCHANGED <<preloaded, stale, aged, inserting, table, history, restarts>>

\* The process of a pod ends.  Rows it handed to its threads are lost, unless
\* ClickHouse has already received them.
Stop(p) ==
    /\ p \in up
    /\ restarts < MaxRestarts
    /\ restarts' = restarts + 1
    /\ up' = up \ {p}
    /\ preloaded' = preloaded \ {p}
    /\ alerts' = [alerts EXCEPT ![p] = [a \in Alert |-> "none"]]
    /\ stale' = [stale EXCEPT ![p] = {}]
    /\ \E lost \in SUBSET {r \in inserting : r.pod = p} :
          inserting' = inserting \ lost
    /\ UNCHANGED <<aged, table, history, failures>>

Next ==
    \/ \E p \in Pod, k \in Anomaly : CreateAlert(p, k)
    \/ \E p \in Pod, a \in Alert :
          Acknowledge(p, a) \/ Resolve(p, a) \/ ResolvedTtlPasses(p, a)
    \/ \E p \in Pod : PurgeExpired(p) \/ Start(p) \/ StartUnloaded(p) \/ Stop(p)
    \/ \E a \in Alert : FiredTtlPasses(a)
    \/ \E r \in inserting : InsertLands(r) \/ InsertFails(r)

Spec == Init /\ [][Next]_vars

-----------------------------------------------------------------------------
(* Properties.                                                             *)

\* Every variable has the type of the state it models; only RESOLVED records
\* are due for the purge.
TypeOK ==
    /\ up \subseteq Pod
    /\ preloaded \subseteq up
    /\ alerts \in [Pod -> [Alert -> State \cup {"none"}]]
    /\ stale \in [Pod -> SUBSET Alert]
    /\ \A p \in Pod : \A a \in stale[p] : alerts[p][a] = "RESOLVED"
    /\ aged \subseteq created
    /\ inserting \subseteq Row
    /\ table \in [Alert -> State \cup {"none"}]
    /\ created \subseteq Alert
    /\ resolved \subseteq created
    /\ failures \in Nat
    /\ restarts \in Nat

Steps ==
    { <<"none", "FIRING">>, <<"FIRING", "ACKNOWLEDGED">>,
      <<"FIRING", "RESOLVED">>, <<"ACKNOWLEDGED", "RESOLVED">>,
      <<"RESOLVED", "none">> }

\* In one process an alert only moves forward, operators racing with each
\* other and with the purge included; an unresolved record is never purged and
\* a purged one never comes back.
LifecycleForward ==
    [][ \A p \in up \cap up', a \in Alert :
          alerts'[p][a] # alerts[p][a] =>
              /\ <<alerts[p][a], alerts'[p][a]>> \in Steps
              /\ alerts[p][a] = "none" => a \notin created ]_vars

\* An alert that has a row, was never resolved and is younger than ttl_hours
\* survives a restart whose preload works, whatever inserts were reordered,
\* failed or lost, and a preload brings back nothing that is older or not in
\* an active state.
ActiveSurvivesRestart ==
    [][ \A p \in up' \ up :
          LET back == {a \in Alert : alerts'[p][a] # "none"}
              due == {a \in Alert : table[a] # "none"} \ (resolved \cup aged)
          IN  /\ \A a \in back : alerts'[p][a] \in Active /\ a \notin aged
              /\ p \in preloaded' => due \subseteq back ]_vars
=============================================================================
