--------------------------- MODULE AnomalyClusterer ---------------------------
(***************************************************************************)
(* AnomalyClusterer (app/engine/anomaly_clusterer.py): anomalies of one    *)
(* service that follow each other within a window form one incident.       *)
(*                                                                         *)
(* Every method runs under the lock without waiting: one step each.  Ids   *)
(* are numbered in the order incidents are opened, which is the order in   *)
(* which the code's dictionary iterates over them.  All anomalies of a     *)
(* detection cycle carry the minute the cycle queried; cycles are          *)
(* sequential, so that minute never goes back, while wall-clock time runs  *)
(* on during a cycle.                                                      *)
(***************************************************************************)
EXTENDS Integers, FiniteSets

CONSTANTS
    Service,      \* services anomalies are detected in
    Window,       \* window_seconds
    Ttl,          \* resolved_ttl_hours, in the same unit
    MaxDelay,     \* bound: how far a cycle's minute is behind the clock
    MaxTime,      \* bound: the time at which a behaviour ends
    MaxIncidents  \* bound: incidents opened in a behaviour

ASSUME ServiceAssumption == IsFiniteSet(Service)
ASSUME TimeAssumption == Window \in Nat /\ Ttl \in Nat /\ MaxTime \in Nat
ASSUME BoundAssumption == MaxDelay \in Nat /\ MaxIncidents \in Nat

VARIABLES
    now,        \* wall-clock time
    minute,     \* the minute of the anomalies of the current detection cycle
    incidents,  \* _incidents
    opened      \* incidents opened so far

clusterVars == <<now, minute, incidents, opened>>

-----------------------------------------------------------------------------

Id == 1 .. MaxIncidents

IncidentCluster ==
    [ id : Id, service : Service, critical : BOOLEAN,
      started_at : 0 .. MaxTime, last_seen_at : 0 .. MaxTime, open : BOOLEAN ]

ClusterInit ==
    /\ now = 0
    /\ minute = 0
    /\ incidents = {}
    /\ opened = 0

Tick ==
    /\ now < MaxTime
    /\ now - minute < MaxDelay
    /\ now' = now + 1
    /\ UNCHANGED <<minute, incidents, opened>>

\* The detector starts a cycle and queries the latest minute.
StartCycle ==
    /\ minute # now
    /\ minute' = now
    /\ UNCHANGED <<now, incidents, opened>>

\* Mutant: the window is exclusive.
NearStrict(s) ==
    {i \in incidents : /\ i.open
                       /\ i.service = s
                       /\ minute - i.last_seen_at < Window}

\* The incidents an anomaly of service s may join.
Near(s) ==
    {i \in incidents : /\ i.open
                       /\ i.service = s
                       /\ minute - i.last_seen_at <= Window}

\* An incident with one more anomaly.
Extended(i, critical) ==
    [i EXCEPT !.last_seen_at = minute, !.critical = @ \/ critical]

\* ingest joins the first incident it finds.
Join(s, critical) ==
    \E i \in Near(s) :
        /\ \A j \in Near(s) : i.id <= j.id
        /\ incidents' = (incidents \ {i}) \cup {Extended(i, critical)}
        /\ UNCHANGED <<now, minute, opened>>

\* ingest finds none and opens an incident.
Open(s, critical) ==
    /\ Near(s) = {}
    /\ opened < MaxIncidents
    /\ opened' = opened + 1
    /\ incidents' = incidents \cup
          {[ id |-> opened + 1, service |-> s, critical |-> critical,
             started_at |-> minute, last_seen_at |-> minute, open |-> TRUE ]}
    /\ UNCHANGED <<now, minute>>

\* Mutant: closing a closed incident opens it again.
ClosedToggles(i) == [i EXCEPT !.open = ~@]

Closed(i) == [i EXCEPT !.open = FALSE]

\* close_incident, which an operator may also call on a closed incident.
CloseIncident(i) ==
    /\ i \in incidents
    /\ incidents' = (incidents \ {i}) \cup {Closed(i)}
    /\ UNCHANGED <<now, minute, opened>>

\* Mutant: open incidents expire too.
ExpiredAny == {i \in incidents : now - i.last_seen_at > Ttl}

\* What _purge_old removes.
Expired == {i \in incidents : ~i.open /\ now - i.last_seen_at > Ttl}

\* list_incidents starts with _purge_old.
ListIncidents ==
    /\ Expired # {}
    /\ incidents' = incidents \ Expired
    /\ UNCHANGED <<now, minute, opened>>

ClusterNext ==
    \/ Tick
    \/ StartCycle
    \/ \E s \in Service, critical \in BOOLEAN :
          Join(s, critical) \/ Open(s, critical)
    \/ \E i \in incidents : CloseIncident(i)
    \/ ListIncidents

ClusterSpec == ClusterInit /\ [][ClusterNext]_clusterVars

-----------------------------------------------------------------------------
(* Properties.                                                             *)

\* Every variable has the type of the field it models, an id names one
\* incident, and no incident was seen after the current cycle's minute.
ClusterTypeOK ==
    /\ now \in 0 .. MaxTime
    /\ minute \in 0 .. now
    /\ incidents \subseteq IncidentCluster
    /\ opened \in 0 .. MaxIncidents
    /\ \A i \in incidents :
          i.id <= opened /\ i.started_at <= i.last_seen_at /\ i.last_seen_at <= minute
    /\ \A i, j \in incidents : i.id = j.id => i = j

\* Incidents of a service follow each other in time: one opened later starts
\* no earlier than every earlier one was last seen, although ingest takes the
\* first open incident it meets and old incidents stay open.
IncidentsDoNotOverlap ==
    \A i, j \in incidents :
        i.service = j.service /\ i.id < j.id => i.last_seen_at <= j.started_at

\* A second incident is opened beside an open one only for an anomaly more
\* than the window after it: anomalies that belong together are never split.
OpenIncidentsApart ==
    \A i, j \in incidents :
        i.service = j.service /\ i.id < j.id /\ i.open =>
            j.started_at - i.last_seen_at > Window

\* An incident never becomes less severe, is never last seen earlier than it
\* was, stays closed, and disappears only when it is closed and old.
IncidentsOnlyGrow ==
    [][ \A i \in incidents :
          \/ /\ ~i.open
             /\ now - i.last_seen_at > Ttl
             /\ \A j \in incidents' : j.id # i.id
          \/ \E j \in incidents' :
                /\ j.id = i.id
                /\ j.service = i.service
                /\ j.started_at = i.started_at
                /\ j.last_seen_at >= i.last_seen_at
                /\ i.critical => j.critical
                /\ j.open => i.open ]_clusterVars
=============================================================================
