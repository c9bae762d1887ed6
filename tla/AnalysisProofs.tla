---------------------------- MODULE AnalysisProofs ----------------------------
(***************************************************************************)
(* Theorems of the analyzers: AnomalyClusterer, RcaEngine, BurnRate,       *)
(* DependencyMap and JvmAnalyzer.  They share no variable and each has its *)
(* own specification; the proofs are independent of each other.            *)
(***************************************************************************)
EXTENDS AnomalyClusterer, RcaEngine, DependencyMap, JvmAnalyzer, BurnRate, FoldLemmas,
        SequenceTheorems

-----------------------------------------------------------------------------
(* AnomalyClusterer, for every set of services, window, ttl and bound.     *)

\* The inductive invariant of the incidents.
IInv == ClusterTypeOK /\ IncidentsDoNotOverlap /\ OpenIncidentsApart

\* An incident with one more anomaly is the same incident, seen now.
LEMMA ExtendedProperties ==
    ASSUME NEW i \in IncidentCluster, NEW c \in BOOLEAN, minute \in 0 .. MaxTime
    PROVE  /\ Extended(i, c) \in IncidentCluster
           /\ Extended(i, c).id = i.id
           /\ Extended(i, c).service = i.service
           /\ Extended(i, c).started_at = i.started_at
           /\ Extended(i, c).last_seen_at = minute
           /\ Extended(i, c).open = i.open
           /\ i.critical => Extended(i, c).critical
  BY DEF Extended, IncidentCluster

\* A closed incident is the same incident, closed.
LEMMA ClosedProperties ==
    ASSUME NEW i \in IncidentCluster
    PROVE  /\ Closed(i) \in IncidentCluster
           /\ Closed(i).id = i.id
           /\ Closed(i).service = i.service
           /\ Closed(i).started_at = i.started_at
           /\ Closed(i).last_seen_at = i.last_seen_at
           /\ Closed(i).critical = i.critical
           /\ ~Closed(i).open
  BY DEF Closed, IncidentCluster

\* An incident an anomaly may join is the newest of its service: a newer one
\* was opened more than the window after it.
LEMMA NearIsNewest ==
    ASSUME IInv, NEW s \in Service, NEW i \in Near(s), NEW j \in incidents,
           j.service = s
    PROVE  j.id <= i.id
<1>1. /\ i \in IncidentCluster
      /\ j \in IncidentCluster
      /\ i \in incidents
      /\ i.service = s
      /\ i.open
      /\ minute - i.last_seen_at <= Window
      /\ j.started_at <= minute
      /\ minute \in 0 .. MaxTime
  BY TimeAssumption DEF IInv, ClusterTypeOK, Near, IncidentCluster
<1>2. /\ i.id \in Nat /\ j.id \in Nat
      /\ i.last_seen_at \in Nat /\ j.started_at \in Nat
  BY <1>1, BoundAssumption, TimeAssumption DEF IncidentCluster, Id
<1>3. ~(i.id < j.id)
  BY <1>1, <1>2, TimeAssumption DEF IInv, OpenIncidentsApart
<1>4. QED
  BY <1>2, <1>3

\* The invariant holds initially.
THEOREM InitIInv == ClusterInit => IInv
  BY TimeAssumption, BoundAssumption
     DEF ClusterInit, IInv, ClusterTypeOK, IncidentsDoNotOverlap, OpenIncidentsApart,
         IncidentCluster, Id

\* Joining, opening, closing, purging and the passing of time keep it.
THEOREM NextIInv == IInv /\ [ClusterNext]_clusterVars => IInv'
<1> SUFFICES ASSUME IInv, [ClusterNext]_clusterVars PROVE IInv'
  OBVIOUS
<1>0. /\ minute \in 0 .. MaxTime
      /\ \A i \in incidents :
            /\ i \in IncidentCluster
            /\ i.id \in Nat
            /\ i.started_at \in Nat
            /\ i.last_seen_at \in Nat
      /\ opened \in Nat
  BY TimeAssumption, BoundAssumption DEF IInv, ClusterTypeOK, IncidentCluster, Id
<1>1. CASE Tick
  BY <1>1, TimeAssumption
     DEF Tick, IInv, ClusterTypeOK, IncidentsDoNotOverlap, OpenIncidentsApart
<1>2. CASE StartCycle
  <2>1. ClusterTypeOK'
    BY <1>0, <1>2 DEF StartCycle, IInv, ClusterTypeOK
  <2>2. QED
    BY <1>2, <2>1 DEF StartCycle, IInv, IncidentsDoNotOverlap, OpenIncidentsApart
<1>3. ASSUME NEW s \in Service, NEW c \in BOOLEAN, Join(s, c)
      PROVE  IInv'
  <2>1. PICK i \in Near(s) :
           /\ incidents' = (incidents \ {i}) \cup {Extended(i, c)}
           /\ UNCHANGED <<now, minute, opened>>
    BY <1>3 DEF Join
  <2> DEFINE e == Extended(i, c)
  <2>2. /\ i \in incidents
        /\ i \in IncidentCluster
        /\ i.service = s
        /\ i.open
    BY <1>0 DEF Near
  <2>3. /\ e \in IncidentCluster
        /\ e.id = i.id
        /\ e.service = s
        /\ e.started_at = i.started_at
        /\ e.last_seen_at = minute
        /\ e.open
    BY <1>0, <2>2, ExtendedProperties
  <2>4. \A j \in incidents : j.service = s => j.id <= i.id
    BY NearIsNewest
  <2> HIDE DEF e
  <2>5. ClusterTypeOK'
    <3>1. \A j \in incidents' : /\ j \in IncidentCluster
                                /\ j.id <= opened
                                /\ j.started_at <= j.last_seen_at
                                /\ j.last_seen_at <= minute
      BY <1>0, <2>1, <2>2, <2>3 DEF IInv, ClusterTypeOK, e
    <3>2. \A j, k \in incidents' : j.id = k.id => j = k
      BY <2>1, <2>2, <2>3 DEF IInv, ClusterTypeOK, e
    <3>3. QED
      BY <2>1, <3>1, <3>2 DEF IInv, ClusterTypeOK
  <2>6. IncidentsDoNotOverlap'
    <3> SUFFICES ASSUME NEW j \in incidents', NEW k \in incidents',
                        j.service = k.service, j.id < k.id
                 PROVE  j.last_seen_at <= k.started_at
      BY DEF IncidentsDoNotOverlap
    <3>1. CASE j = e
      BY <1>0, <2>1, <2>2, <2>3, <2>4, <3>1 DEF e
    <3>2. CASE k = e /\ j # e
      BY <2>1, <2>2, <2>3, <3>2 DEF IInv, IncidentsDoNotOverlap, e
    <3>3. CASE j # e /\ k # e
      BY <2>1, <3>3 DEF IInv, IncidentsDoNotOverlap, e
    <3>4. QED
      BY <3>1, <3>2, <3>3
  <2>7. OpenIncidentsApart'
    <3> SUFFICES ASSUME NEW j \in incidents', NEW k \in incidents',
                        j.service = k.service, j.id < k.id, j.open
                 PROVE  k.started_at - j.last_seen_at > Window
      BY DEF OpenIncidentsApart
    <3>1. CASE j = e
      BY <1>0, <2>1, <2>2, <2>3, <2>4, <3>1 DEF e
    <3>2. CASE k = e /\ j # e
      BY <2>1, <2>2, <2>3, <3>2 DEF IInv, OpenIncidentsApart, e
    <3>3. CASE j # e /\ k # e
      BY <2>1, <3>3 DEF IInv, OpenIncidentsApart, e
    <3>4. QED
      BY <3>1, <3>2, <3>3
  <2>8. QED
    BY <2>5, <2>6, <2>7 DEF IInv
<1>4. ASSUME NEW s \in Service, NEW c \in BOOLEAN, Open(s, c)
      PROVE  IInv'
  <2> DEFINE n == [ id |-> opened + 1, service |-> s, critical |-> c,
                    started_at |-> minute, last_seen_at |-> minute,
                    open |-> TRUE ]
  <2>1. /\ n \in IncidentCluster
        /\ n.id = opened + 1
        /\ n.service = s
        /\ n.started_at = minute
        /\ n.last_seen_at = minute
    BY <1>0, <1>4, BoundAssumption DEF Open, IncidentCluster, Id
  <2>2. /\ incidents' = incidents \cup {n}
        /\ opened' = opened + 1
        /\ opened < MaxIncidents
        /\ UNCHANGED <<now, minute>>
    BY <1>4 DEF Open
  <2>3. \A j \in incidents : j.id <= opened /\ j.last_seen_at <= minute
    BY DEF IInv, ClusterTypeOK
  <2>4. \A j \in incidents : j.open /\ j.service = s =>
           minute - j.last_seen_at > Window
    BY <1>0, <1>4, TimeAssumption DEF Open, Near
  <2> HIDE DEF n
  <2>5. ClusterTypeOK'
    <3>1. \A j \in incidents' : /\ j \in IncidentCluster
                                /\ j.id <= opened'
                                /\ j.started_at <= j.last_seen_at
                                /\ j.last_seen_at <= minute
      BY <1>0, <2>1, <2>2, <2>3 DEF IInv, ClusterTypeOK
    <3>2. \A j, k \in incidents' : j.id = k.id => j = k
      BY <1>0, <2>1, <2>2, <2>3 DEF IInv, ClusterTypeOK
    <3>3. QED
      BY <1>0, <2>2, <3>1, <3>2, BoundAssumption DEF IInv, ClusterTypeOK
  <2>6. IncidentsDoNotOverlap'
    BY <1>0, <2>1, <2>2, <2>3 DEF IInv, IncidentsDoNotOverlap
  <2>7. OpenIncidentsApart'
    BY <1>0, <2>1, <2>2, <2>3, <2>4 DEF IInv, OpenIncidentsApart
  <2>8. QED
    BY <2>5, <2>6, <2>7 DEF IInv
<1>5. ASSUME NEW i \in incidents, CloseIncident(i)
      PROVE  IInv'
  <2> DEFINE e == Closed(i)
  <2>1. /\ e \in IncidentCluster
        /\ e.id = i.id
        /\ e.service = i.service
        /\ e.started_at = i.started_at
        /\ e.last_seen_at = i.last_seen_at
        /\ ~e.open
    BY <1>0, ClosedProperties
  <2>2. /\ incidents' = (incidents \ {i}) \cup {e}
        /\ UNCHANGED <<now, minute, opened>>
    BY <1>5 DEF CloseIncident
  <2> HIDE DEF e
  <2>3. ClusterTypeOK'
    <3>1. \A j \in incidents' : /\ j \in IncidentCluster
                                /\ j.id <= opened
                                /\ j.started_at <= j.last_seen_at
                                /\ j.last_seen_at <= minute
      BY <2>1, <2>2 DEF IInv, ClusterTypeOK
    <3>2. \A j, k \in incidents' : j.id = k.id => j = k
      BY <2>1, <2>2 DEF IInv, ClusterTypeOK
    <3>3. QED
      BY <2>2, <3>1, <3>2 DEF IInv, ClusterTypeOK
  <2>4. IncidentsDoNotOverlap'
    BY <2>1, <2>2 DEF IInv, IncidentsDoNotOverlap
  <2>5. OpenIncidentsApart'
    BY <2>1, <2>2 DEF IInv, OpenIncidentsApart
  <2>6. QED
    BY <2>3, <2>4, <2>5 DEF IInv
<1>6. CASE ListIncidents
  <2>1. incidents' \subseteq incidents /\ UNCHANGED <<now, minute, opened>>
    BY <1>6 DEF ListIncidents
  <2>2. QED
    BY <2>1 DEF IInv, ClusterTypeOK, IncidentsDoNotOverlap, OpenIncidentsApart
<1>7. CASE UNCHANGED clusterVars
  BY <1>7 DEF clusterVars, IInv, ClusterTypeOK, IncidentsDoNotOverlap, OpenIncidentsApart
<1>8. QED
  BY <1>1, <1>2, <1>3, <1>4, <1>5, <1>6, <1>7 DEF ClusterNext

\* The inductive invariant holds in every reachable state.
THEOREM InvariantHolds == ClusterSpec => []IInv
  BY InitIInv, NextIInv, PTL DEF ClusterSpec

\* Type correctness: in particular ids are unique.
THEOREM TypeCorrect == ClusterSpec => []ClusterTypeOK
<1>1. IInv => ClusterTypeOK
  BY DEF IInv
<1>2. QED
  BY <1>1, InvariantHolds, PTL

\* The incidents of a service follow each other in time.
THEOREM NoOverlap == ClusterSpec => []IncidentsDoNotOverlap
<1>1. IInv => IncidentsDoNotOverlap
  BY DEF IInv
<1>2. QED
  BY <1>1, InvariantHolds, PTL

\* Anomalies of a service within the window of an open incident join it.
THEOREM NeverSplit == ClusterSpec => []OpenIncidentsApart
<1>1. IInv => OpenIncidentsApart
  BY DEF IInv
<1>2. QED
  BY <1>1, InvariantHolds, PTL

\* No step makes an incident less severe, moves its last_seen_at back, opens it
\* again, or removes it before it is closed and old.
THEOREM IncidentsGrow == ClusterSpec => IncidentsOnlyGrow
<1> DEFINE Grow ==
      \A i \in incidents :
        \/ /\ ~i.open
           /\ now - i.last_seen_at > Ttl
           /\ \A j \in incidents' : j.id # i.id
        \/ \E j \in incidents' :
              /\ j.id = i.id
              /\ j.service = i.service
              /\ j.started_at = i.started_at
              /\ j.last_seen_at >= i.last_seen_at
              /\ i.critical => j.critical
              /\ j.open => i.open
<1>1. ASSUME IInv, [ClusterNext]_clusterVars PROVE Grow
  <2> DEFINE Removed(i) == /\ ~i.open
                           /\ now - i.last_seen_at > Ttl
                           /\ \A j \in incidents' : j.id # i.id
             Kept(i) == \E j \in incidents' :
                           /\ j.id = i.id
                           /\ j.service = i.service
                           /\ j.started_at = i.started_at
                           /\ j.last_seen_at >= i.last_seen_at
                           /\ i.critical => j.critical
                           /\ j.open => i.open
  <2> SUFFICES ASSUME NEW i \in incidents PROVE Removed(i) \/ Kept(i)
    OBVIOUS
  <2>1. /\ i \in IncidentCluster
        /\ i.last_seen_at \in Nat
        /\ i.last_seen_at <= minute
        /\ minute \in 0 .. MaxTime
    BY <1>1, TimeAssumption DEF IInv, ClusterTypeOK, IncidentCluster
  <2>2. CASE i \in incidents'
    BY <2>1, <2>2
  <2>3. CASE i \notin incidents' /\ \E s \in Service, c \in BOOLEAN : Join(s, c)
    <3>1. PICK s \in Service, c \in BOOLEAN : Join(s, c)
      BY <2>3
    <3>2. Extended(i, c) \in incidents'
      BY <2>3, <3>1 DEF Join
    <3>3. QED
      BY <2>1, <3>2, ExtendedProperties
  <2>4. CASE i \notin incidents' /\ \E k \in incidents : CloseIncident(k)
    <3>1. Closed(i) \in incidents'
      BY <2>4 DEF CloseIncident
    <3>2. QED
      BY <2>1, <3>1, ClosedProperties
  <2>5. CASE i \notin incidents' /\ ListIncidents
    <3>1. i \in Expired /\ incidents' \subseteq incidents
      BY <2>5 DEF ListIncidents
    <3>2. \A j \in incidents' : j.id # i.id
      BY <1>1, <2>5, <3>1 DEF IInv, ClusterTypeOK
    <3>3. QED
      BY <3>1, <3>2 DEF Expired
  <2>6. CASE i \notin incidents' /\ \E s \in Service, c \in BOOLEAN : Open(s, c)
    BY <2>6 DEF Open
  <2>7. CASE i \notin incidents' /\ (Tick \/ StartCycle \/ UNCHANGED clusterVars)
    BY <2>7 DEF Tick, StartCycle, clusterVars
  <2>8. QED
    BY <1>1, <2>2, <2>3, <2>4, <2>5, <2>6, <2>7 DEF ClusterNext
<1>2. IInv /\ [ClusterNext]_clusterVars => [Grow]_clusterVars
  BY <1>1
<1>3. QED
  BY <1>2, InvariantHolds, PTL DEF ClusterSpec, IncidentsOnlyGrow

-----------------------------------------------------------------------------
(* RcaEngine, for any interval, anomalies, incidents, crashes and length   *)
(* of time: the overlap of the windows misses no anomaly unless two stored *)
(* cycles are too far apart or its analysis raises, and reports none more  *)
(* than three times.                                                       *)
(*                                                                         *)
(* The inductive invariant counts, for an anomaly, the reports that are    *)
(* stored or on their way, and bounds the last query from below by their   *)
(* number: queries are at least an interval apart.                         *)

\* The cycle has still to insert a report on the anomaly.
OnItsWay(a) == a \in batch \/ a \in reports

\* One cycle makes at most one report on an anomaly, and a sleeping engine none;
\* a query is an interval at least after the one before.
CycleInv ==
    /\ batch \cap reports = {}
    /\ phase = "sleeping" => batch = {} /\ reports = {} /\ asked + Interval <= wake
    /\ phase = "inserting" => batch = {}

\* The reports on an anomaly, stored or on their way.
Count(a) == IF OnItsWay(a) THEN stored[a] + 1 ELSE stored[a]

\* The k-th report comes of a query k - 1 intervals after the insertion or later.
CountInv ==
    \A a \in Anomaly :
        /\ Count(a) \in 0 .. 3
        /\ Count(a) >= 1 => inserted[a] <= asked
        /\ Count(a) >= 2 => inserted[a] + Interval <= asked
        /\ Count(a) = 3 => inserted[a] + 2 * Interval <= asked

\* What the window of a query covered is on its way until the cycle is over, and
\* what was inserted before the last good query has a report, unless it raised.
CoverInv ==
    /\ lastGood <= asked
    /\ phase # "sleeping" =>
          \A a \in Anomaly \ raised :
              inserted[a] < asked /\ asked <= inserted[a] + 2 * Interval => OnItsWay(a)
    /\ worstGap <= 2 * Interval =>
          \A a \in Anomaly \ raised : inserted[a] < lastGood => stored[a] > 0

RcaInv == RcaTypeOK /\ CycleInv /\ CountInv /\ CoverInv

-----------------------------------------------------------------------------

\* The rows after an insertion.
LEMMA RowsAdded ==
    ASSUME RcaInv, NEW a \in Anomaly
    PROVE  /\ StoredWith(reports)[a] = stored[a] + (IF a \in reports THEN 1 ELSE 0)
           /\ StoredWith(reports) \in [Anomaly -> Nat]
  BY DEF RcaInv, RcaTypeOK, StoredWith

-----------------------------------------------------------------------------

\* The engine, its tables and its history are empty at the start.
LEMMA RcaInitInv == RcaInit => RcaInv
  <1>. SUFFICES ASSUME RcaInit PROVE RcaInv
    OBVIOUS
  <1>. USE RcaAssumption DEF RcaInit
  <1>1. RcaTypeOK
    BY DEF RcaTypeOK, Never
  <1>2. \A a \in Anomaly : ~OnItsWay(a) /\ stored[a] = 0 /\ inserted[a] = MaxNow + 1
    BY DEF OnItsWay, Never
  <1>3. CycleInv /\ CountInv /\ CoverInv
    BY <1>2 DEF CycleInv, CountInv, CoverInv, Count
  <1>. QED  BY <1>1, <1>3 DEF RcaInv

\* Steps that leave the cycle and the rows alone.
LEMMA OthersKeep ==
    ASSUME RcaInv, InsertAnomaly \/ SaveIncident \/ RcaTick
    PROVE  RcaInv'
  <1>. USE RcaAssumption DEF RcaInv, RcaTypeOK, cycle, history, incidentVars
  <1>1. CASE InsertAnomaly
    <2>1. PICK a \in Anomaly : inserted[a] = Never /\ inserted' = [inserted EXCEPT ![a] = rcaNow]
      BY <1>1 DEF InsertAnomaly
    <2>2. UNCHANGED <<rcaNow, cycle, stored, incidentVars, history, crashes>>
      BY <1>1 DEF InsertAnomaly
    <2>3. \A b \in Anomaly : Count(b)' = Count(b) /\ (OnItsWay(b)' <=> OnItsWay(b))
      BY <2>2 DEF Count, OnItsWay
    <2>4. Count(a) = 0
      BY <2>1 DEF CountInv, Never
    <2>5. RcaTypeOK'
      BY <2>1, <2>2 DEF Never
    <2>6. CycleInv'
      BY <2>2 DEF CycleInv
    <2>7. CountInv'
      BY <2>1, <2>2, <2>3, <2>4 DEF CountInv
    <2>8. CoverInv'
      BY <2>1, <2>2, <2>3 DEF CoverInv
    <2>. QED  BY <2>5, <2>6, <2>7, <2>8
  <1>2. CASE SaveIncident
    <2>1. UNCHANGED <<rcaNow, inserted, cycle, stored, history, crashes>>
      BY <1>2 DEF SaveIncident
    <2>2. CycleInv' /\ CountInv' /\ CoverInv'
      BY <2>1 DEF CycleInv, CountInv, CoverInv, Count, OnItsWay
    <2>3. memory' \subseteq Incident /\ disk' \subseteq Incident /\ lost' \subseteq Incident
      BY <1>2 DEF SaveIncident, AddIncident
    <2>. QED  BY <2>1, <2>2, <2>3
  <1>3. CASE RcaTick
    <2>1. rcaNow' \in 0 .. MaxNow /\ rcaNow' = rcaNow + 1
      BY <1>3 DEF RcaTick
    <2>2. UNCHANGED <<inserted, cycle, stored, incidentVars, history, crashes>>
      BY <1>3 DEF RcaTick
    <2>3. CycleInv' /\ CountInv' /\ CoverInv'
      BY <2>2 DEF CycleInv, CountInv, CoverInv, Count, OnItsWay
    <2>. QED  BY <2>1, <2>2, <2>3
  <1>. QED  BY <1>1, <1>2, <1>3

\* A query asks an interval after the last, so three find an anomaly at most.
LEMMA QueryKeeps ==
    ASSUME RcaInv, Query \/ QueryFails
    PROVE  RcaInv'
  <1>. USE RcaAssumption DEF RcaInv, RcaTypeOK
  <1>0. /\ phase = "sleeping" /\ batch = {} /\ reports = {}
        /\ asked + Interval <= rcaNow /\ asked' = rcaNow
        /\ UNCHANGED <<rcaNow, inserted, stored, incidentVars, crashes>>
    BY DEF Query, QueryFails, CycleInv
  <1>1. \A a \in Anomaly : Count(a) = stored[a]
    BY <1>0 DEF Count, OnItsWay
  <1>3. CASE Query /\ phase' = "analysing"
    <2>1. batch' = Recent /\ UNCHANGED <<wake, reports, lastGood, worstGap, raised>>
      BY <1>3 DEF Query, history, Sleep
    <2>2. \A a \in Anomaly : OnItsWay(a)' <=> a \in Recent
      BY <1>0, <2>1 DEF OnItsWay
    <2>3. RcaTypeOK'
      BY <1>0, <1>3, <2>1 DEF Recent, incidentVars
    <2>4. CycleInv'
      BY <1>0, <1>3, <2>1 DEF CycleInv
    <2>5. ASSUME NEW a \in Anomaly
          PROVE  /\ Count(a)' \in 0 .. 3
                 /\ Count(a)' >= 1 => inserted[a] <= rcaNow
                 /\ Count(a)' >= 2 => inserted[a] + Interval <= rcaNow
                 /\ Count(a)' = 3 => inserted[a] + 2 * Interval <= rcaNow
      <3>1. CASE a \in Recent
        <4>1. inserted[a] <= rcaNow /\ rcaNow <= inserted[a] + 2 * Interval
          BY <3>1 DEF Recent, QueryWindow
        <4>2. Count(a)' = stored[a] + 1
          BY <1>0, <2>2, <3>1 DEF Count
        <4>3. stored[a] # 3
          BY <1>0, <1>1, <4>1 DEF CountInv
        <4>. QED  BY <1>0, <1>1, <4>1, <4>2, <4>3 DEF CountInv
      <3>2. CASE a \notin Recent
        <4>1. Count(a)' = stored[a]
          BY <1>0, <2>2, <3>2 DEF Count
        <4>. QED  BY <1>0, <1>1, <4>1 DEF CountInv
      <3>. QED  BY <3>1, <3>2
    <2>6. CountInv'
      BY <1>0, <2>5 DEF CountInv
    <2>7. CoverInv'
      <3>1. ASSUME NEW a \in Anomaly, inserted[a] < rcaNow, rcaNow <= inserted[a] + 2 * Interval
            PROVE  a \in Recent
        BY <3>1 DEF Recent, QueryWindow
      <3>. QED  BY <1>0, <2>1, <2>2, <3>1 DEF CoverInv
    <2>. QED  BY <2>3, <2>4, <2>6, <2>7
  <1>4. CASE phase' # "analysing"
    <2>1. Sleep /\ (QueryFails \/ (Query /\ Recent = {}))
      BY <1>4 DEF Query, QueryFails
    <2>2. \A a \in Anomaly : ~OnItsWay(a)'
      BY <2>1 DEF Sleep, OnItsWay
    <2>3. wake' = rcaNow + Interval /\ phase' = "sleeping" /\ batch' = {} /\ reports' = {}
      BY <2>1 DEF Sleep, SleepUntil
    <2>4. /\ \/ UNCHANGED <<lastGood, worstGap>>
             \/ /\ Recent = {} /\ lastGood' = rcaNow
                /\ worstGap' = IF rcaNow - lastGood > worstGap THEN rcaNow - lastGood ELSE worstGap
          /\ raised' = raised
      BY <2>1 DEF Query, QueryFails, history, Good
    <2>5. RcaTypeOK'
      BY <1>0, <2>3, <2>4 DEF incidentVars
    <2>6. CycleInv'
      BY <1>0, <2>3 DEF CycleInv
    <2>7. CountInv'
      <3>1. \A a \in Anomaly : Count(a)' = Count(a)
        BY <1>0, <1>1, <2>2 DEF Count
      <3>. QED  BY <1>0, <3>1 DEF CountInv
    <2>8. CoverInv'
      <3>1. CASE UNCHANGED <<lastGood, worstGap>>
        BY <1>0, <2>3, <2>4, <3>1 DEF CoverInv
      <3>2. CASE /\ Recent = {} /\ lastGood' = rcaNow
                 /\ worstGap' = IF rcaNow - lastGood > worstGap THEN rcaNow - lastGood ELSE worstGap
        <4>1. ASSUME NEW a \in Anomaly \ raised, worstGap' <= 2 * Interval, inserted[a] < rcaNow
              PROVE  stored[a] > 0
          <5>1. rcaNow > inserted[a] + 2 * Interval
            BY <3>2, <4>1 DEF Recent, QueryWindow
          <5>2. rcaNow - lastGood <= 2 * Interval /\ worstGap <= 2 * Interval
            BY <3>2, <4>1
          <5>. QED  BY <5>1, <5>2 DEF CoverInv
        <4>. QED  BY <1>0, <2>3, <2>4, <3>2, <4>1 DEF CoverInv
      <3>. QED  BY <2>4, <3>1, <3>2
    <2>. QED  BY <2>5, <2>6, <2>7, <2>8
  <1>. QED  BY <1>3, <1>4 DEF QueryFails, Sleep

\* An analysis turns an anomaly of the batch into a report or a raised one; a
\* cycle that ends without a report had only raised ones.
LEMMA AnalyzeKeeps ==
    ASSUME RcaInv, Analyze
    PROVE  RcaInv'
  <1>. USE RcaAssumption DEF RcaInv, RcaTypeOK, incidentVars
  <1>1. PICK a \in batch :
            /\ batch' = batch \ {a}
            /\ \/ reports' = reports \cup {a} /\ raised' = raised
               \/ reports' = reports /\ raised' = raised \cup {a}
    BY DEF Analyze, Analysed
  <1>2. phase = "analysing" /\ UNCHANGED <<rcaNow, inserted, asked, stored, incidentVars, crashes>>
    BY DEF Analyze
  <1>3. \/ /\ batch' # {} /\ UNCHANGED <<phase, wake, lastGood, worstGap>>
        \/ /\ batch' = {} /\ reports' # {} /\ phase' = "inserting"
           /\ UNCHANGED <<wake, lastGood, worstGap>>
        \/ /\ batch' = {} /\ reports' = {} /\ phase' = "sleeping" /\ wake' = rcaNow + Interval
           /\ lastGood' = asked
           /\ worstGap' = IF asked - lastGood > worstGap THEN asked - lastGood ELSE worstGap
    BY DEF Analyze, Sleep, SleepUntil, Good
  <1>4. RcaTypeOK'
    BY <1>1, <1>2, <1>3
  <1>5. CycleInv'
    BY <1>1, <1>2, <1>3 DEF CycleInv
  <1>6. ASSUME NEW b \in Anomaly
        PROVE  /\ OnItsWay(b)' => OnItsWay(b)
               /\ OnItsWay(b) => OnItsWay(b)' \/ b \in raised'
    BY <1>1 DEF OnItsWay
  <1>7. CountInv'
    <2>1. ASSUME NEW b \in Anomaly
          PROVE  Count(b)' \in 0 .. Count(b)
      BY <1>2, <1>6 DEF Count, CountInv
    <2>. QED  BY <1>2, <2>1 DEF CountInv
  <1>8. CoverInv'
    <2>1. raised \subseteq raised'
      BY <1>1
    <2>2. CASE phase' # "sleeping"
      BY <1>2, <1>3, <1>6, <2>1, <2>2 DEF CoverInv
    <2>3. CASE phase' = "sleeping"
      <3>1. \A b \in Anomaly : ~OnItsWay(b)'
        BY <1>2, <1>3, <2>3 DEF OnItsWay
      <3>2. ASSUME NEW b \in Anomaly \ raised', worstGap' <= 2 * Interval, inserted[b] < asked
            PROVE  stored[b] > 0
        <4>1. asked - lastGood <= 2 * Interval /\ worstGap <= 2 * Interval
          BY <1>2, <1>3, <2>3, <3>2
        <4>2. ~OnItsWay(b)
          BY <1>6, <3>1, <3>2
        <4>. QED  BY <1>2, <2>1, <3>2, <4>1, <4>2 DEF CoverInv
      <3>. QED  BY <1>2, <1>3, <2>3, <3>2 DEF CoverInv
    <2>. QED  BY <2>2, <2>3
  <1>. QED  BY <1>4, <1>5, <1>7, <1>8

\* The end of a cycle, whatever became of its reports: stored or lost.
LEMMA EndKeeps ==
    ASSUME RcaInv, Sleep,
           UNCHANGED <<rcaNow, inserted, asked, raised>>,
           \/ UNCHANGED <<stored, lastGood, worstGap>>
           \/ phase = "inserting" /\ stored' = StoredWith(reports) /\ UNCHANGED <<lastGood, worstGap>>
           \/ /\ phase = "inserting" /\ stored' = StoredWith(reports)
              /\ lastGood' = asked
              /\ worstGap' = IF asked - lastGood > worstGap THEN asked - lastGood ELSE worstGap,
           crashes' \in 0 .. MaxCrashes,
           memory' \subseteq memory, disk' = disk, lost' = lost
    PROVE  RcaInv'
  <1>. USE RcaAssumption DEF RcaInv, RcaTypeOK
  <1>1. phase' = "sleeping" /\ wake' = rcaNow + Interval /\ batch' = {} /\ reports' = {}
    BY DEF Sleep, SleepUntil
  <1>2. \A a \in Anomaly : ~OnItsWay(a)'
    BY <1>1 DEF OnItsWay
  <1>3. ASSUME NEW a \in Anomaly
        PROVE  /\ stored'[a] \in Nat /\ stored[a] <= stored'[a]
               /\ Count(a)' = stored'[a] /\ Count(a)' <= Count(a)
               /\ lastGood' # lastGood /\ OnItsWay(a) => stored'[a] > 0
    <2>1. Count(a)' = stored'[a]
      BY <1>2 DEF Count
    <2>2. CASE UNCHANGED <<stored, lastGood, worstGap>>
      BY <2>1, <2>2 DEF Count
    <2>3. CASE phase = "inserting" /\ stored' = StoredWith(reports)
      <3>1. OnItsWay(a) <=> a \in reports
        BY <2>3 DEF OnItsWay, CycleInv
      <3>. QED  BY <2>1, <2>3, <3>1, RowsAdded DEF Count
    <2>. QED  BY <2>2, <2>3
  <1>4. stored' \in [Anomaly -> Nat]
    BY RowsAdded, <1>3 DEF StoredWith
  <1>5. RcaTypeOK'
    BY <1>1, <1>4
  <1>6. CycleInv'
    BY <1>1 DEF CycleInv
  <1>7. CountInv'
    <2>1. ASSUME NEW a \in Anomaly
          PROVE  Count(a)' \in 0 .. Count(a)
      BY <1>3 DEF CountInv
    <2>. QED  BY <2>1 DEF CountInv
  <1>8. CoverInv'
    <2>1. CASE lastGood' = lastGood /\ worstGap' >= worstGap
      BY <1>1, <1>3, <2>1 DEF CoverInv
    <2>2. CASE /\ phase = "inserting" /\ lastGood' = asked /\ lastGood' # lastGood
               /\ worstGap' = IF asked - lastGood > worstGap THEN asked - lastGood ELSE worstGap
      <3>1. ASSUME NEW a \in Anomaly \ raised, worstGap' <= 2 * Interval, inserted[a] < asked
            PROVE  stored'[a] > 0
        <4>1. asked - lastGood <= 2 * Interval /\ worstGap <= 2 * Interval
          BY <2>2, <3>1
        <4>2. CASE inserted[a] < lastGood
          BY <1>3, <4>1, <4>2 DEF CoverInv
        <4>3. CASE inserted[a] >= lastGood
          <5>1. OnItsWay(a)
            BY <2>2, <3>1, <4>1, <4>3 DEF CoverInv
          <5>. QED  BY <1>3, <2>2, <5>1
        <4>. QED  BY <4>2, <4>3
      <3>. QED  BY <1>1, <2>2, <3>1 DEF CoverInv
    <2>. QED  BY <2>1, <2>2
  <1>. QED  BY <1>5, <1>6, <1>7, <1>8

-----------------------------------------------------------------------------

\* The invariant is inductive.
LEMMA RcaNextInv == RcaInv /\ [RcaNext]_rcaVars => RcaInv'
  <1>. SUFFICES ASSUME RcaInv, [RcaNext]_rcaVars PROVE RcaInv'
    OBVIOUS
  <1>1. CASE Insert
    BY <1>1, EndKeeps DEF Insert, Good, incidentVars, RcaInv, RcaTypeOK
  <1>2. CASE InsertFails
    BY <1>2, EndKeeps DEF InsertFails, incidentVars, history, RcaInv, RcaTypeOK
  <1>3. CASE Crash
    <2>1. crashes' \in 0 .. MaxCrashes
      BY <1>3, RcaAssumption DEF Crash, RcaInv, RcaTypeOK
    <2>. QED  BY <1>3, <2>1, EndKeeps DEF Crash, history
  <1>4. CASE UNCHANGED rcaVars
    BY <1>4 DEF rcaVars, RcaInv, RcaTypeOK, CycleInv, CountInv, Count, CoverInv, OnItsWay
  <1>. QED
    BY <1>1, <1>2, <1>3, <1>4, QueryKeeps, AnalyzeKeeps, OthersKeep DEF RcaNext

\* Queries and reports are bounded and spaced as counted.
THEOREM RcaInvariantHolds == RcaSpec => []RcaInv
  BY RcaInitInv, RcaNextInv, PTL DEF RcaSpec

\* Type correctness for any interval, anomalies and incidents.
THEOREM RcaTypeCorrect == RcaSpec => []RcaTypeOK
  <1>1. RcaInv => RcaTypeOK
    BY DEF RcaInv
  <1>. QED  BY RcaInvariantHolds, <1>1, PTL

\* While the cycles that stored their reports asked at most two intervals apart,
\* every anomaly is reported within its window, but for those whose own analysis
\* raised (rca_engine.py:80-107).
THEOREM NothingIsMissed == RcaSpec => []NoAnomalyMissed
  <1>1. RcaInv => NoAnomalyMissed
    BY RcaAssumption DEF RcaInv, RcaTypeOK, CoverInv, NoAnomalyMissed
  <1>. QED  BY RcaInvariantHolds, <1>1, PTL

\* No anomaly has more than three reports, however cycles fail and restart.
THEOREM ThreeReportsAtMost == RcaSpec => []AtMostThreeReports
  <1>1. RcaInv => AtMostThreeReports
    BY DEF RcaInv, RcaTypeOK, CountInv, Count, AtMostThreeReports
  <1>. QED  BY RcaInvariantHolds, <1>1, PTL

-----------------------------------------------------------------------------
(* BurnRate, for any services, windows, rates, interval, cooldown and      *)
(* length of a cycle.                                                      *)

\* A window whose points are all zero sums up to zero.
LEMMA SumOfZeros ==
    ASSUME NEW s, NEW ages, IsFiniteSet(ages), \A age \in ages : rates[s][age] = 0
    PROVE  SumOver(s, ages) = 0
  <1>. DEFINE I == CHOOSE it : it = [r \in SUBSET ages |->
                      IF r = {} THEN 0
                      ELSE rates[s][CHOOSE x \in r : TRUE] + it[r \ {CHOOSE x \in r : TRUE}]]
              ch == [r \in SUBSET ages |-> CHOOSE x \in r : TRUE]
  <1>1. SumOver(s, ages) = I[ages]
    BY DEF SumOver, MapThenSumSet, MapThenFoldSet
  <1>2. \A r \in SUBSET ages : ch[r] = CHOOSE x \in r : TRUE
    OBVIOUS
  <1>. HIDE DEF ch
  <1>3. Picks(ch, ages)
    <2>1. \A r \in SUBSET ages : r # {} => ch[r] \in r
      BY <1>2
    <2>. QED  BY <2>1 DEF Picks
  <1>. DEFINE Rec(it) == [r \in SUBSET ages |->
                  IF r = {} THEN 0
                  ELSE rates[s][CHOOSE x \in r : TRUE] + it[r \ {CHOOSE x \in r : TRUE}]]
  <1>4. ASSUME NEW it, NEW r \in SUBSET ages
        PROVE  Rec(it)[r] = IF r = {} THEN 0 ELSE 0 + it[r \ {ch[r]}]
    <2>1. r # {} => ch[r] \in ages
      BY <1>3 DEF Picks
    <2>2. Rec(it)[r] = IF r = {} THEN 0 ELSE rates[s][ch[r]] + it[r \ {ch[r]}]
      BY <1>2
    <2>. HIDE DEF Rec
    <2>. QED  BY <2>1, <2>2
  <1>5. I = Rec(I)
    <2>. DEFINE it == [r \in SUBSET ages |-> 0]
    <2>1. \A r \in SUBSET ages : it[r] = Rec(it)[r]
      <3>1. \A r \in SUBSET ages : it[r] = 0 /\ it[r \ {ch[r]}] = 0
        OBVIOUS
      <3>. HIDE DEF it, Rec
      <3>2. ASSUME NEW r \in SUBSET ages
            PROVE  it[r] = Rec(it)[r]
        <4>1. Rec(it)[r] = IF r = {} THEN 0 ELSE 0 + it[r \ {ch[r]}]
          BY <1>4
        <4>. QED  BY <3>1, <4>1
      <3>. QED  BY <3>2
    <2>2. it = Rec(it)
      <3>1. Rec(it) = [r \in SUBSET ages |-> Rec(it)[r]]
        OBVIOUS
      <3>2. it = [r \in SUBSET ages |-> it[r]]
        OBVIOUS
      <3>. HIDE DEF Rec, it
      <3>. QED  BY <2>1, <3>1, <3>2
    <2>. HIDE DEF it
    <2>. QED  BY <2>2, ZenonT(30) DEF I
  <1>. HIDE DEF I, Rec
  <1>6. \A r \in SUBSET ages : I[r] = IF r = {} THEN 0 ELSE 0 + I[r \ {ch[r]}]
    BY <1>4, <1>5
  <1>. DEFINE T == {r \in SUBSET ages : I[r] = 0}
  <1>7. {} \in T
    BY <1>6
  <1>8. ASSUME NEW r \in SUBSET ages, r # {}, r \ {ch[r]} \in T
        PROVE  r \in T
    BY <1>6, <1>8
  <1>. HIDE DEF T
  <1>9. \A r \in SUBSET ages : r \in T
    BY <1>3, <1>7, <1>8, SubsetInduction
  <1>10. ages \in T
    BY <1>9
  <1>. QED  BY <1>1, <1>10 DEF T

\* The services seen are those with a point in the slow window.
LEMMA SeenProperties ==
    /\ BurnServicesSeen \in Seq(BurnService)
    /\ \A s \in BurnService : Points(s, Slow) # {} => s \in ToSet(BurnServicesSeen)
  <1>. DEFINE wanted == {s \in BurnService : Points(s, Slow) # {}}
  <1>1. BurnServices \in Seq(BurnService)
    BY BurnAssumption DEF BurnService
  <1>2. BurnServicesSeen \in Seq(BurnService) /\ SelectedFrom(BurnServicesSeen, BurnServices, wanted, Len(BurnServices))
    <2>. HIDE DEF wanted
    <2>. QED  BY <1>1, SelectProperties DEF BurnServicesSeen, wanted
  <1>3. ASSUME NEW s \in BurnService, Points(s, Slow) # {}
        PROVE  s \in ToSet(BurnServicesSeen)
    <2>1. PICK j \in 1 .. Len(BurnServices) : BurnServices[j] = s
      BY <1>1, LenProperties DEF BurnService, ToSet
    <2>2. PICK i \in 1 .. Len(BurnServicesSeen) : BurnServicesSeen[i] = s
      BY <1>2, <1>3, <2>1 DEF SelectedFrom
    <2>. QED  BY <1>2, <2>2, LenProperties DEF ToSet
  <1>. QED  BY <1>2, <1>3

-----------------------------------------------------------------------------

\* What the windows of one service's rates say, by the rates alone.
RowSum(row, ages) == MapThenSumSet(LAMBDA age : row[age], ages)
RowPoints(row, width) == {age \in 0 .. width : row[age] # NoPoint}
RowBurns(row, width, rate) ==
    /\ Cardinality(RowPoints(row, width)) >= 2
    /\ RowSum(row, RowPoints(row, width)) >= rate * Budget * Cardinality(RowPoints(row, width))
RowBurnsAt(row, rate) == Budget > 0 /\ RowBurns(row, Fast, rate) /\ RowBurns(row, Slow, rate)
RowCalm(row) == ~ RowBurnsAt(row, Ticket)

\* The model's operators say of a service what these say of its rates, before and
\* after a step.
LEMMA RowsAgree ==
    ASSUME NEW s
    PROVE  /\ Calm(s) <=> RowCalm(rates[s])
           /\ Calm(s)' <=> RowCalm(rates'[s])
           /\ \A width : Points(s, width) = RowPoints(rates[s], width)
  <1>1. Calm(s) <=> RowCalm(rates[s])
    BY DEF Calm, BurnsAt, Burns, SumOver, Points, RowCalm, RowBurnsAt, RowBurns, RowSum, RowPoints
  <1>2. Calm(s)' <=> RowCalm(rates'[s])
    BY DEF Calm, BurnsAt, Burns, SumOver, Points, RowCalm, RowBurnsAt, RowBurns, RowSum, RowPoints,
           MapThenSumSet, MapThenFoldSet
  <1>3. \A width : Points(s, width) = RowPoints(rates[s], width)
    BY DEF Points, RowPoints
  <1>. QED  BY <1>1, <1>2, <1>3

\* A rate that burns the budget has a point of the fast window that is not zero.
LEMMA BurnHasError ==
    ASSUME NEW s, NEW rate \in Nat, rate > 0, BurnsAt(s, rate)
    PROVE  \E age \in 0 .. Fast : rates[s][age] \notin {NoPoint, 0}
  <1>. DEFINE ages == Points(s, Fast)
  <1>1. SUFFICES ASSUME \A age \in 0 .. Fast : rates[s][age] \in {NoPoint, 0}
                 PROVE  FALSE
    OBVIOUS
  <1>2. Budget \in Nat /\ Budget > 0 /\ Fast \in Nat
    BY BurnAssumption DEF BurnsAt
  <1>3. IsFiniteSet(ages)
    <2>1. IsFiniteSet(0 .. Fast)
      BY <1>2, FS_Interval
    <2>. QED  BY <2>1, FS_Subset DEF Points
  <1>4. \A age \in ages : rates[s][age] = 0
    BY <1>1 DEF Points
  <1>5. SumOver(s, ages) = 0
    <2>. HIDE DEF ages
    <2>. QED  BY <1>3, <1>4, SumOfZeros
  <1>6. Cardinality(ages) >= 2 /\ SumOver(s, ages) >= rate * Budget * Cardinality(ages)
    BY DEF BurnsAt, Burns
  <1>7. Cardinality(ages) \in Nat
    BY <1>3, FS_CardinalityType
  <1>. HIDE DEF ages
  <1>8. PICK n \in Nat : n = Cardinality(ages)
    BY <1>7
  <1>9. PICK b \in Nat : b = rate * Budget /\ b > 0
    BY <1>2
  <1>10. 0 >= b * n /\ n >= 2
    BY <1>5, <1>6, <1>8, <1>9
  <1>. QED
    <2>1. b * n >= n
      BY ONLY <1>9, n \in Nat, b \in Nat
    <2>. QED  BY <1>10, <2>1

\* A service without a point does not burn.
LEMMA UnseenIsCalm ==
    ASSUME NEW s, Points(s, Slow) = {}
    PROVE  Calm(s)
  BY FS_EmptySet DEF Calm, BurnsAt, Burns

-----------------------------------------------------------------------------

\* A service was calm, or has had an alert the limit still counts, at moment t or
\* later.
Alerted(s, t) ==
    \/ calmAt[s] >= t
    \/ sent[s] # BurnNever /\ t <= sent[s] + BurnCooldown

\* The history is what the limit remembers, and a calm service is calm now.
HistoryInv ==
    /\ sent = fired
    /\ \A s \in BurnService : RowCalm(rates[s]) => calmAt[s] = burnNow

\* A cycle takes no longer than MaxCycle and the loop wakes on time.
PaceInv == IF waiting = << >> THEN burnNow <= burnWake ELSE burnNow <= cycleStart + MaxCycle

\* Whom a cycle has done with is settled as of its start; whom it has not yet, or
\* everybody while the loop sleeps, as of the cycle before.
AlertedInv ==
    \A s \in BurnService :
        IF waiting = << >> THEN Alerted(s, burnWake - BurnInterval - MaxCycle)
        ELSE IF s \in ToSet(waiting) THEN Alerted(s, cycleStart - BurnInterval - MaxCycle)
        ELSE Alerted(s, cycleStart)

\* The inductive invariant of the burn rate analyzer.
BurnInv ==
    /\ BurnTypeOK
    /\ waiting \in Seq(BurnService)
    /\ HistoryInv
    /\ PaceInv
    /\ AlertedInv
    /\ AlertsAreRecent

\* What the bounds are.
LEMMA BurnBounds ==
    /\ Budget \in Nat /\ Page \in Nat /\ Ticket \in Nat /\ Fast \in Nat /\ Slow \in Nat
    /\ BurnInterval \in Nat /\ BurnCooldown \in Nat /\ MaxCycle \in Nat /\ BurnMaxNow \in Nat
    /\ 0 < Ticket /\ Ticket <= Page /\ Fast <= Slow
    /\ ErrorRates \subseteq Nat /\ NoPoint \notin ErrorRates
  BY BurnAssumption

\* A queue of services and the set of its members.
LEMMA WaitingSet ==
    ASSUME NEW q \in Seq(BurnService)
    PROVE  /\ ToSet(q) \subseteq BurnService
           /\ q # << >> => /\ Head(q) \in BurnService
                           /\ Tail(q) \in Seq(BurnService)
                           /\ \A s \in ToSet(q) : s = Head(q) \/ s \in ToSet(Tail(q))
  <1>1. ToSet(q) \subseteq BurnService
    BY ElementOfSeq, LenProperties DEF ToSet
  <1>2. ASSUME q # << >>
        PROVE  /\ Head(q) \in BurnService
               /\ Tail(q) \in Seq(BurnService)
               /\ \A s \in ToSet(q) : s = Head(q) \/ s \in ToSet(Tail(q))
    <2>1. /\ Head(q) \in BurnService /\ Tail(q) \in Seq(BurnService)
          /\ Len(Tail(q)) = Len(q) - 1
          /\ \A i \in 1 .. Len(Tail(q)) : Tail(q)[i] = q[i + 1]
      BY <1>2, HeadTailProperties
    <2>2. ASSUME NEW s \in ToSet(q), s # Head(q)
          PROVE  s \in ToSet(Tail(q))
      <3>1. Len(q) \in Nat /\ DOMAIN q = 1 .. Len(q) /\ DOMAIN Tail(q) = 1 .. Len(Tail(q))
        BY <2>1, LenProperties
      <3>2. PICK i \in 1 .. Len(q) : q[i] = s
        BY <3>1 DEF ToSet
      <3>3. i # 1
        BY <2>2, <3>2
      <3>4. i - 1 \in 1 .. Len(Tail(q)) /\ Tail(q)[i - 1] = s
        BY <2>1, <3>1, <3>2, <3>3
      <3>. QED  BY <3>1, <3>4 DEF ToSet
    <2>. QED  BY <2>1, <2>2
  <1>. QED  BY <1>1, <1>2

-----------------------------------------------------------------------------

\* At the start everybody is calm and the first cycle is due.
LEMMA BurnInitInv == BurnInit => BurnInv
  <1>. SUFFICES ASSUME BurnInit PROVE BurnInv
    OBVIOUS
  <1>. USE BurnBounds
  <1>1. /\ burnNow = 0 /\ waiting = << >> /\ prediction = "none" /\ burnWake = 0 /\ cycleStart = 0
        /\ fired = [s \in BurnService |-> BurnNever] /\ sent = fired
        /\ calmAt = [s \in BurnService |-> 0]
    BY DEF BurnInit
  <1>2. rates \in [BurnService -> [Ages -> ErrorRates \cup {NoPoint}]]
    <2>1. [age \in Ages |-> NoPoint] \in [Ages -> ErrorRates \cup {NoPoint}]
      OBVIOUS
    <2>. QED  BY <2>1 DEF BurnInit
  <1>3. waiting \in Seq(BurnService) /\ ToSet(waiting) = {}
    BY <1>1 DEF ToSet
  <1>4. BurnTypeOK
    <2>1. ToSet(waiting) \subseteq BurnService
      BY <1>3
    <2>2. {fired, sent} \subseteq [BurnService -> {BurnNever} \cup (0 .. burnNow)]
      BY <1>1
    <2>3. calmAt \in [BurnService -> 0 .. burnNow]
      BY <1>1
    <2>. QED  BY <1>1, <1>2, <2>1, <2>2, <2>3 DEF BurnTypeOK
  <1>5. HistoryInv /\ PaceInv
    BY <1>1 DEF HistoryInv, PaceInv
  <1>6. AlertedInv
    BY <1>1 DEF AlertedInv, Alerted
  <1>7. AlertsAreRecent
    BY <1>1 DEF AlertsAreRecent
  <1>. QED  BY <1>3, <1>4, <1>5, <1>6, <1>7 DEF BurnInv

-----------------------------------------------------------------------------

\* A minute is closed: only a service's rates and when it was calm change.
LEMMA CloseKeeps ==
    ASSUME BurnInv, ClosePoint
    PROVE  BurnInv'
  <1>. USE BurnBounds
  <1>1. PICK s \in BurnService, age \in Ages \cap 0 .. BurnMaxLate, rate \in ErrorRates :
          /\ rates[s][age] = NoPoint
          /\ rates' = [rates EXCEPT ![s][age] = rate]
          /\ calmAt' = [calmAt EXCEPT ![s] = IF Calm(s) \/ Calm(s)' THEN burnNow ELSE @]
    BY DEF ClosePoint
  <1>2. UNCHANGED <<burnNow, waiting, prediction, burnWake, cycleStart, fired, sent>>
    BY DEF ClosePoint
  <1>3. /\ burnNow \in 0 .. BurnMaxNow /\ burnNow \in Nat
        /\ rates \in [BurnService -> [Ages -> ErrorRates \cup {NoPoint}]]
        /\ calmAt \in [BurnService -> 0 .. burnNow]
    BY DEF BurnInv, BurnTypeOK
  <1>4. rates' \in [BurnService -> [Ages -> ErrorRates \cup {NoPoint}]]
    <2>1. rates' = [rates EXCEPT ![s] = [rates[s] EXCEPT ![age] = rate]]
      BY <1>1
    <2>2. [rates[s] EXCEPT ![age] = rate] \in [Ages -> ErrorRates \cup {NoPoint}]
      <3>1. rates[s] \in [Ages -> ErrorRates \cup {NoPoint}]
        BY <1>3
      <3>. QED  BY <3>1
    <2>. QED  BY <1>3, <2>1, <2>2
  <1>5. \A t \in BurnService : t # s => rates'[t] = rates[t]
    BY <1>1, <1>3
  <1>6. \A age2 \in Ages : rates[s][age2] # NoPoint => rates'[s][age2] = rates[s][age2]
    <2>1. rates[s] \in [Ages -> ErrorRates \cup {NoPoint}]
      BY <1>3
    <2>. QED  BY <1>1, <1>3, <2>1
  <1>7. /\ calmAt' \in [BurnService -> 0 .. burnNow]
        /\ \A t \in BurnService : calmAt'[t] >= calmAt[t]
        /\ calmAt'[s] = (IF Calm(s) \/ Calm(s)' THEN burnNow ELSE calmAt[s])
        /\ \A t \in BurnService : t # s => calmAt'[t] = calmAt[t]
    <2>. DEFINE c == IF Calm(s) \/ Calm(s)' THEN burnNow ELSE calmAt[s]
    <2>1. c \in 0 .. burnNow /\ c >= calmAt[s]
      BY <1>3
    <2>2. calmAt' = [calmAt EXCEPT ![s] = c]
      BY <1>1
    <2>. HIDE DEF c
    <2>3. /\ calmAt' \in [BurnService -> 0 .. burnNow] /\ calmAt'[s] = c
          /\ \A t \in BurnService : t # s => calmAt'[t] = calmAt[t]
      BY <1>3, <2>1, <2>2
    <2>4. \A t \in BurnService : calmAt'[t] >= calmAt[t]
      BY <1>3, <2>1, <2>3
    <2>. QED  BY <2>3, <2>4 DEF c
  <1>8. BurnTypeOK'
    BY <1>2, <1>4, <1>7 DEF BurnInv, BurnTypeOK
  <1>9. HistoryInv'
    <2>1. ASSUME NEW t \in BurnService, RowCalm(rates'[t])
          PROVE  calmAt'[t] = burnNow
      <3>1. CASE t = s
        BY <1>7, <2>1, <3>1, RowsAgree
      <3>2. CASE t # s
        BY <1>5, <1>7, <2>1, <3>2 DEF BurnInv, HistoryInv
      <3>. QED  BY <3>1, <3>2
    <2>. QED  BY <1>2, <2>1 DEF BurnInv, HistoryInv
  <1>10. PaceInv'
    BY <1>2 DEF BurnInv, PaceInv
  <1>11. AlertedInv'
    <2>1. ASSUME NEW t \in BurnService, NEW m \in Int, Alerted(t, m)
          PROVE  Alerted(t, m)'
      <3>1. calmAt'[t] \in Int /\ calmAt[t] \in Int /\ calmAt'[t] >= calmAt[t]
        BY <1>3, <1>7
      <3>. QED  BY <1>2, <2>1, <3>1 DEF Alerted
    <2>2. burnWake \in Int /\ cycleStart \in Int
      BY DEF BurnInv, BurnTypeOK
    <2>. QED  BY <1>2, <2>1, <2>2, SMTT(30) DEF BurnInv, AlertedInv, Alerted
  <1>12. AlertsAreRecent'
    <2>. SUFFICES ASSUME prediction # "none"
                  PROVE  \E age2 \in 0 .. Fast + burnNow - cycleStart :
                             rates'[Head(waiting)][age2] \notin {NoPoint, 0}
      BY <1>2 DEF AlertsAreRecent
    <2>1. PICK age2 \in 0 .. Fast + burnNow - cycleStart :
                 rates[Head(waiting)][age2] \notin {NoPoint, 0}
      BY DEF BurnInv, AlertsAreRecent
    <2>2. waiting # << >> /\ cycleStart \in 0 .. burnNow
      BY DEF BurnInv, BurnTypeOK
    <2>3. age2 \in Ages
      BY <1>3, <2>2 DEF BurnInv, PaceInv, Ages
    <2>4. Head(waiting) \in BurnService
      BY <2>2, WaitingSet DEF BurnInv
    <2>5. rates'[Head(waiting)][age2] = rates[Head(waiting)][age2]
      BY <1>5, <1>6, <2>1, <2>3, <2>4
    <2>. QED  BY <2>1, <2>5
  <1>. QED  BY <1>2, <1>8, <1>9, <1>10, <1>11, <1>12 DEF BurnInv

\* A cycle begins, exactly when the loop wakes.
LEMMA CycleKeeps ==
    ASSUME BurnInv, BurnCycle
    PROVE  BurnInv'
  <1>. USE BurnBounds
  <1>1. /\ waiting = << >> /\ burnNow >= burnWake /\ waiting' = BurnServicesSeen /\ cycleStart' = burnNow
        /\ burnWake' = IF waiting' = << >> THEN burnNow + BurnInterval ELSE burnWake
        /\ UNCHANGED <<burnNow, rates, prediction, fired, sent, calmAt>>
    BY DEF BurnCycle
  <1>2. /\ burnNow \in Nat /\ burnWake \in Nat /\ prediction = "none"
        /\ calmAt \in [BurnService -> 0 .. burnNow]
        /\ sent \in [BurnService -> {BurnNever} \cup (0 .. burnNow)]
    BY <1>1 DEF BurnInv, BurnTypeOK
  <1>3. burnNow = burnWake
    BY <1>1, <1>2 DEF BurnInv, PaceInv
  <1>4. waiting' \in Seq(BurnService) /\ ToSet(waiting') \subseteq BurnService
    BY <1>1, SeenProperties, WaitingSet
  <1>5. BurnTypeOK'
    <2>1. ToSet(waiting)' \subseteq BurnService
      BY <1>4 DEF ToSet
    <2>. QED  BY <1>1, <1>2, <2>1 DEF BurnInv, BurnTypeOK
  <1>6. HistoryInv'
    BY <1>1 DEF BurnInv, HistoryInv
  <1>7. PaceInv'
    BY <1>1, <1>2 DEF PaceInv
  <1>8. \A s \in BurnService : s \notin ToSet(waiting') => calmAt[s] = burnNow
    <2>. SUFFICES ASSUME NEW s \in BurnService, s \notin ToSet(waiting')
                  PROVE  calmAt[s] = burnNow
      OBVIOUS
    <2>1. Points(s, Slow) = {}
      BY <1>1, SeenProperties
    <2>2. Calm(s)
      BY <2>1, UnseenIsCalm
    <2>3. RowCalm(rates[s])
      BY <2>2, RowsAgree
    <2>. QED  BY <2>3 DEF BurnInv, HistoryInv
  <1>9. AlertedInv'
    <2>. SUFFICES ASSUME NEW s \in BurnService
                  PROVE  (IF waiting = << >> THEN Alerted(s, burnWake - BurnInterval - MaxCycle)
                          ELSE IF s \in ToSet(waiting)
                               THEN Alerted(s, cycleStart - BurnInterval - MaxCycle)
                          ELSE Alerted(s, cycleStart))'
      BY DEF AlertedInv
    <2>1. Alerted(s, burnNow - BurnInterval - MaxCycle)
      BY <1>1, <1>3 DEF BurnInv, AlertedInv
    <2>2. calmAt[s] \in Int /\ sent[s] \in Int
      BY <1>2 DEF BurnNever
    <2>3. CASE waiting' = << >>
      <3>1. calmAt[s] = burnNow
        BY <1>8, <2>3 DEF ToSet
      <3>. QED  BY <1>1, <1>2, <2>3, <3>1 DEF Alerted
    <2>4. CASE waiting' # << >> /\ s \in ToSet(waiting')
      BY <1>1, <2>1, <2>4 DEF Alerted, ToSet
    <2>5. CASE waiting' # << >> /\ s \notin ToSet(waiting')
      BY <1>1, <1>2, <1>8, <2>5 DEF Alerted, ToSet
    <2>. QED  BY <2>3, <2>4, <2>5
  <1>10. AlertsAreRecent'
    BY <1>1, <1>2 DEF AlertsAreRecent
  <1>. QED  BY <1>4, <1>5, <1>6, <1>7, <1>9, <1>10 DEF BurnInv

-----------------------------------------------------------------------------

\* The cycle has done with its next service, which is settled as of its start.
LEMMA NextServiceKeeps ==
    ASSUME BurnInv, waiting # << >>, NextService, UNCHANGED <<burnNow, rates, cycleStart, calmAt>>,
           sent' = fired',
           sent' \in [BurnService -> {BurnNever} \cup (0 .. burnNow)],
           \A s \in BurnService : sent[s] # BurnNever => sent'[s] # BurnNever /\ sent'[s] >= sent[s],
           NEW done, done = Head(waiting), Alerted(done, cycleStart)'
    PROVE  BurnInv'
  <1>. USE BurnBounds
  <1>1. /\ prediction' = "none" /\ waiting' = Tail(waiting)
        /\ burnWake' = IF waiting' = << >> THEN burnNow + BurnInterval ELSE burnWake
    BY DEF NextService
  <1>2. /\ burnNow \in Nat /\ burnWake \in Nat /\ cycleStart \in 0 .. burnNow
        /\ calmAt \in [BurnService -> 0 .. burnNow]
        /\ sent \in [BurnService -> {BurnNever} \cup (0 .. burnNow)]
        /\ burnNow <= cycleStart + MaxCycle
    BY DEF BurnInv, BurnTypeOK, PaceInv
  <1>3. /\ Head(waiting) \in BurnService /\ waiting' \in Seq(BurnService)
        /\ ToSet(waiting') \subseteq BurnService
        /\ \A s \in ToSet(waiting) : s = Head(waiting) \/ s \in ToSet(waiting')
    BY <1>1, WaitingSet DEF BurnInv
  <1>4. BurnTypeOK'
    <2>1. ToSet(waiting)' \subseteq BurnService
      BY <1>3 DEF ToSet
    <2>2. burnWake' \in Nat
      BY <1>1, <1>2
    <2>. QED  BY <1>1, <1>2, <2>1, <2>2 DEF BurnInv, BurnTypeOK
  <1>5. HistoryInv'
    BY DEF BurnInv, HistoryInv
  <1>6. PaceInv'
    BY <1>1, <1>2 DEF PaceInv
  <1>7. ASSUME NEW s \in BurnService, NEW m \in Int, Alerted(s, m)
        PROVE  Alerted(s, m)'
    <2>1. sent[s] \in Int /\ sent'[s] \in Int
      BY <1>2 DEF BurnNever
    <2>. QED  BY <1>2, <1>7, <2>1 DEF Alerted
  <1>8. ASSUME NEW s \in BurnService, NEW m \in Int, NEW k \in Int, k <= m, Alerted(s, m)'
        PROVE  Alerted(s, k)'
    <2>1. sent'[s] \in Int /\ calmAt'[s] \in Int
      BY <1>2 DEF BurnNever
    <2>. QED  BY <1>2, <1>8, <2>1 DEF Alerted
  <1>9. AlertedInv'
    <2>. SUFFICES ASSUME NEW s \in BurnService
                  PROVE  (IF waiting = << >> THEN Alerted(s, burnWake - BurnInterval - MaxCycle)
                          ELSE IF s \in ToSet(waiting)
                               THEN Alerted(s, cycleStart - BurnInterval - MaxCycle)
                          ELSE Alerted(s, cycleStart))'
      BY DEF AlertedInv
    <2>1. s \notin ToSet(waiting') => Alerted(s, cycleStart)'
      <3>1. CASE s = done
        BY <3>1
      <3>2. CASE s # done /\ s \notin ToSet(waiting')
        <4>1. Alerted(s, cycleStart)
          BY <1>3, <3>2 DEF BurnInv, AlertedInv
        <4>2. calmAt[s] >= cycleStart \/ (sent[s] # BurnNever /\ cycleStart <= sent[s] + BurnCooldown)
          BY <4>1 DEF Alerted
        <4>3. sent[s] \in Int /\ sent'[s] \in Int
          BY <1>2 DEF BurnNever
        <4>. QED  BY <1>2, <4>2, <4>3 DEF Alerted
      <3>. QED  BY <3>1, <3>2
    <2>2. calmAt[s] \in Int /\ sent'[s] \in Int
      BY <1>2 DEF BurnNever
    <2>3. CASE waiting' = << >>
      <3>1. Alerted(s, cycleStart)'
        BY <2>1, <2>3 DEF ToSet
      <3>2. burnWake' = burnNow + BurnInterval
        BY <1>1, <2>3
      <3>. QED  BY <1>2, <2>2, <2>3, <3>1, <3>2 DEF Alerted
    <2>4. CASE waiting' # << >> /\ s \in ToSet(waiting')
      <3>1. Alerted(s, cycleStart - BurnInterval - MaxCycle)
        <4>1. CASE s \in ToSet(waiting)
          BY <4>1 DEF BurnInv, AlertedInv
        <4>2. CASE s \notin ToSet(waiting)
          <5>1. Alerted(s, cycleStart)
            BY <4>2 DEF BurnInv, AlertedInv
          <5>2. sent[s] \in Int
            BY <1>2 DEF BurnNever
          <5>. QED  BY <1>2, <2>2, <5>1, <5>2 DEF Alerted
        <4>. QED  BY <4>1, <4>2
      <3>2. sent[s] \in Int
        BY <1>2 DEF BurnNever
      <3>. QED  BY <1>2, <2>2, <2>4, <3>1, <3>2 DEF Alerted, ToSet
    <2>5. CASE waiting' # << >> /\ s \notin ToSet(waiting')
      BY <1>1, <2>1, <2>5 DEF Alerted, ToSet
    <2>. QED  BY <2>3, <2>4, <2>5
  <1>10. AlertsAreRecent'
    BY <1>1 DEF AlertsAreRecent
  <1>. QED  BY <1>3, <1>4, <1>5, <1>6, <1>9, <1>10 DEF BurnInv

\* A service that burns at neither rate is calm; one that burns is alerted about
\* an error of the fast window.
LEMMA ComputeKeeps ==
    ASSUME BurnInv, Compute
    PROVE  BurnInv'
  <1>. USE BurnBounds
  <1>. PICK s : s = Head(waiting)
    OBVIOUS
  <1>. DEFINE found == ComputeBurnRate(s)
  <1>1. /\ waiting # << >> /\ prediction = "none"
        /\ UNCHANGED <<burnNow, rates, cycleStart, fired, sent, calmAt>>
        /\ \/ found = "none" /\ NextService
           \/ found # "none" /\ prediction' = found /\ UNCHANGED <<waiting, burnWake>>
    BY DEF Compute
  <1>2. /\ burnNow \in Nat /\ cycleStart \in 0 .. burnNow
        /\ sent \in [BurnService -> {BurnNever} \cup (0 .. burnNow)] /\ sent = fired
    BY DEF BurnInv, BurnTypeOK, HistoryInv
  <1>3. s \in BurnService
    BY <1>1, WaitingSet DEF BurnInv
  <1>4. CASE found = "none" /\ NextService
    <2>1. Calm(s)
      BY <1>4 DEF ComputeBurnRate, Calm
    <2>. HIDE DEF found
    <2>2. calmAt[s] = burnNow
      <3>1. RowCalm(rates[s])
        BY <2>1, RowsAgree
      <3>. QED  BY <1>3, <3>1 DEF BurnInv, HistoryInv
    <2>3. Alerted(s, cycleStart)'
      BY <1>1, <1>2, <2>2 DEF Alerted
    <2>4. \A t \in BurnService : sent[t] # BurnNever => sent'[t] # BurnNever /\ sent'[t] >= sent[t]
      BY <1>1, <1>2 DEF BurnNever
    <2>. QED  BY <1>1, <1>2, <1>4, <2>3, <2>4, NextServiceKeeps
  <1>5. CASE found # "none" /\ prediction' = found /\ UNCHANGED <<waiting, burnWake>>
    <2>1. found \in {"warn", "critical"} /\ (BurnsAt(s, Page) \/ BurnsAt(s, Ticket))
      BY <1>5 DEF ComputeBurnRate
    <2>. HIDE DEF found
    <2>2. PICK age \in 0 .. Fast : rates[s][age] \notin {NoPoint, 0}
      BY <2>1, BurnHasError
    <2>3. AlertsAreRecent'
      <3>1. age \in 0 .. Fast + burnNow - cycleStart
        BY <1>2
      <3>. QED  BY <1>1, <1>5, <2>2, <3>1 DEF AlertsAreRecent
    <2>4. BurnTypeOK'
      BY <1>1, <1>5, <2>1 DEF BurnInv, BurnTypeOK, ToSet
    <2>. QED
      BY <1>1, <1>5, <2>3, <2>4 DEF BurnInv, HistoryInv, PaceInv, AlertedInv, Alerted, ToSet
  <1>. QED  BY <1>1, <1>4, <1>5

\* The alert passes, or the limit counts an earlier one.
LEMMA FireKeeps ==
    ASSUME BurnInv, Fire
    PROVE  BurnInv'
  <1>. USE BurnBounds
  <1>. PICK s : s = Head(waiting)
    OBVIOUS
  <1>1. /\ prediction # "none"
        /\ fired' = [fired EXCEPT ![s] = FiredAfter(s)]
        /\ sent' = [sent EXCEPT ![s] = IF CoolingDown(s) THEN @ ELSE burnNow]
        /\ NextService
        /\ UNCHANGED <<burnNow, rates, cycleStart, calmAt>>
    BY DEF Fire
  <1>2. /\ burnNow \in Nat /\ cycleStart \in 0 .. burnNow /\ waiting # << >>
        /\ sent \in [BurnService -> {BurnNever} \cup (0 .. burnNow)] /\ sent = fired
    BY <1>1 DEF BurnInv, BurnTypeOK, HistoryInv
  <1>3. s \in BurnService
    BY <1>2, WaitingSet DEF BurnInv
  <1>4. sent' = fired'
    BY <1>1, <1>2 DEF FiredAfter
  <1>5. /\ sent' = [sent EXCEPT ![s] = FiredAfter(s)]
        /\ FiredAfter(s) \in 0 .. burnNow /\ burnNow <= FiredAfter(s) + BurnCooldown
        /\ FiredAfter(s) >= sent[s]
    <2>1. sent[s] \in {BurnNever} \cup (0 .. burnNow)
      BY <1>2, <1>3
    <2>. QED  BY <1>1, <1>2, <1>4, <2>1 DEF FiredAfter, CoolingDown, BurnNever
  <1>6. /\ sent' \in [BurnService -> {BurnNever} \cup (0 .. burnNow)]
        /\ \A t \in BurnService : sent[t] # BurnNever => sent'[t] # BurnNever /\ sent'[t] >= sent[t]
        /\ sent'[s] = FiredAfter(s)
    BY <1>2, <1>3, <1>5 DEF BurnNever
  <1>7. Alerted(s, cycleStart)'
    <2>1. sent'[s] # BurnNever /\ cycleStart <= sent'[s] + BurnCooldown
      BY <1>2, <1>5, <1>6 DEF BurnNever
    <2>. QED  BY <1>1, <2>1 DEF Alerted
  <1>. QED  BY <1>1, <1>2, <1>4, <1>6, <1>7, NextServiceKeeps

\* A minute passes: every point is a minute older.
LEMMA TickKeeps ==
    ASSUME BurnInv, BurnTick
    PROVE  BurnInv'
  <1>. USE BurnBounds
  <1>1. /\ burnNow < BurnMaxNow /\ burnNow' = burnNow + 1
        /\ IF waiting = << >> THEN burnNow < burnWake ELSE burnNow < cycleStart + MaxCycle
        /\ UNCHANGED <<waiting, prediction, burnWake, cycleStart, fired, sent>>
        /\ calmAt' = [s \in BurnService |-> IF Calm(s) \/ Calm(s)' THEN burnNow' ELSE calmAt[s]]
        /\ rates' = [s \in BurnService |->
                       [age \in Ages |-> IF age = 0 THEN NoPoint ELSE rates[s][age - 1]]]
    BY DEF BurnTick
  <1>2. /\ burnNow \in Nat /\ burnWake \in Nat /\ cycleStart \in 0 .. burnNow
        /\ calmAt \in [BurnService -> 0 .. burnNow]
        /\ sent \in [BurnService -> {BurnNever} \cup (0 .. burnNow)] /\ fired = sent
        /\ rates \in [BurnService -> [Ages -> ErrorRates \cup {NoPoint}]]
    BY DEF BurnInv, BurnTypeOK, HistoryInv
  <1>3. \A s \in BurnService, age \in Ages :
            /\ rates'[s][age] = IF age = 0 THEN NoPoint ELSE rates[s][age - 1]
            /\ rates'[s][age] \in ErrorRates \cup {NoPoint}
    <2>. SUFFICES ASSUME NEW s \in BurnService, NEW age \in Ages
                  PROVE  /\ rates'[s][age] = IF age = 0 THEN NoPoint ELSE rates[s][age - 1]
                         /\ rates'[s][age] \in ErrorRates \cup {NoPoint}
      OBVIOUS
    <2>1. rates'[s][age] = IF age = 0 THEN NoPoint ELSE rates[s][age - 1]
      BY <1>1
    <2>2. age # 0 => age - 1 \in Ages
      BY DEF Ages
    <2>3. rates[s] \in [Ages -> ErrorRates \cup {NoPoint}]
      BY <1>2
    <2>. QED  BY <2>1, <2>2, <2>3
  <1>4. rates' \in [BurnService -> [Ages -> ErrorRates \cup {NoPoint}]]
    BY <1>1, <1>3
  <1>5. \A s \in BurnService :
            /\ calmAt'[s] = IF Calm(s) \/ Calm(s)' THEN burnNow' ELSE calmAt[s]
            /\ calmAt'[s] \in 0 .. burnNow'
            /\ calmAt'[s] >= calmAt[s]
    <2>. SUFFICES ASSUME NEW s \in BurnService
                  PROVE  /\ calmAt'[s] = IF Calm(s) \/ Calm(s)' THEN burnNow' ELSE calmAt[s]
                         /\ calmAt'[s] \in 0 .. burnNow'
                         /\ calmAt'[s] >= calmAt[s]
      OBVIOUS
    <2>1. calmAt'[s] = IF Calm(s) \/ Calm(s)' THEN burnNow' ELSE calmAt[s]
      BY <1>1
    <2>2. calmAt[s] \in 0 .. burnNow
      BY <1>2
    <2>. QED  BY <1>1, <1>2, <2>1, <2>2
  <1>6. BurnTypeOK'
    <2>1. calmAt' \in [BurnService -> 0 .. burnNow']
      <3>1. calmAt' = [s \in BurnService |-> calmAt'[s]]
        BY <1>1
      <3>. QED  BY <1>5, <3>1
    <2>2. burnNow' \in 0 .. BurnMaxNow /\ cycleStart' \in 0 .. burnNow'
      BY <1>1, <1>2
    <2>3. {fired', sent'} \subseteq [BurnService -> {BurnNever} \cup (0 .. burnNow')]
      BY <1>1, <1>2
    <2>. QED  BY <1>1, <1>4, <2>1, <2>2, <2>3 DEF BurnInv, BurnTypeOK, ToSet
  <1>7. HistoryInv'
    <2>1. ASSUME NEW s \in BurnService, RowCalm(rates'[s])
          PROVE  calmAt'[s] = burnNow'
      <3>1. Calm(s)'
        BY <2>1, RowsAgree
      <3>. QED  BY <1>5, <3>1
    <2>. QED  BY <1>1, <1>2, <2>1 DEF HistoryInv
  <1>8. PaceInv'
    BY <1>1, <1>2 DEF PaceInv
  <1>9. AlertedInv'
    <2>1. ASSUME NEW s \in BurnService, NEW m \in Int, Alerted(s, m)
          PROVE  Alerted(s, m)'
      <3>1. calmAt'[s] \in Int /\ calmAt[s] \in Int /\ calmAt'[s] >= calmAt[s]
        BY <1>1, <1>2, <1>5
      <3>. QED  BY <1>1, <2>1, <3>1 DEF Alerted
    <2>2. burnWake \in Int /\ cycleStart \in Int
      BY <1>2
    <2>. QED  BY <1>1, <2>1, <2>2 DEF BurnInv, AlertedInv, Alerted, ToSet
  <1>10. AlertsAreRecent'
    <2>. SUFFICES ASSUME prediction # "none"
                  PROVE  \E age \in 0 .. Fast + burnNow' - cycleStart :
                             rates'[Head(waiting)][age] \notin {NoPoint, 0}
      BY <1>1 DEF AlertsAreRecent
    <2>1. PICK age \in 0 .. Fast + burnNow - cycleStart :
                 rates[Head(waiting)][age] \notin {NoPoint, 0}
      BY DEF BurnInv, AlertsAreRecent
    <2>2. waiting # << >>
      BY DEF BurnInv, BurnTypeOK
    <2>3. age + 1 \in Ages /\ age + 1 \in 0 .. Fast + burnNow' - cycleStart /\ age + 1 # 0
          /\ age + 1 - 1 = age
      BY <1>1, <1>2, <2>2 DEF Ages
    <2>4. Head(waiting) \in BurnService
      BY <2>2, WaitingSet DEF BurnInv
    <2>5. rates'[Head(waiting)][age + 1] = rates[Head(waiting)][age]
      BY <1>3, <2>3, <2>4
    <2>. QED  BY <2>1, <2>3, <2>5
  <1>11. waiting' \in Seq(BurnService)
    BY <1>1 DEF BurnInv
  <1>. QED  BY <1>6, <1>7, <1>8, <1>9, <1>10, <1>11 DEF BurnInv

\* The invariant is inductive.
LEMMA BurnNextInv == BurnInv /\ [BurnNext]_burnVars => BurnInv'
  <1>. SUFFICES ASSUME BurnInv, [BurnNext]_burnVars PROVE BurnInv'
    OBVIOUS
  <1>1. CASE UNCHANGED burnVars
    BY <1>1 DEF burnVars, BurnInv, BurnTypeOK, HistoryInv, PaceInv, AlertedInv, Alerted, AlertsAreRecent,
                ToSet
  <1>. QED  BY <1>1, CloseKeeps, CycleKeeps, ComputeKeeps, FireKeeps, TickKeeps DEF BurnNext

\* Who is settled, and as of when, is as the cycles leave it.
THEOREM BurnInvariantHolds == BurnSpec => []BurnInv
  BY BurnInitInv, BurnNextInv, PTL DEF BurnSpec

\* Type correctness for any services, windows, rates and lengths.
THEOREM BurnTypeCorrect == BurnSpec => []BurnTypeOK
  <1>1. BurnInv => BurnTypeOK
    BY DEF BurnInv
  <1>. QED  BY BurnInvariantHolds, <1>1, PTL

\* The alerts of a lasting burn are never further apart than the cooldown and the
\* longest round of the loop (burn_rate_analyzer.py:106-128, webhook.py:56-72).
THEOREM BurnsAreAlerted == BurnSpec => []BurningKeepsAlerting
  <1>1. BurnInv => BurningKeepsAlerting
    <2>. SUFFICES ASSUME BurnInv, NEW s \in BurnService, burnNow - calmAt[s] > Round
                  PROVE  sent[s] # BurnNever /\ burnNow - sent[s] <= BurnCooldown + Round
      BY DEF BurningKeepsAlerting
    <2>1. /\ burnNow \in Nat /\ burnWake \in Nat /\ cycleStart \in Nat /\ calmAt[s] \in Nat
          /\ sent[s] \in Int
      BY DEF BurnInv, BurnTypeOK, BurnNever
    <2>2. \/ Alerted(s, burnWake - BurnInterval - MaxCycle) /\ burnNow <= burnWake
          \/ Alerted(s, cycleStart - BurnInterval - MaxCycle) /\ burnNow <= cycleStart + MaxCycle
          \/ Alerted(s, cycleStart) /\ burnNow <= cycleStart + MaxCycle
      BY DEF BurnInv, AlertedInv, PaceInv
    <2>. QED  BY <2>1, <2>2, BurnBounds DEF Alerted, Round
  <1>. QED  BY BurnInvariantHolds, <1>1, PTL

\* An alert about to be fired is about an error of the fast window as the cycle
\* found it (burn_rate_analyzer.py:122-128).
THEOREM AlertsAreFresh == BurnSpec => []AlertsAreRecent
  <1>1. BurnInv => AlertsAreRecent
    BY DEF BurnInv
  <1>. QED  BY BurnInvariantHolds, <1>1, PTL

-----------------------------------------------------------------------------
(* DependencyMap: the search for root causes.                                *)

\* There are finitely many services and pairs of them.
LEMMA GraphFinite ==
    IsFiniteSet(GraphService) /\ Cardinality(GraphService) \in Nat /\ IsFiniteSet(Pair)
  <1>1. IsFiniteSet(GraphService)
    BY DependencyAssumption, ElementsFinite DEF GraphService
  <1>2. IsFiniteSet(GraphService \X GraphService)
    BY <1>1, FS_Product
  <1>3. Pair \in SUBSET (GraphService \X GraphService)
    BY DEF Pair
  <1>. QED  BY <1>1, <1>2, <1>3, FS_CardinalityType, FS_Subset

\* T holds the causes of the service and of its own members.
CauseClosed(T, service) == \A v \in T \cup {service} : GetCauses(v) \subseteq T

\* Causing is the least such set: it holds what a path of edges leads from.
LEMMA CausingIsLeast ==
    ASSUME NEW service \in GraphService
    PROVE  /\ Causing(service) \subseteq GraphService
           /\ CauseClosed(Causing(service), service)
           /\ \A T : CauseClosed(T, service) => Causing(service) \subseteq T
  <1>. DEFINE n == Cardinality(GraphService)
              V == SUBSET GraphService
              step(found) == found \cup {source \in GraphService :
                                \E target \in found \cup {service} : <<source, target>> \in GetAllEdges}
              Rec(r) == [k \in 0 .. n |-> IF k = 0 THEN {} ELSE step(r[k - 1])]
              R == CHOOSE r : r = [k \in 0 .. n |-> IF k = 0 THEN {} ELSE step(r[k - 1])]
              next == [x \in (1 .. n) \X V |-> step(x[2])]
  <1>1. n \in Nat /\ {} \in V
    BY GraphFinite
  <1>2. Causing(service) = R[n]
    BY DEF Causing
  <1>3. \A found \in V : step(found) \in V
    OBVIOUS
  <1>4. \A found, c : c \in step(found) <=> c \in found \/ \E v \in found \cup {service} : c \in GetCauses(v)
    BY DEF GetCauses, GetAllEdges
  <1>. HIDE DEF step, n
  <1>5. \A k \in 1 .. n, found \in V : next[<<k, found>>] = step(found)
    OBVIOUS
  <1>6. next \in [(1 .. n) \X V -> V]
    <2>. HIDE DEF V
    <2>. QED  BY <1>3
  <1>. HIDE DEF next
  <1>7. R = Rec(R)
    <2>1. PICK f \in [0 .. n -> V] : f[0] = {} /\ \A k \in 1 .. n : f[k] = next[<<k, f[k - 1]>>]
      <3>1. PICK g \in [(1 .. n) \X V -> V] : g = next
        BY <1>6
      <3>2. PICK b \in V : b = {}
        BY <1>1
      <3>. HIDE DEF V
      <3>3. \E f \in [0 .. n -> V] : Iterates(f, n, b, g)
        BY <1>1, RecursionExists
      <3>. QED  BY <3>1, <3>2, <3>3 DEF Iterates
    <2>2. ASSUME NEW k \in 0 .. n
          PROVE  f[k] = IF k = 0 THEN {} ELSE step(f[k - 1])
      <3>1. k # 0 => k \in 1 .. n /\ k - 1 \in 0 .. n
        BY <1>1
      <3>. QED  BY <1>5, <2>1, <3>1
    <2>3. f = Rec(f)
      <3>1. f = [k \in 0 .. n |-> f[k]]
        BY <2>1
      <3>. QED  BY <2>2, <3>1
    <2>. QED  BY <2>3 DEF R
  <1>. HIDE DEF R
  <1>8. R[0] = {} /\ \A k \in 1 .. n : R[k] = step(R[k - 1])
    <2>1. \A k \in 0 .. n : R[k] = IF k = 0 THEN {} ELSE step(R[k - 1])
      BY <1>7
    <2>. HIDE DEF Rec
    <2>2. 0 \in 0 .. n /\ \A k \in 1 .. n : k \in 0 .. n /\ k # 0
      BY <1>1
    <2>. QED  BY <2>1, <2>2
  <1>. HIDE DEF Rec
  \* It only grows, and it is closed or has a member for every iteration.
  <1>. DEFINE Grown(k) == /\ R[k] \in V
                          /\ step(R[k]) = R[k] \/ Cardinality(R[k]) >= k
              G == {k \in 0 .. n : Grown(k)}
  <1>9. 0 \in G
    <2>1. Grown(0)
      BY <1>1, <1>8, FS_EmptySet
    <2>. QED  BY <1>1, <2>1
  <1>10. ASSUME NEW k \in 1 .. n, k - 1 \in G
         PROVE  k \in G
    <2>. DEFINE old == R[k - 1]
    <2>1. old \in V /\ (step(old) = old \/ Cardinality(old) >= k - 1) /\ R[k] = step(old)
      BY <1>8, <1>10
    <2>2. k \in 0 .. n /\ R[k] \in V
      BY <1>1, <1>3, <2>1
    <2>. HIDE DEF old
    <2>3. CASE step(old) = old
      BY <2>1, <2>2, <2>3
    <2>4. CASE step(old) # old
      <3>1. old \subseteq step(old) /\ IsFiniteSet(step(old))
        BY <1>3, <1>4, <2>1, GraphFinite, FS_Subset
      <3>2. Cardinality(old) < Cardinality(step(old)) /\ Cardinality(old) \in Nat /\ Cardinality(step(old)) \in Nat
        BY <2>4, <3>1, FS_Subset, FS_CardinalityType
      <3>3. Cardinality(step(old)) >= k
        BY <2>1, <2>4, <3>2, <1>1
      <3>. QED  BY <2>1, <2>2, <3>3
    <2>. QED  BY <2>3, <2>4
  <1>11. Grown(n)
    <2>1. \A k \in 0 .. n : k \in G
      <3>. HIDE DEF G
      <3>. QED  BY <1>1, <1>9, <1>10, UpTo
    <2>. HIDE DEF Grown
    <2>. QED  BY <1>1, <2>1
  <1>12. R[n] \in V /\ step(R[n]) = R[n]
    <2>1. R[n] \in V
      BY <1>11
    <2>2. CASE Cardinality(R[n]) >= n
      <3>1. R[n] = GraphService
        <4>1. Cardinality(R[n]) <= n /\ Cardinality(R[n]) \in Nat
          BY <2>1, GraphFinite, FS_Subset, FS_CardinalityType DEF n
        <4>2. Cardinality(R[n]) = Cardinality(GraphService)
          BY <1>1, <2>2, <4>1 DEF n
        <4>. QED  BY <2>1, <4>2, GraphFinite, FS_Subset
      <3>2. step(R[n]) \in V /\ R[n] \subseteq step(R[n])
        BY <1>3, <1>4, <2>1
      <3>. QED  BY <2>1, <3>1, <3>2
    <2>. QED  BY <1>11, <2>1, <2>2
  <1>13. CauseClosed(R[n], service)
    <2>. SUFFICES ASSUME NEW v \in R[n] \cup {service}, NEW c \in GetCauses(v)
                  PROVE  c \in R[n]
      BY DEF CauseClosed
    <2>1. c \in step(R[n])
      BY <1>4
    <2>. QED  BY <1>12, <2>1
  <1>14. ASSUME NEW T, CauseClosed(T, service)
         PROVE  R[n] \subseteq T
    <2>. DEFINE H == {k \in 0 .. n : R[k] \subseteq T}
    <2>1. 0 \in H
      BY <1>1, <1>8
    <2>2. ASSUME NEW k \in 1 .. n, k - 1 \in H
          PROVE  k \in H
      <3>1. R[k - 1] \subseteq T /\ R[k] = step(R[k - 1]) /\ k \in 0 .. n
        BY <1>1, <1>8, <2>2
      <3>2. \A v \in R[k - 1] \cup {service} : GetCauses(v) \subseteq T
        BY <1>14, <3>1 DEF CauseClosed
      <3>3. step(R[k - 1]) \subseteq T
        BY <1>4, <3>1, <3>2
      <3>. QED  BY <3>1, <3>3
    <2>. HIDE DEF H
    <2>3. \A k \in 0 .. n : k \in H
      BY <1>1, <2>1, <2>2, UpTo
    <2>. QED  BY <1>1, <2>3 DEF H
  <1>. QED  BY <1>2, <1>12, <1>13, <1>14

\* There are finitely many edges.
LEMMA EdgesFinite ==
    ASSUME GraphTypeOK
    PROVE  IsFiniteSet(DOMAIN edges) /\ Cardinality(DOMAIN edges) \in Nat
  <1>1. PICK E : E = DOMAIN edges
    OBVIOUS
  <1>2. IsFiniteSet(E)
    BY <1>1, GraphFinite, FS_Subset DEF GraphTypeOK
  <1>. QED  BY <1>1, <1>2, FS_CardinalityType

\* The edges into a service are at least as many as its causes.
LEMMA CausesAreEdges ==
    ASSUME GraphTypeOK, NEW v \in GraphService
    PROVE  /\ IsFiniteSet(GetCauses(v))
           /\ Cardinality(GetCauses(v)) <= Cardinality({e \in DOMAIN edges : e[2] = v})
  <1>. DEFINE into == {e \in DOMAIN edges : e[2] = v}
              source == [e \in into |-> e[1]]
  <1>1. IsFiniteSet(DOMAIN edges)
    BY EdgesFinite
  <1>2. IsFiniteSet(into)
    BY <1>1, FS_Subset
  <1>3. \A e \in into : e \in Pair /\ e = <<e[1], v>>
    BY DEF GraphTypeOK, Pair
  <1>4. source \in [into -> GetCauses(v)]
    BY <1>3 DEF GetCauses, Pair
  <1>5. \A c \in GetCauses(v) : \E e \in into : source[e] = c
    <2>. SUFFICES ASSUME NEW c \in GetCauses(v)
                  PROVE  \E e \in into : source[e] = c
      OBVIOUS
    <2>1. <<c, v>> \in into /\ source[<<c, v>>] = c
      BY DEF GetCauses
    <2>. QED  BY <2>1
  <1>6. source \in Surjection(into, GetCauses(v))
    BY <1>4, <1>5 DEF Surjection
  <1>7. PICK f, A, C : f = source /\ A = into /\ C = GetCauses(v)
    OBVIOUS
  <1>8. IsFiniteSet(C) /\ Cardinality(C) <= Cardinality(A)
    BY <1>2, <1>6, <1>7, FS_Surjection
  <1>. QED  BY <1>7, <1>8

\* The traversal's queue, and the services it has come to.
SearchState == [queue : Seq(GraphService), visited : SUBSET GraphService, roots : SUBSET GraphService]
Met(s) == s.visited \cup ToSet(s.queue)

\* Between two iterations: what the traversal has come to leads to the service; the
\* causes of what it visited are visited or queued; and its roots are those visited
\* that nothing causes.
Searching(s, service) ==
    /\ s \in SearchState
    /\ service \in Met(s)
    /\ Met(s) \subseteq Causing(service) \cup {service}
    /\ \A v \in s.visited : GetCauses(v) \subseteq Met(s)
    /\ s.roots = {v \in s.visited \ {service} : GetCauses(v) = {}}

\* The iterations left are at most the services queued and the edges into
\* services not visited.
Unvisited(s) == {e \in DOMAIN edges : e[2] \notin s.visited}
Remaining(s) == Len(s.queue) + Cardinality(Unvisited(s))

\* An iteration that passes over a service visited before.
LEMMA PassedOver ==
    ASSUME GraphTypeOK, NEW service \in GraphService, NEW s, Searching(s, service),
           s.queue # << >>, Head(s.queue) \in s.visited
    PROVE  /\ Searching(Visit(s, service), service)
           /\ Remaining(Visit(s, service)) = Remaining(s) - 1
  <1>. DEFINE t == Visit(s, service)
  <1>1. s \in SearchState /\ s.queue \in Seq(GraphService)
    BY DEF Searching, SearchState
  <1>2. t = [s EXCEPT !.queue = Tail(s.queue)]
    BY DEF Visit
  <1>. HIDE DEF t
  <1>3. t.queue = Tail(s.queue) /\ t.visited = s.visited /\ t.roots = s.roots /\ t \in SearchState
    <2>1. Tail(s.queue) \in Seq(GraphService)
      BY <1>1, HeadTailProperties
    <2>. QED  BY <1>1, <1>2, <2>1 DEF SearchState
  <1>4. ToSet(s.queue) = {Head(s.queue)} \cup ToSet(Tail(s.queue))
    BY <1>1, ToSetHeadTail
  <1>5. Met(t) = Met(s)
    BY <1>3, <1>4 DEF Met
  <1>6. Searching(t, service)
    BY <1>3, <1>5 DEF Searching
  <1>7. Unvisited(t) = Unvisited(s)
    BY <1>3 DEF Unvisited
  <1>8. Len(t.queue) = Len(s.queue) - 1 /\ Len(s.queue) \in Nat
    BY <1>1, <1>3, HeadTailProperties, LenProperties
  <1>9. Cardinality(Unvisited(s)) \in Nat
    <2>1. IsFiniteSet(DOMAIN edges)
      BY EdgesFinite
    <2>2. IsFiniteSet(Unvisited(s))
      BY <2>1, FS_Subset DEF Unvisited
    <2>. QED  BY <2>2, FS_CardinalityType
  <1>10. Remaining(t) = Remaining(s) - 1
    BY <1>7, <1>8, <1>9 DEF Remaining
  <1>. QED  BY <1>6, <1>10 DEF t

\* An iteration that visits a service.
LEMMA Visited ==
    ASSUME GraphTypeOK, NEW service \in GraphService, NEW s, Searching(s, service),
           s.queue # << >>, Head(s.queue) \notin s.visited
    PROVE  /\ Searching(Visit(s, service), service)
           /\ Remaining(Visit(s, service)) <= Remaining(s) - 1
  <1>. DEFINE t == Visit(s, service)
              current == Head(s.queue)
              causes == GetCauses(current)
              met == s.visited \cup {current}
              root == causes = {} /\ current # service
              more == IF root THEN << >> ELSE SetToSeq(causes \ met)
  <1>1. /\ s \in SearchState /\ s.queue \in Seq(GraphService)
        /\ s.visited \in SUBSET GraphService /\ s.roots \in SUBSET GraphService
    BY DEF Searching, SearchState
  <1>2. /\ current \in GraphService /\ Tail(s.queue) \in Seq(GraphService)
        /\ Len(Tail(s.queue)) = Len(s.queue) - 1 /\ Len(s.queue) \in Nat
        /\ ToSet(s.queue) = {current} \cup ToSet(Tail(s.queue))
    BY <1>1, HeadTailProperties, LenProperties, ToSetHeadTail
  <1>3. /\ t.queue = Tail(s.queue) \o more
        /\ t.visited = met
        /\ t.roots = IF root THEN s.roots \cup {current} ELSE s.roots
        /\ t = [queue |-> t.queue, visited |-> t.visited, roots |-> t.roots]
    BY DEF Visit
  <1>4. /\ IsFiniteSet(DOMAIN edges) /\ IsFiniteSet(causes)
        /\ Cardinality(causes) <= Cardinality({e \in DOMAIN edges : e[2] = current})
    <2>1. PICK v \in GraphService : v = current
      BY <1>2
    <2>. QED  BY <2>1, CausesAreEdges, EdgesFinite
  <1>5. /\ more \in Seq(GraphService) /\ ToSet(more) = causes \ met
        /\ Len(more) <= Cardinality(causes) /\ Len(more) \in Nat /\ Cardinality(causes) \in Nat
    <2>1. PICK fresh, all : fresh = causes \ met /\ all = causes
      OBVIOUS
    <2>2. IsFiniteSet(all) /\ fresh \in SUBSET all /\ all \subseteq GraphService
      BY <1>4, <2>1 DEF GetCauses
    <2>3. IsFiniteSet(fresh) /\ Cardinality(fresh) <= Cardinality(all)
      BY <2>2, FS_Subset
    <2>4. Cardinality(fresh) \in Nat /\ Cardinality(all) \in Nat
      BY <2>2, <2>3, FS_CardinalityType
    <2>5. /\ SetToSeq(fresh) \in Seq(fresh) /\ Len(SetToSeq(fresh)) = Cardinality(fresh)
          /\ ToSet(SetToSeq(fresh)) = fresh
      BY <2>3, SetToSeqProperties
    <2>6. SetToSeq(fresh) \in Seq(GraphService)
      BY <2>2, <2>5, SeqMonotonic
    <2>7. CASE root
      <3>1. more = << >> /\ causes = {}
        BY <2>7
      <3>2. ToSet(<< >>) = {}
        BY DEF ToSet
      <3>3. << >> \in Seq(GraphService) /\ Len(<< >>) = 0
        OBVIOUS
      <3>4. causes \ met = {}
        BY <3>1
      <3>5. Cardinality(causes) \in Nat
        BY <2>1, <2>4
      <3>. HIDE DEF more, causes
      <3>. QED  BY <3>1, <3>2, <3>3, <3>4, <3>5
    <2>8. CASE ~ root
      <3>1. more = SetToSeq(fresh)
        BY <2>1, <2>8
      <3>. HIDE DEF more, causes
      <3>. QED  BY <2>1, <2>3, <2>4, <2>5, <2>6, <3>1
    <2>. QED  BY <2>7, <2>8
  <1>. HIDE DEF t, more
  <1>6. t.queue \in Seq(GraphService) /\ Len(t.queue) = Len(Tail(s.queue)) + Len(more)
    BY <1>2, <1>3, <1>5, ConcatProperties
  <1>7. ToSet(t.queue) = ToSet(Tail(s.queue)) \cup (causes \ met)
    <2>1. PICK q, m \in Seq(GraphService) : q = Tail(s.queue) /\ m = more
      BY <1>2, <1>5
    <2>2. ToSet(q \o m) = ToSet(q) \cup ToSet(m)
      BY ToSetConcat
    <2>. QED  BY <1>3, <1>5, <2>1, <2>2
  <1>8. t \in SearchState
    BY <1>1, <1>2, <1>3, <1>6 DEF SearchState
  <1>. HIDE DEF current, causes
  <1>9. Met(t) = Met(s) \cup causes
    BY <1>2, <1>3, <1>7 DEF Met
  <1>10. current \in Causing(service) \cup {service}
    BY <1>2 DEF Searching, Met
  <1>11. causes \subseteq Causing(service)
    BY <1>10, CausingIsLeast DEF CauseClosed, causes
  <1>12. \A v \in t.visited : GetCauses(v) \subseteq Met(t)
    BY <1>3, <1>9 DEF Searching, causes
  <1>13. t.roots = {v \in t.visited \ {service} : GetCauses(v) = {}}
    BY <1>3 DEF Searching, causes
  <1>14. Searching(t, service)
    BY <1>8, <1>9, <1>11, <1>12, <1>13 DEF Searching
  <1>. DEFINE into == {e \in DOMAIN edges : e[2] = current}
  <1>15. Unvisited(t) = Unvisited(s) \ into /\ into \subseteq Unvisited(s)
    BY <1>3 DEF Unvisited, current
  <1>16. /\ Cardinality(Unvisited(t)) = Cardinality(Unvisited(s)) - Cardinality(into)
         /\ Cardinality(Unvisited(s)) \in Nat /\ Cardinality(into) \in Nat
    <2>1. PICK A, B : A = Unvisited(s) /\ B = into
      OBVIOUS
    <2>2. IsFiniteSet(A) /\ B \in SUBSET A
      BY <1>4, <1>15, <2>1, FS_Subset DEF Unvisited
    <2>. HIDE DEF into
    <2>. QED  BY <1>15, <2>1, <2>2, PartRemoved
  <1>17. Remaining(t) <= Remaining(s) - 1
    <2>1. Cardinality(causes) <= Cardinality(into)
      BY <1>4 DEF causes
    <2>. HIDE DEF into
    <2>2. Len(t.queue) <= Len(s.queue) - 1 + Cardinality(into) /\ Len(t.queue) \in Nat
      BY <1>2, <1>5, <1>6, <1>16, <2>1
    <2>. QED  BY <1>2, <1>16, <2>2 DEF Remaining
  <1>. QED  BY <1>14, <1>17 DEF t

\* The start of the traversal.
LEMMA SearchStarts ==
    ASSUME GraphTypeOK, NEW service \in GraphService, NEW s,
           s = [queue |-> <<service>>, visited |-> {}, roots |-> {}]
    PROVE  Searching(s, service) /\ Remaining(s) = Cardinality(DOMAIN edges) + 1
  <1>1. s.queue = <<service>> /\ s.visited = {} /\ s.roots = {} /\ s \in SearchState
    BY DEF SearchState
  <1>2. Len(s.queue) = 1 /\ ToSet(s.queue) = {service}
    BY <1>1 DEF ToSet
  <1>3. Met(s) = {service}
    BY <1>1, <1>2 DEF Met
  <1>4. Unvisited(s) = DOMAIN edges
    BY <1>1 DEF Unvisited
  <1>5. Cardinality(DOMAIN edges) \in Nat
    BY EdgesFinite
  <1>6. Remaining(s) = Cardinality(DOMAIN edges) + 1
    BY <1>2, <1>4, <1>5 DEF Remaining
  <1>7. s.roots = {v \in s.visited \ {service} : GetCauses(v) = {}}
    BY <1>1
  <1>8. Met(s) \subseteq Causing(service) \cup {service}
    BY <1>3
  <1>. QED  BY <1>1, <1>3, <1>6, <1>7, <1>8 DEF Searching

\* The iterations of the model are enough: the traversal ends with an empty queue.
LEMMA SearchEnds ==
    ASSUME GraphTypeOK, NEW service \in GraphService
    PROVE  \E s : /\ Searching(s, service) /\ s.queue = << >>
                  /\ Upstream(service) = s.roots
  <1>1. PICK n : n = Cardinality(DOMAIN edges) + 1 /\ n \in Nat
    BY EdgesFinite
  <1>2. PICK V : V = {s \in SearchState : Searching(s, service)}
    OBVIOUS
  <1>3. PICK b : b = [queue |-> <<service>>, visited |-> {}, roots |-> {}]
    OBVIOUS
  <1>4. b \in V /\ Remaining(b) = n
    BY <1>1, <1>2, <1>3, SearchStarts DEF Searching
  <1>5. ASSUME NEW s \in V
        PROVE  Remaining(s) \in Int /\ (Remaining(s) <= 0 => s.queue = << >>)
    <2>1. s.queue \in Seq(GraphService)
      BY <1>2 DEF SearchState
    <2>2. IsFiniteSet(DOMAIN edges)
      BY EdgesFinite
    <2>3. IsFiniteSet(Unvisited(s))
      BY <2>2, FS_Subset DEF Unvisited
    <2>4. Cardinality(Unvisited(s)) \in Nat /\ Len(s.queue) \in Nat
      BY <2>1, <2>3, FS_CardinalityType, LenProperties
    <2>5. s.queue # << >> => Len(s.queue) \in Nat \ {0}
      BY <2>1, EmptySeq
    <2>. QED  BY <2>4, <2>5 DEF Remaining
  <1>6. ASSUME NEW s \in V
        PROVE  /\ Visit(s, service) \in V
               /\ s.queue = << >> => Visit(s, service) = s
               /\ s.queue # << >> => Remaining(Visit(s, service)) <= Remaining(s) - 1
    <2>1. Searching(s, service)
      BY <1>2
    <2>2. CASE s.queue = << >>
      <3>1. Visit(s, service) = s
        BY <2>2 DEF Visit
      <3>. QED  BY <2>2, <3>1
    <2>3. CASE s.queue # << >>
      <3>1. Searching(Visit(s, service), service)
        BY <2>1, <2>3, PassedOver, Visited
      <3>2. Visit(s, service) \in V
        BY <1>2, <3>1 DEF Searching
      <3>3. CASE Head(s.queue) \in s.visited
        <4>1. Remaining(Visit(s, service)) = Remaining(s) - 1
          BY <2>1, <2>3, <3>3, PassedOver
        <4>2. Remaining(s) \in Int
          BY <1>5
        <4>. QED  BY <2>3, <3>2, <4>1, <4>2
      <3>4. CASE Head(s.queue) \notin s.visited
        BY <2>1, <2>3, <3>2, <3>4, Visited
      <3>. QED  BY <3>3, <3>4
    <2>. QED  BY <2>2, <2>3
  <1>. DEFINE Rec(r) == [k \in 0 .. n |-> IF k = 0 THEN b ELSE Visit(r[k - 1], service)]
              R == CHOOSE r : r = [k \in 0 .. n |-> IF k = 0 THEN b ELSE Visit(r[k - 1], service)]
              next == [x \in (1 .. n) \X V |-> Visit(x[2], service)]
  <1>7. Upstream(service) = R[n].roots
    BY <1>1, <1>3 DEF Upstream
  <1>8. /\ next \in [(1 .. n) \X V -> V]
        /\ \A k \in 1 .. n, s \in V : next[<<k, s>>] = Visit(s, service)
    BY <1>6
  <1>. HIDE DEF next
  <1>9. R = Rec(R)
    <2>1. PICK g \in [(1 .. n) \X V -> V] : g = next
      BY <1>8
    <2>2. PICK f \in [0 .. n -> V] : Iterates(f, n, b, g)
      BY <1>1, <1>4, RecursionExists
    <2>3. ASSUME NEW k \in 0 .. n
          PROVE  f[k] = IF k = 0 THEN b ELSE Visit(f[k - 1], service)
      <3>1. k # 0 => k \in 1 .. n /\ k - 1 \in 0 .. n
        BY <1>1
      <3>. QED  BY <1>8, <2>1, <2>2, <3>1 DEF Iterates
    <2>4. f = Rec(f)
      <3>1. f = [k \in 0 .. n |-> f[k]]
        BY <2>2
      <3>. QED  BY <2>3, <3>1
    <2>. QED  BY <2>4 DEF R
  <1>. HIDE DEF R
  <1>10. R[0] = b /\ \A k \in 1 .. n : R[k] = Visit(R[k - 1], service)
    <2>1. \A k \in 0 .. n : R[k] = IF k = 0 THEN b ELSE Visit(R[k - 1], service)
      BY <1>9
    <2>2. 0 \in 0 .. n /\ \A k \in 1 .. n : k \in 0 .. n /\ k # 0
      BY <1>1
    <2>. HIDE DEF Rec
    <2>. QED  BY <2>1, <2>2
  <1>. HIDE DEF Rec
  <1>. DEFINE T == {k \in 0 .. n : /\ R[k] \in V
                                   /\ R[k].queue = << >> \/ Remaining(R[k]) <= n - k}
  <1>11. 0 \in T
    BY <1>1, <1>4, <1>10
  <1>12. ASSUME NEW k \in 1 .. n, k - 1 \in T
         PROVE  k \in T
    <2>1. PICK s \in V : s = R[k - 1] /\ (s.queue = << >> \/ Remaining(s) <= n - (k - 1))
      BY <1>12
    <2>2. R[k] = Visit(s, service)
      BY <1>10, <2>1
    <2>3. PICK t \in V : t = Visit(s, service)
      BY <1>6
    <2>4. Remaining(s) \in Int /\ Remaining(t) \in Int
      BY <1>5
    <2>5. t.queue = << >> \/ Remaining(t) <= n - k
      BY <1>1, <1>6, <2>1, <2>3, <2>4
    <2>6. k \in 0 .. n
      BY <1>1
    <2>. QED  BY <2>2, <2>3, <2>5, <2>6
  <1>. HIDE DEF T
  <1>13. n \in T
    <2>1. \A k \in 0 .. n : k \in T
      BY <1>1, <1>11, <1>12, UpTo
    <2>. QED  BY <1>1, <2>1
  <1>14. R[n] \in V /\ (R[n].queue = << >> \/ Remaining(R[n]) <= 0)
    BY <1>1, <1>13 DEF T
  <1>15. Searching(R[n], service) /\ R[n].queue = << >>
    BY <1>2, <1>5, <1>14
  <1>. QED  BY <1>7, <1>15

\* The roots are the services with a path to this one that nothing causes.
LEMMA UpstreamFinds ==
    ASSUME GraphTypeOK, NEW service \in GraphService
    PROVE  Upstream(service) = {s \in Causing(service) \ {service} : GetCauses(s) = {}}
  <1>1. PICK s : /\ Searching(s, service) /\ s.queue = << >>
                 /\ Upstream(service) = s.roots
    BY SearchEnds
  <1>2. Met(s) = s.visited
    BY <1>1 DEF Met, ToSet
  <1>3. CauseClosed(s.visited, service)
    BY <1>1, <1>2 DEF Searching, CauseClosed
  <1>4. Causing(service) \subseteq s.visited
    BY <1>3, CausingIsLeast
  <1>5. s.visited \ {service} = Causing(service) \ {service}
    BY <1>1, <1>2, <1>4 DEF Searching
  <1>. QED  BY <1>1, <1>5 DEF Searching

\* A service without a direct cause has none further up.
LEMMA NoCauses ==
    ASSUME NEW service \in GraphService, GetCauses(service) = {}
    PROVE  Causing(service) = {}
  <1>1. CauseClosed({}, service)
    BY DEF CauseClosed
  <1>. QED  BY <1>1, CausingIsLeast

\* What a request read of a service's causes holds still, unless it is spoilt.
ReadInv ==
    reading # Idle /\ ~ reading.spoilt => reading.upstream = GetCauses(reading.service)

GraphInv == GraphTypeOK /\ ReadInv

\* The pairs of a cycle are pairs of services.
LEMMA PairsOfType ==
    ASSUME NEW names \in Seq(GraphService)
    PROVE  PairsOf(names) \in Seq(Pair)
  <1>. DEFINE n == Len(names)
              Prod == GraphService \X GraphService
              of == [i \in DOMAIN names |-> [j \in DOMAIN names |-> <<names[i], names[j]>>]]
              all == FlattenSeq(of)
  <1>1. n \in Nat /\ DOMAIN names = 1 .. n /\ \A i \in 1 .. n : names[i] \in GraphService
    BY LenProperties, ElementOfSeq
  <1>2. of \in Seq(Seq(Prod)) /\ Len(of) = n
    BY <1>1
  <1>3. PairsOf(names) = Select(all, Pair)
    BY DEF PairsOf
  <1>4. all \in Seq(Prod)
    <2>. HIDE DEF of, Prod
    <2>. QED  BY <1>2, FlattenType
  <1>5. /\ Select(all, Pair) \in Seq(Prod)
        /\ SelectedFrom(Select(all, Pair), all, Pair, Len(all))
    <2>. HIDE DEF all, Prod
    <2>. QED  BY <1>4, SelectProperties
  <1>. HIDE DEF all, Prod
  <1>6. \A i \in 1 .. Len(Select(all, Pair)) : Select(all, Pair)[i] \in Pair
    BY <1>5 DEF SelectedFrom
  <1>. QED  BY <1>3, <1>5, <1>6

\* A test has a smallest p-value and a first lag it is reached at.
LEMMA BestType ==
    ASSUME NEW result \in TestResult
    PROVE  /\ Best(result).p \in 1 .. One /\ Best(result).lag \in 1 .. MaxLag
           /\ Best(result) = [p |-> Best(result).p, lag |-> Best(result).lag]
  <1>. DEFINE values == {result[l] : l \in 1 .. MaxLag}
              First(lag) == \A k \in 1 .. MaxLag :
                               result[lag] <= result[k] /\ (k < lag => result[lag] < result[k])
  <1>1. /\ MaxLag \in Nat \ {0} /\ One \in Nat
        /\ \A l \in 1 .. MaxLag : result[l] \in 1 .. One
    BY DependencyAssumption DEF TestResult
  <1>2. PICK m \in values : \A v \in values : m <= v
    <2>1. values \subseteq Nat /\ values # {}
      BY <1>1
    <2>. HIDE DEF values
    <2>. QED  BY <2>1, FirstPosition
  <1>. DEFINE at == {l \in 1 .. MaxLag : result[l] = m}
  <1>3. PICK lag \in at : \A l \in at : lag <= l
    <2>1. at \subseteq Nat /\ at # {}
      BY <1>2
    <2>. HIDE DEF at
    <2>. QED  BY <2>1, FirstPosition
  <1>4. lag \in 1 .. MaxLag /\ First(lag)
    <2>1. lag \in 1 .. MaxLag /\ result[lag] = m
      BY <1>3
    <2>2. ASSUME NEW k \in 1 .. MaxLag
          PROVE  result[lag] <= result[k] /\ (k < lag => result[lag] < result[k])
      <3>1. m <= result[k] /\ result[k] \in Nat /\ m \in Nat
        BY <1>1, <1>2, <2>1
      <3>2. k < lag => result[k] # m
        BY <1>3, <2>1
      <3>. QED  BY <2>1, <3>1, <3>2
    <2>. QED  BY <2>1, <2>2
  <1>. DEFINE best == CHOOSE l \in 1 .. MaxLag : First(l)
  <1>5. best \in 1 .. MaxLag
    <2>. HIDE DEF First
    <2>. QED  BY <1>4
  <1>6. Best(result) = [p |-> result[best], lag |-> best]
    BY DEF Best
  <1>. HIDE DEF best
  <1>. QED  BY <1>1, <1>5, <1>6

\* An update of one pair's edge keeps the graph well formed.
LEMMA UpdateType ==
    ASSUME GraphTypeOK, NEW pr \in Pair, NEW edge,
           edge.p \in 1 .. One, edge.lag \in 1 .. MaxLag, edge = [p |-> edge.p, lag |-> edge.lag]
    PROVE  /\ DOMAIN Update(pr, edge) \subseteq Pair
           /\ \A e \in DOMAIN Update(pr, edge) : Update(pr, edge)[e] \in [p : 1 .. Threshold, lag : 1 .. MaxLag]
  <1>1. One \in Nat /\ Threshold \in Nat /\ MaxLag \in Nat
    BY DependencyAssumption
  <1>2. DOMAIN edges \subseteq Pair /\ \A e \in DOMAIN edges : edges[e] \in [p : 1 .. Threshold, lag : 1 .. MaxLag]
    BY DEF GraphTypeOK
  <1>3. CASE edge.p <= Threshold
    <2>1. edge \in [p : 1 .. Threshold, lag : 1 .. MaxLag]
      BY <1>1, <1>3
    <2>2. Update(pr, edge) = [at \in (DOMAIN edges \ {pr}) \cup {pr} |-> IF at = pr THEN edge ELSE edges[at]]
      BY <1>3 DEF Update
    <2>. QED  BY <1>2, <2>1, <2>2
  <1>4. CASE ~ (edge.p <= Threshold)
    <2>1. Update(pr, edge) = [at \in DOMAIN edges \ {pr} |-> edges[at]]
      BY <1>4 DEF Update
    <2>. QED  BY <1>2, <2>1
  <1>. QED  BY <1>3, <1>4

\* The graph is empty at the start and no request reads it.
LEMMA GraphInitInv == GraphInit => GraphInv
  BY DEF GraphInit, GraphInv, GraphTypeOK, ReadInv, Idle

\* The invariant is inductive: a request whose service gains or loses a cause
\* between its two reads is spoilt.
LEMMA GraphNextInv == GraphInv /\ [GraphNext]_graphVars => GraphInv'
  <1>. SUFFICES ASSUME GraphInv, [GraphNext]_graphVars PROVE GraphInv'
    OBVIOUS
  <1>0. GraphTypeOK /\ ReadInv
    BY DEF GraphInv
  <1>1. CASE GrangerCycle
    <2>1. PICK enough \in SUBSET GraphService : todo' = PairsOf(Select(Services, enough))
      BY <1>1 DEF GrangerCycle
    <2>2. Services \in Seq(GraphService)
      BY DependencyAssumption DEF GraphService
    <2>3. Select(Services, enough) \in Seq(GraphService)
      BY <2>2, SelectProperties
    <2>4. todo' \in Seq(Pair)
      BY <2>1, <2>3, PairsOfType
    <2>5. UNCHANGED <<edges, running, reading>>
      BY <1>1 DEF GrangerCycle
    <2>. QED  BY <1>0, <2>4, <2>5 DEF GraphInv, GraphTypeOK, ReadInv, GetCauses
  <1>2. CASE TestPair
    <2>1. /\ todo # << >> /\ todo \in Seq(Pair) /\ todo' = Tail(todo) /\ running' = running
      BY <1>0, <1>2 DEF TestPair, GraphTypeOK
    <2>2. Head(todo) \in Pair /\ todo' \in Seq(Pair)
      BY <2>1, HeadTailProperties
    <2>3. CASE UNCHANGED <<edges, reading>>
      BY <1>0, <2>1, <2>2, <2>3 DEF GraphInv, GraphTypeOK, ReadInv, GetCauses
    <2>4. CASE \E result \in TestResult :
                  /\ edges' = Update(Head(todo), Best(result))
                  /\ reading' = IF Spoilt(edges, edges') THEN [reading EXCEPT !.spoilt = TRUE]
                                ELSE reading
      <3>1. PICK result \in TestResult :
                  /\ edges' = Update(Head(todo), Best(result))
                  /\ reading' = IF Spoilt(edges, edges') THEN [reading EXCEPT !.spoilt = TRUE]
                                ELSE reading
        BY <2>4
      <3>2. PICK edge : /\ edge = Best(result) /\ edge.p \in 1 .. One /\ edge.lag \in 1 .. MaxLag
                        /\ edge = [p |-> edge.p, lag |-> edge.lag]
        BY BestType
      <3>3. PICK pr \in Pair : pr = Head(todo)
        BY <2>2
      <3>4. /\ DOMAIN edges' \subseteq Pair
            /\ \A e \in DOMAIN edges' : edges'[e] \in [p : 1 .. Threshold, lag : 1 .. MaxLag]
        BY <1>0, <3>1, <3>2, <3>3, UpdateType
      <3>5. reading # Idle => reading \in [service : GraphService, upstream : SUBSET GraphService, spoilt : BOOLEAN]
        BY <1>0 DEF GraphTypeOK
      <3>6. CASE Spoilt(edges, edges')
        <4>1. /\ reading' \in [service : GraphService, upstream : SUBSET GraphService, spoilt : BOOLEAN]
              /\ reading'.spoilt
          BY <3>1, <3>5, <3>6 DEF Spoilt
        <4>. QED  BY <1>0, <2>1, <2>2, <3>4, <4>1 DEF GraphInv, GraphTypeOK, ReadInv
      <3>7. CASE ~ Spoilt(edges, edges')
        <4>1. reading' = reading
          BY <3>1, <3>7
        <4>2. reading # Idle => GetCauses(reading.service)' = GetCauses(reading.service)
          BY <3>7, <4>1 DEF Spoilt, GetCauses
        <4>. QED  BY <1>0, <2>1, <2>2, <3>4, <4>1, <4>2 DEF GraphInv, GraphTypeOK, ReadInv
      <3>. QED  BY <3>6, <3>7
    <2>. QED  BY <1>2, <2>3, <2>4 DEF TestPair
  <1>3. CASE StopAnalyzer
    BY <1>0, <1>3 DEF StopAnalyzer, GraphInv, GraphTypeOK, ReadInv, GetCauses
  <1>4. CASE ReadEdges
    <2>1. PICK service \in GraphService :
             reading' = [service |-> service, upstream |-> GetCauses(service), spoilt |-> FALSE]
      BY <1>4 DEF ReadEdges
    <2>2. UNCHANGED <<edges, todo, running>>
      BY <1>4 DEF ReadEdges
    <2>3. GetCauses(service) \subseteq GraphService /\ GetCauses(service)' = GetCauses(service)
      BY <2>2 DEF GetCauses
    <2>4. /\ reading' \in [service : GraphService, upstream : SUBSET GraphService, spoilt : BOOLEAN]
          /\ reading'.service = service /\ reading'.upstream = GetCauses(service)
      BY <2>1, <2>3
    <2>5. GetCauses(reading.service)' = reading'.upstream
      BY <2>2, <2>4 DEF GetCauses
    <2>. QED  BY <1>0, <2>2, <2>4, <2>5 DEF GraphInv, GraphTypeOK, ReadInv
  <1>5. CASE ReadRoots
    BY <1>0, <1>5 DEF ReadRoots, GraphInv, GraphTypeOK, ReadInv
  <1>6. CASE UNCHANGED graphVars
    BY <1>0, <1>6 DEF graphVars, GraphInv, GraphTypeOK, ReadInv, GetCauses
  <1>. QED  BY <1>1, <1>2, <1>3, <1>4, <1>5, <1>6 DEF GraphNext

\* The graph and the request in progress are as the invariant says.
THEOREM GraphInvariantHolds == GraphSpec => []GraphInv
  BY GraphInitInv, GraphNextInv, PTL DEF GraphSpec

\* Type correctness for any services, lags and p-values.
THEOREM GraphTypeCorrect == GraphSpec => []GraphTypeOK
  <1>1. GraphInv => GraphTypeOK
    BY DEF GraphInv
  <1>. QED  BY GraphInvariantHolds, <1>1, PTL

\* The breadth-first search names the services with a path to this one that nothing
\* causes, or its direct causes when there is none, and agrees with what the same
\* request read before (dependency_map.py:91-127, dependency.py:50-81).
THEOREM RootCausesFound == GraphSpec => []RootCausesRight
  <1>1. ASSUME GraphTypeOK, NEW service \in GraphService
        PROVE  LET roots == {s \in Causing(service) \ {service} : GetCauses(s) = {}}
               IN  GetRootCauses(service) = IF roots = {} THEN GetCauses(service) ELSE roots
    BY <1>1, UpstreamFinds DEF GetRootCauses
  <1>2. ASSUME GraphInv, reading # Idle, ~ reading.spoilt
        PROVE  reading.upstream = {} <=> GetRootCauses(reading.service) = {}
    <2>1. PICK service \in GraphService : service = reading.service
      BY <1>2 DEF GraphInv, GraphTypeOK
    <2>2. reading.upstream = GetCauses(service)
      BY <1>2, <2>1 DEF GraphInv, ReadInv
    <2>. DEFINE roots == {s \in Causing(service) \ {service} : GetCauses(s) = {}}
    <2>3. GetRootCauses(service) = IF roots = {} THEN GetCauses(service) ELSE roots
      BY <1>1, <1>2 DEF GraphInv
    <2>4. GetCauses(service) = {} => roots = {}
      BY NoCauses
    <2>. HIDE DEF roots
    <2>. QED  BY <2>1, <2>2, <2>3, <2>4
  <1>3. GraphInv => RootCausesRight
    BY <1>1, <1>2 DEF RootCausesRight, GraphInv
  <1>. QED  BY GraphInvariantHolds, <1>3, PTL

-----------------------------------------------------------------------------
(* JvmAnalyzer: the signals, and what bears them out.                        *)

\* f holds the sums of the prefixes of a sequence.
SumsOf(f, values) ==
    /\ f \in [0 .. Len(values) -> Int]
    /\ f[0] = 0
    /\ \A k \in 1 .. Len(values) : f[k] = f[k - 1] + values[k]

\* Total adds up one value after the other.
LEMMA TotalInSteps ==
    ASSUME NEW values \in Seq(Int)
    PROVE  \E f : SumsOf(f, values) /\ Total(values) = f[Len(values)]
  <1>. DEFINE n == Len(values)
              Add(k, sum) == sum + values[k]
              step == [x \in (1 .. n) \X Int |-> Add(x[1], x[2])]
              Rec(it) == [r \in SUBSET (1 .. n) |->
                      IF r = {} THEN 0 ELSE Add(Max(r), it[r \ {Max(r)}])]
              I == CHOOSE it : it = [r \in SUBSET (1 .. n) |->
                      IF r = {} THEN 0 ELSE Add(Max(r), it[r \ {Max(r)}])]
  <1>1. n \in Nat /\ DOMAIN values = 1 .. n /\ \A k \in 1 .. n : values[k] \in Int
    BY LenProperties, ElementOfSeq
  <1>2. Total(values) = I[1 .. n]
    <2>1. DOMAIN values = 1 .. n
      BY <1>1
    <2>. HIDE DEF n
    <2>. QED  BY <2>1 DEF Total, FoldLeft, MapThenFoldSet
  <1>3. \A k \in 1 .. n, sum \in Int : Add(k, sum) \in Int
    BY <1>1
  <1>4. \A k \in 1 .. n, sum \in Int : step[<<k, sum>>] = Add(k, sum)
    OBVIOUS
  <1>5. step \in [(1 .. n) \X Int -> Int]
    <2>. HIDE DEF Add, n
    <2>. QED  BY <1>3
  <1>. HIDE DEF n, Add, step
  <1>6. I = Rec(I)
    <2>1. PICK it \in [SUBSET (1 .. n) -> Int] : FoldsLeft(it, n, 0, step)
      <3>1. PICK V : V = Int
        OBVIOUS
      <3>2. PICK b \in V : b = 0
        BY <3>1
      <3>3. \E it \in [SUBSET (1 .. n) -> V] : FoldsLeft(it, n, b, step)
        <4>1. n \in Nat /\ step \in [(1 .. n) \X V -> V]
          BY <1>1, <1>5, <3>1
        <4>. QED  BY <4>1, LeftFoldExists
      <3>. QED  BY <3>1, <3>2, <3>3
    <2>2. ASSUME NEW r \in SUBSET (1 .. n)
          PROVE  it[r] = Rec(it)[r]
      <3>1. r # {} => Max(r) \in 1 .. n
        BY <1>1, MaxInside
      <3>2. it[r] = IF r = {} THEN 0 ELSE step[<<Max(r), it[r \ {Max(r)}]>>]
        BY <2>1 DEF FoldsLeft
      <3>. QED  BY <1>4, <3>1, <3>2
    <2>3. it = Rec(it)
      <3>1. Rec(it) = [r \in SUBSET (1 .. n) |-> Rec(it)[r]]
        OBVIOUS
      <3>2. it = [r \in SUBSET (1 .. n) |-> it[r]]
        OBVIOUS
      <3>. HIDE DEF Rec
      <3>. QED  BY <2>2, <3>1, <3>2
    <2>. QED  BY <2>3 DEF I
  <1>. HIDE DEF I
  <1>7. \A r \in SUBSET (1 .. n) : I[r] = IF r = {} THEN 0 ELSE Add(Max(r), I[r \ {Max(r)}])
    BY <1>6
  <1>. HIDE DEF Rec
  <1>8. FoldsWithin(I, n, Int, 0, step)
    <2>1. I[{}] = 0
      <3>1. {} \in SUBSET (1 .. n)
        OBVIOUS
      <3>. QED  BY <1>7, <3>1
    <2>2. ASSUME NEW r \in SUBSET (1 .. n), r # {}, I[r \ {Max(r)}] \in Int
          PROVE  I[r] = step[<<Max(r), I[r \ {Max(r)}]>>]
      <3>1. Max(r) \in 1 .. n
        BY <1>1, <2>2, MaxInside
      <3>. QED  BY <1>4, <1>7, <2>2, <3>1
    <2>. QED  BY <2>1, <2>2 DEF FoldsWithin
  <1>9. PICK f : Passes(f, n, Int, 0, step, I[1 .. n])
    <2>1. PICK V : V = Int
      OBVIOUS
    <2>2. PICK b \in V : b = 0
      BY <2>1
    <2>3. \E f : Passes(f, n, V, b, step, I[1 .. n])
      <3>1. n \in Nat /\ step \in [(1 .. n) \X V -> V] /\ FoldsWithin(I, n, V, b, step)
        BY <1>1, <1>5, <1>8, <2>1, <2>2
      <3>. QED  BY <3>1, FoldPrefixes
    <2>. QED  BY <2>1, <2>2, <2>3
  <1>10. /\ f \in [0 .. n -> Int] /\ f[0] = 0 /\ f[n] = I[1 .. n]
         /\ \A k \in 1 .. n : f[k] = f[k - 1] + values[k]
    <2>1. \A k \in 1 .. n : k - 1 \in 0 .. n
      BY <1>1
    <2>. QED  BY <1>4, <1>9, <2>1 DEF Passes, Add
  <1>. QED  BY <1>2, <1>10 DEF SumsOf, n

\* A sum of numbers is one.
LEMMA TotalType ==
    ASSUME NEW values \in Seq(Int)
    PROVE  Total(values) \in Int
  <1>1. PICK f : SumsOf(f, values) /\ Total(values) = f[Len(values)]
    BY TotalInSteps
  <1>2. Len(values) \in 0 .. Len(values)
    BY LenProperties
  <1>. QED  BY <1>1, <1>2 DEF SumsOf

\* xs, ys are sequences of as many numbers.
Paired(xs, ys) == xs \in Seq(Int) /\ ys \in Seq(Int) /\ Len(xs) = Len(ys)

Products(xs, ys) == [i \in DOMAIN xs |-> xs[i] * ys[i]]

\* n times the sum of the products of two columns, less the product of their sums:
\* n squared times their covariance.
Covariance(xs, ys) == Len(xs) * Total(Products(xs, ys)) - Total(xs) * Total(ys)

\* The arithmetic of one more row (the sums before it are given).
LEMMA OneMoreRow ==
    ASSUME NEW k \in Int, NEW x \in Int, NEW y \in Int,
           NEW sx \in Int, NEW sy \in Int, NEW sxy \in Int
    PROVE  k * (sxy + x * y) - (sx + x) * (sy + y)
             = ((k - 1) * sxy - sx * sy) + (sxy + (k - 1) * (x * y) - sx * y - x * sy)
  OBVIOUS

\* The arithmetic of one more term in what a row adds.
LEMMA OneMoreTerm ==
    ASSUME NEW j \in Int, NEW x \in Int, NEW y \in Int, NEW a \in Int, NEW b \in Int,
           NEW sx \in Int, NEW sy \in Int, NEW sxy \in Int
    PROVE  (sxy + a * b) + j * (x * y) - (sx + a) * y - x * (sy + b)
             = (sxy + (j - 1) * (x * y) - sx * y - x * sy) + (a - x) * (b - y)
  OBVIOUS

\* The sign of a product.
LEMMA SignOfProduct ==
    ASSUME NEW a \in Int, NEW b \in Int
    PROVE  /\ a <= 0 /\ 0 <= b => a * b <= 0
           /\ 0 <= a /\ b <= 0 => a * b <= 0
           /\ 0 <= a * a
           /\ a * a = 0 => a = 0
  OBVIOUS

\* The product of what two rows differ by in each column.
Differences(xs, ys, i, j) == (xs[i] - xs[j]) * (ys[i] - ys[j])

\* The products all have one sign, 1 or -1, or are 0.
Related(xs, ys, sign) ==
    \A i, j \in 1 .. Len(xs) : 0 <= sign * Differences(xs, ys, i, j)

\* Then so has the covariance, and it is 0 only when each of them is.
SignOfCovariance(xs, ys, sign) ==
    /\ 0 <= sign * Covariance(xs, ys)
    /\ Covariance(xs, ys) = 0 =>
          \A i, j \in 1 .. Len(xs) : Differences(xs, ys, i, j) = 0

\* A sum with one more term that has the same sign.
LEMMA SameSign ==
    ASSUME NEW sign \in {1, -1}, NEW a \in Int, NEW b \in Int, 0 <= sign * a, 0 <= sign * b
    PROVE  0 <= sign * (a + b) /\ (a + b = 0 => a = 0 /\ b = 0)
  <1>1. CASE sign = 1
    BY <1>1
  <1>2. CASE sign = -1
    BY <1>2
  <1>. QED  BY <1>1, <1>2

\* The products of two columns of numbers.
LEMMA ProductsType ==
    ASSUME NEW xs, NEW ys, Paired(xs, ys)
    PROVE  /\ Products(xs, ys) \in Seq(Int) /\ Len(Products(xs, ys)) = Len(xs)
           /\ \A i \in 1 .. Len(xs) : Products(xs, ys)[i] = xs[i] * ys[i]
  <1>. DEFINE n == Len(xs)
  <1>1. /\ n \in Nat /\ DOMAIN xs = 1 .. n
        /\ \A i \in 1 .. n : xs[i] \in Int /\ ys[i] \in Int
    BY LenProperties, ElementOfSeq DEF Paired
  <1>2. Products(xs, ys) = [i \in 1 .. n |-> xs[i] * ys[i]]
    BY <1>1 DEF Products
  <1>3. \A i \in 1 .. n : xs[i] * ys[i] \in Int
    BY <1>1
  <1>4. Products(xs, ys) \in [1 .. n -> Int]
    BY <1>2, <1>3
  <1>. QED  BY <1>1, <1>2, <1>4, SeqDef, LenProperties

\* The sums of two columns and of their products.
Summed(xs, ys, fx, fy, fp) == SumsOf(fx, xs) /\ SumsOf(fy, ys) /\ SumsOf(fp, Products(xs, ys))

\* The same of the first k rows.
SignUpTo(xs, ys, fx, fy, fp, sign, k) ==
    /\ 0 <= sign * (k * fp[k] - fx[k] * fy[k])
    /\ k * fp[k] - fx[k] * fy[k] = 0 => \A i, j \in 1 .. k : Differences(xs, ys, i, j) = 0

\* Two columns have the sums.
LEMMA SumsExist ==
    ASSUME NEW xs, NEW ys, Paired(xs, ys)
    PROVE  \E fx, fy, fp : /\ Summed(xs, ys, fx, fy, fp)
                           /\ Total(xs) = fx[Len(xs)] /\ Total(ys) = fy[Len(xs)]
                           /\ Total(Products(xs, ys)) = fp[Len(xs)]
  <1>1. /\ xs \in Seq(Int) /\ ys \in Seq(Int)
        /\ Products(xs, ys) \in Seq(Int) /\ Len(Products(xs, ys)) = Len(xs)
    BY ProductsType DEF Paired
  <1>2. PICK fx : SumsOf(fx, xs) /\ Total(xs) = fx[Len(xs)]
    BY <1>1, TotalInSteps
  <1>3. PICK fy : SumsOf(fy, ys) /\ Total(ys) = fy[Len(ys)]
    BY <1>1, TotalInSteps
  <1>4. PICK fp : SumsOf(fp, Products(xs, ys)) /\ Total(Products(xs, ys)) = fp[Len(Products(xs, ys))]
    BY <1>1, TotalInSteps
  <1>. QED  BY <1>1, <1>2, <1>3, <1>4 DEF Summed, Paired

\* The covariance of two columns adds up the products of the differences of their rows.
LEMMA CovarianceUpTo ==
    ASSUME NEW xs, NEW ys, Paired(xs, ys), NEW sign \in {1, -1}, Related(xs, ys, sign),
           NEW fx, NEW fy, NEW fp, Summed(xs, ys, fx, fy, fp)
    PROVE  \A k \in 0 .. Len(xs) : SignUpTo(xs, ys, fx, fy, fp, sign, k)
  <1>. DEFINE n == Len(xs)
              ps == Products(xs, ys)
              P(i, j) == Differences(xs, ys, i, j)
  <1>1. /\ n \in Nat /\ xs \in Seq(Int) /\ ys \in Seq(Int) /\ Len(ys) = n
        /\ DOMAIN xs = 1 .. n
        /\ \A i \in 1 .. n : xs[i] \in Int /\ ys[i] \in Int
    BY LenProperties, ElementOfSeq DEF Paired
  <1>2. ps \in Seq(Int) /\ Len(ps) = n /\ \A i \in 1 .. n : ps[i] = xs[i] * ys[i]
    BY <1>1, ProductsType
  <1>3. SumsOf(fx, xs) /\ SumsOf(fy, ys) /\ SumsOf(fp, ps)
    BY DEF Summed
  <1>4. \A i, j \in 1 .. n : P(i, j) \in Int /\ 0 <= sign * P(i, j)
    <2>1. \A i, j \in 1 .. n : P(i, j) \in Int
      BY <1>1 DEF Differences
    <2>2. \A i, j \in 1 .. n : 0 <= sign * P(i, j)
      <3>. HIDE DEF P, ps, n
      <3>. QED  BY DEF Related, P, n
    <2>. HIDE DEF P, n
    <2>. QED  BY <2>1, <2>2
  <1>. DEFINE D(k) == k * fp[k] - fx[k] * fy[k]
              E(k, j) == fp[j] + j * (xs[k] * ys[k]) - fx[j] * ys[k] - xs[k] * fy[j]
  <1>5. /\ \A k \in 0 .. n : fx[k] \in Int /\ fy[k] \in Int /\ fp[k] \in Int
        /\ fx[0] = 0 /\ fy[0] = 0 /\ fp[0] = 0
        /\ \A k \in 1 .. n : /\ k - 1 \in 0 .. n
                             /\ fx[k] = fx[k - 1] + xs[k] /\ fy[k] = fy[k - 1] + ys[k]
                             /\ fp[k] = fp[k - 1] + xs[k] * ys[k]
    <2>1. \A k \in 1 .. n : k - 1 \in 0 .. n
      BY <1>1
    <2>2. /\ fx \in [0 .. n -> Int] /\ fx[0] = 0
          /\ \A k \in 1 .. n : fx[k] = fx[k - 1] + xs[k]
      BY <1>3 DEF SumsOf
    <2>3. /\ fy \in [0 .. n -> Int] /\ fy[0] = 0
          /\ \A k \in 1 .. n : fy[k] = fy[k - 1] + ys[k]
      BY <1>1, <1>3 DEF SumsOf
    <2>4. /\ fp \in [0 .. n -> Int] /\ fp[0] = 0
          /\ \A k \in 1 .. n : fp[k] = fp[k - 1] + xs[k] * ys[k]
      <3>1. /\ fp \in [0 .. n -> Int] /\ fp[0] = 0
            /\ \A k \in 1 .. n : fp[k] = fp[k - 1] + ps[k]
        <4>. HIDE DEF ps, n
        <4>. QED  BY <1>2, <1>3 DEF SumsOf
      <3>. HIDE DEF ps, n
      <3>. QED  BY <1>2, <3>1
    <2>. HIDE DEF n
    <2>. QED  BY <2>1, <2>2, <2>3, <2>4
  <1>6. ASSUME NEW k \in 1 .. n
        PROVE  /\ D(k) = D(k - 1) + E(k, k - 1)
               /\ E(k, 0) = 0
               /\ \A j \in 1 .. n : E(k, j) = E(k, j - 1) + P(j, k)
    <2>. HIDE DEF n
    <2>1. k \in Int /\ xs[k] \in Int /\ ys[k] \in Int
      BY <1>1
    <2>2. D(k) = D(k - 1) + E(k, k - 1)
      <3>1. fx[k - 1] \in Int /\ fy[k - 1] \in Int /\ fp[k - 1] \in Int
        BY <1>5
      <3>2. D(k) = k * (fp[k - 1] + xs[k] * ys[k]) - (fx[k - 1] + xs[k]) * (fy[k - 1] + ys[k])
        BY <1>5
      <3>. QED  BY <2>1, <3>1, <3>2, OneMoreRow
    <2>3. E(k, 0) = 0
      BY <1>5, <2>1
    <2>4. ASSUME NEW j \in 1 .. n
          PROVE  E(k, j) = E(k, j - 1) + P(j, k)
      <3>1. /\ fx[j - 1] \in Int /\ fy[j - 1] \in Int /\ fp[j - 1] \in Int
            /\ j \in Int /\ xs[j] \in Int /\ ys[j] \in Int
        BY <1>1, <1>5
      <3>2. E(k, j) = (fp[j - 1] + xs[j] * ys[j]) + j * (xs[k] * ys[k])
                        - (fx[j - 1] + xs[j]) * ys[k] - xs[k] * (fy[j - 1] + ys[j])
        BY <1>5
      <3>3. E(k, j) = E(k, j - 1) + (xs[j] - xs[k]) * (ys[j] - ys[k])
        BY <2>1, <3>1, <3>2, OneMoreTerm
      <3>. QED  BY <3>3 DEF Differences
    <2>. QED  BY <2>2, <2>3, <2>4
  <1>7. \A k \in 0 .. n : D(k) \in Int /\ \A j \in 0 .. n : k \in 1 .. n => E(k, j) \in Int
    <2>. HIDE DEF n
    <2>1. ASSUME NEW k \in 0 .. n
          PROVE  D(k) \in Int
      BY <1>1, <1>5
    <2>2. ASSUME NEW k \in 1 .. n, NEW j \in 0 .. n
          PROVE  E(k, j) \in Int
      <3>1. /\ fp[j] \in Int /\ fx[j] \in Int /\ fy[j] \in Int /\ j \in Int
            /\ xs[k] \in Int /\ ys[k] \in Int
        BY <1>1, <1>5
      <3>. QED  BY <3>1
    <2>. HIDE DEF D, E
    <2>. QED  BY <2>1, <2>2
  <1>8. D(0) = 0
    BY <1>5
  <1>9. \A i, j \in 1 .. n : P(i, j) = P(j, i) /\ P(i, i) = 0
    BY <1>1 DEF Differences
  <1>. HIDE DEF D, E, P, ps, n
  <1>10. ASSUME NEW k \in 1 .. n
         PROVE  /\ 0 <= sign * E(k, k - 1)
                /\ E(k, k - 1) = 0 => \A i \in 1 .. k - 1 : P(i, k) = 0
    <2>. DEFINE T == {j \in 0 .. n : /\ 0 <= sign * E(k, j)
                                     /\ E(k, j) = 0 => \A i \in 1 .. j : P(i, k) = 0}
    <2>1. 0 \in T
      BY <1>1, <1>6
    <2>2. ASSUME NEW j \in 1 .. n, j - 1 \in T
          PROVE  j \in T
      <3>1. /\ E(k, j - 1) \in Int /\ P(j, k) \in Int
            /\ 0 <= sign * E(k, j - 1) /\ 0 <= sign * P(j, k)
            /\ E(k, j) = E(k, j - 1) + P(j, k)
        BY <1>4, <1>5, <1>6, <1>7, <2>2
      <3>2. 0 <= sign * E(k, j) /\ (E(k, j) = 0 => E(k, j - 1) = 0 /\ P(j, k) = 0)
        BY <3>1, SameSign
      <3>3. ASSUME E(k, j) = 0, NEW i \in 1 .. j
            PROVE  P(i, k) = 0
        <4>1. i = j \/ i \in 1 .. (j - 1)
          OBVIOUS
        <4>. QED  BY <2>2, <3>2, <3>3, <4>1
      <3>. QED  BY <3>2, <3>3
    <2>3. k - 1 \in T
      <3>1. \A j \in 0 .. n : j \in T
        <4>. HIDE DEF T
        <4>. QED  BY <1>1, <2>1, <2>2, UpTo
      <3>2. k - 1 \in 0 .. n
        BY <1>5
      <3>. HIDE DEF T
      <3>. QED  BY <3>1, <3>2
    <2>. QED  BY <2>3
  <1>. DEFINE T == {k \in 0 .. n : /\ 0 <= sign * D(k)
                                   /\ D(k) = 0 => \A i, j \in 1 .. k : P(i, j) = 0}
  <1>11. 0 \in T
    BY <1>1, <1>8
  <1>12. ASSUME NEW k \in 1 .. n, k - 1 \in T
         PROVE  k \in T
    <2>1. /\ D(k - 1) \in Int /\ E(k, k - 1) \in Int
          /\ 0 <= sign * D(k - 1) /\ 0 <= sign * E(k, k - 1)
          /\ D(k) = D(k - 1) + E(k, k - 1)
      BY <1>5, <1>6, <1>7, <1>10, <1>12
    <2>2. 0 <= sign * D(k) /\ (D(k) = 0 => D(k - 1) = 0 /\ E(k, k - 1) = 0)
      BY <2>1, SameSign
    <2>3. ASSUME D(k) = 0, NEW i \in 1 .. k, NEW j \in 1 .. k
          PROVE  P(i, j) = 0
      <3>1. (i = k \/ i \in 1 .. k - 1) /\ (j = k \/ j \in 1 .. k - 1) /\ i \in 1 .. n /\ j \in 1 .. n
        BY <1>1
      <3>2. \A a, b \in 1 .. k - 1 : P(a, b) = 0 /\ P(a, k) = 0
        BY <1>10, <1>12, <2>2, <2>3
      <3>. QED  BY <1>9, <3>1, <3>2
    <2>. QED  BY <2>2, <2>3
  <1>13. \A k \in 0 .. n : k \in T
    <2>. HIDE DEF T
    <2>. QED  BY <1>1, <1>11, <1>12, UpTo
  <1>. QED  BY <1>13 DEF SignUpTo, n, D, P

\* The same of all the rows.
LEMMA CovarianceSign ==
    ASSUME NEW xs, NEW ys, Paired(xs, ys), NEW sign \in {1, -1}, Related(xs, ys, sign)
    PROVE  SignOfCovariance(xs, ys, sign)
  <1>1. PICK fx, fy, fp : /\ Summed(xs, ys, fx, fy, fp)
                          /\ Total(xs) = fx[Len(xs)] /\ Total(ys) = fy[Len(xs)]
                          /\ Total(Products(xs, ys)) = fp[Len(xs)]
    BY SumsExist
  <1>2. Len(xs) \in Nat
    BY LenProperties DEF Paired
  <1>3. SignUpTo(xs, ys, fx, fy, fp, sign, Len(xs))
    BY <1>1, <1>2, CovarianceUpTo
  <1>. QED  BY <1>1, <1>3 DEF SignUpTo, SignOfCovariance, Covariance

\* The columns of a window: the time and the heap of its snapshots, their pauses
\* and their threads.
Times(w) == Column(w, LAMBDA s : s.ts)
Heaps(w) == Column(w, LAMBDA s : s.heap)
Pauses(w) == Column(w, LAMBDA s : s.gc)
Threads(w) == Column(w, LAMBDA s : s.threads)

\* The snapshots of a window have times, pauses and threads, and those with a heap
\* size a heap.
LEMMA ColumnsType ==
    ASSUME NEW w \in Seq(Snapshot)
    PROVE  /\ Times(w) \in Seq(Int) /\ Len(Times(w)) = Len(w)
           /\ Pauses(w) \in Seq(Int) /\ Len(Pauses(w)) = Len(w)
           /\ Threads(w) \in Seq(Int) /\ Len(Threads(w)) = Len(w)
           /\ \A i \in 1 .. Len(w) : /\ Times(w)[i] = w[i].ts /\ Pauses(w)[i] = w[i].gc
                                     /\ Threads(w)[i] = w[i].threads
           /\ (\A i \in 1 .. Len(w) : w[i].heap # NoMax) =>
                 /\ Heaps(w) \in Seq(Int) /\ Len(Heaps(w)) = Len(w)
                 /\ \A i \in 1 .. Len(w) : Heaps(w)[i] = w[i].heap
  <1>. DEFINE n == Len(w)
  <1>1. n \in Nat /\ DOMAIN w = 1 .. n /\ \A i \in 1 .. n : w[i] \in Snapshot
    BY LenProperties, ElementOfSeq
  <1>2. \A i \in 1 .. n : w[i].ts \in Int /\ w[i].gc \in Int /\ w[i].threads \in Int
    <2>. HIDE DEF n
    <2>. QED  BY <1>1 DEF Snapshot
  <1>3. /\ Times(w) = [i \in 1 .. n |-> w[i].ts] /\ Pauses(w) = [i \in 1 .. n |-> w[i].gc]
        /\ Threads(w) = [i \in 1 .. n |-> w[i].threads]
        /\ Heaps(w) = [i \in 1 .. n |-> w[i].heap]
    BY <1>1 DEF Times, Heaps, Pauses, Threads, Column
  <1>4. (\A i \in 1 .. n : w[i].heap # NoMax) => \A i \in 1 .. n : w[i].heap \in Int
    <2>1. HeapMax \in Nat
      BY JvmAssumption
    <2>. HIDE DEF n
    <2>. QED  BY <1>1, <2>1 DEF Snapshot
  <1>5. \A f : f \in [1 .. n -> Int] => f \in Seq(Int) /\ Len(f) = n
    BY <1>1, SeqDef, LenProperties
  <1>. QED
    <2>. HIDE DEF n
    <2>1. Times(w) \in [1 .. n -> Int]
      BY <1>2, <1>3
    <2>2. Pauses(w) \in [1 .. n -> Int]
      BY <1>2, <1>3
    <2>3. Threads(w) \in [1 .. n -> Int]
      BY <1>2, <1>3
    <2>4. (\A i \in 1 .. n : w[i].heap # NoMax) => Heaps(w) \in [1 .. n -> Int]
      BY <1>3, <1>4
    <2>5. \A i \in 1 .. n : /\ Times(w)[i] = w[i].ts /\ Pauses(w)[i] = w[i].gc
                            /\ Threads(w)[i] = w[i].threads /\ Heaps(w)[i] = w[i].heap
      BY <1>3
    <2>6. n = Len(w)
      BY DEF n
    <2>. QED  BY <1>5, <2>1, <2>2, <2>3, <2>4, <2>5, <2>6

\* The slope of _check_oom is the covariance of heap and time over that of time
\* with itself.
LEMMA FitIsCovariance ==
    ASSUME NEW w \in Seq(Snapshot), \A i \in 1 .. Len(w) : w[i].heap # NoMax
    PROVE  /\ Fit(w).num = Covariance(Times(w), Heaps(w))
           /\ Fit(w).den = Covariance(Times(w), Times(w))
  <1>1. DOMAIN w = 1 .. Len(w)
    BY LenProperties
  <1>2. /\ Len(Times(w)) = Len(w) /\ DOMAIN Times(w) = 1 .. Len(w)
        /\ \A i \in 1 .. Len(w) : Times(w)[i] = w[i].ts /\ Heaps(w)[i] = w[i].heap
    BY ColumnsType, LenProperties
  <1>3. Products(Times(w), Heaps(w)) = [i \in DOMAIN w |-> w[i].ts * w[i].heap]
    BY <1>1, <1>2 DEF Products
  <1>4. Products(Times(w), Times(w)) = [i \in DOMAIN w |-> w[i].ts * w[i].ts]
    BY <1>1, <1>2 DEF Products
  <1>5. /\ Products(Times(w), Heaps(w)) = Column(w, LAMBDA s : s.ts * s.heap)
        /\ Products(Times(w), Times(w)) = Column(w, LAMBDA s : s.ts * s.ts)
    BY <1>3, <1>4 DEF Column
  <1>6. Fit(w) = [num |-> Len(w) * Total(Column(w, LAMBDA s : s.ts * s.heap))
                              - Total(Column(w, LAMBDA s : s.ts)) * Total(Column(w, LAMBDA s : s.heap)),
                  den |-> Len(w) * Total(Column(w, LAMBDA s : s.ts * s.ts))
                              - Total(Column(w, LAMBDA s : s.ts)) * Total(Column(w, LAMBDA s : s.ts))]
    BY DEF Fit
  <1>7. Fit(w) = [num |-> Covariance(Times(w), Heaps(w)), den |-> Covariance(Times(w), Times(w))]
    <2>1. /\ Times(w) = Column(w, LAMBDA s : s.ts)
          /\ Heaps(w) = Column(w, LAMBDA s : s.heap)
      BY DEF Times, Heaps
    <2>. QED  BY <1>2, <1>5, <1>6, <2>1, Zenon DEF Covariance
  <1>. QED  BY <1>7

\* Where the heap grows over time, or all the snapshots bear one time.
HeapGrew(m) ==
    \/ \E i, j \in DOMAIN m : m[i].ts < m[j].ts /\ m[i].heap < m[j].heap
    \/ \A i, j \in DOMAIN m : m[i].ts = m[j].ts

\* The snapshots with a heap size.
LEMMA MeasuredType ==
    ASSUME NEW w \in Seq(Snapshot)
    PROVE  Measured(w) \in Seq(Snapshot) /\ \A i \in 1 .. Len(Measured(w)) : Measured(w)[i].heap # NoMax
  <1>. DEFINE wanted == {s \in ToSet(w) : s.heap # NoMax}
  <1>1. /\ Select(w, wanted) \in Seq(Snapshot)
        /\ SelectedFrom(Select(w, wanted), w, wanted, Len(w))
    <2>. HIDE DEF wanted
    <2>. QED  BY SelectProperties
  <1>2. \A i \in 1 .. Len(Select(w, wanted)) : Select(w, wanted)[i] \in wanted
    <2>. HIDE DEF wanted
    <2>. QED  BY <1>1 DEF SelectedFrom
  <1>3. Measured(w) = Select(w, wanted)
    BY DEF Measured
  <1>. HIDE DEF wanted
  <1>4. \A s \in wanted : s.heap # NoMax
    BY DEF wanted
  <1>. QED  BY <1>1, <1>2, <1>3, <1>4

\* A rising line through heap and time passes two snapshots of which the later has
\* the larger heap: were there none, heap and time would not vary together.
LEMMA RisingLine ==
    ASSUME NEW m \in Seq(Snapshot), \A i \in 1 .. Len(m) : m[i].heap # NoMax,
           Fit(m).den # 0 => 0 < Fit(m).num
    PROVE  HeapGrew(m)
  <1>. DEFINE n == Len(m)
  <1>1. n \in Nat /\ DOMAIN m = 1 .. n
    BY LenProperties
  <1>2. /\ Times(m) \in Seq(Int) /\ Heaps(m) \in Seq(Int)
        /\ Len(Times(m)) = n /\ Len(Heaps(m)) = n
        /\ \A i \in 1 .. n : Times(m)[i] = m[i].ts /\ Heaps(m)[i] = m[i].heap
    BY ColumnsType
  <1>3. \A i \in 1 .. n : m[i].ts \in Int /\ m[i].heap \in Int
    BY <1>2, ElementOfSeq
  <1>4. /\ Fit(m).num = Covariance(Times(m), Heaps(m))
        /\ Fit(m).den = Covariance(Times(m), Times(m))
    BY FitIsCovariance
  <1>. HIDE DEF n
  <1>5. Paired(Times(m), Heaps(m)) /\ Paired(Times(m), Times(m))
    BY <1>2 DEF Paired
  <1>6. \A i, j \in 1 .. n :
            /\ Differences(Times(m), Times(m), i, j) = (m[i].ts - m[j].ts) * (m[i].ts - m[j].ts)
            /\ Differences(Times(m), Heaps(m), i, j) = (m[i].ts - m[j].ts) * (m[i].heap - m[j].heap)
    BY <1>2 DEF Differences
  <1>7. CASE Fit(m).den = 0
    <2>1. Related(Times(m), Times(m), 1)
      <3>1. ASSUME NEW i \in 1 .. n, NEW j \in 1 .. n
            PROVE  0 <= 1 * Differences(Times(m), Times(m), i, j)
        <4>1. m[i].ts - m[j].ts \in Int
          BY <1>3
        <4>2. 0 <= (m[i].ts - m[j].ts) * (m[i].ts - m[j].ts)
          BY <4>1, SignOfProduct
        <4>3. (m[i].ts - m[j].ts) * (m[i].ts - m[j].ts) \in Int
          BY <4>1
        <4>. QED  BY <1>6, <4>2, <4>3
      <3>. QED  BY <1>2, <3>1 DEF Related
    <2>2. SignOfCovariance(Times(m), Times(m), 1)
      BY <1>5, <2>1, CovarianceSign
    <2>3. ASSUME NEW i \in 1 .. n, NEW j \in 1 .. n
          PROVE  m[i].ts = m[j].ts
      <3>1. (m[i].ts - m[j].ts) * (m[i].ts - m[j].ts) = 0
        BY <1>2, <1>4, <1>6, <1>7, <2>2 DEF SignOfCovariance
      <3>2. m[i].ts - m[j].ts \in Int /\ m[i].ts \in Int /\ m[j].ts \in Int
        BY <1>3
      <3>3. m[i].ts - m[j].ts = 0
        BY <3>1, <3>2, SignOfProduct
      <3>. QED  BY <3>2, <3>3
    <2>. QED  BY <1>1, <2>3 DEF HeapGrew
  <1>8. CASE Fit(m).den # 0
    <2>1. SUFFICES ASSUME \A i, j \in 1 .. n : ~ (m[i].ts < m[j].ts /\ m[i].heap < m[j].heap)
                   PROVE  FALSE
      BY <1>1 DEF HeapGrew
    <2>2. Related(Times(m), Heaps(m), -1)
      <3>1. ASSUME NEW i \in 1 .. n, NEW j \in 1 .. n
            PROVE  0 <= (-1) * Differences(Times(m), Heaps(m), i, j)
        <4>. DEFINE a == m[i].ts - m[j].ts
                    b == m[i].heap - m[j].heap
        <4>1. a \in Int /\ b \in Int
          BY <1>3
        <4>2. (a <= 0 /\ 0 <= b) \/ (0 <= a /\ b <= 0)
          <5>1. /\ m[i].ts \in Int /\ m[j].ts \in Int /\ m[i].heap \in Int /\ m[j].heap \in Int
                /\ ~ (m[i].ts < m[j].ts /\ m[i].heap < m[j].heap)
                /\ ~ (m[j].ts < m[i].ts /\ m[j].heap < m[i].heap)
            BY <1>3, <2>1
          <5>. QED  BY <5>1
        <4>3. Differences(Times(m), Heaps(m), i, j) = a * b
          BY <1>6
        <4>. HIDE DEF a, b
        <4>4. a * b <= 0 /\ a * b \in Int
          BY <4>1, <4>2, SignOfProduct
        <4>. QED  BY <4>3, <4>4
      <3>. QED  BY <1>2, <3>1 DEF Related
    <2>3. SignOfCovariance(Times(m), Heaps(m), -1)
      BY <1>5, <2>2, CovarianceSign
    <2>4. 0 <= (-1) * Fit(m).num /\ 0 < Fit(m).num
      BY <1>4, <1>8, <2>3 DEF SignOfCovariance
    <2>5. Fit(m).num \in Int
      <3>1. Total(Times(m)) \in Int /\ Total(Heaps(m)) \in Int /\ Total(Products(Times(m), Heaps(m))) \in Int
        BY <1>2, <1>5, ProductsType, TotalType
      <3>. QED  BY <1>1, <1>2, <1>4, <3>1 DEF Covariance
    <2>. QED  BY <2>4, <2>5
  <1>. QED  BY <1>7, <1>8

\* _check_oom warns of no memory running out where the heap did not grow.
LEMMA OomHasGrowth ==
    ASSUME NEW w \in Seq(Snapshot), OomPredicted(w)
    PROVE  HeapGrew(Measured(w))
  <1>1. Fit(Measured(w)).den # 0 => 0 < Fit(Measured(w)).num
    BY DEF OomPredicted
  <1>. QED  BY <1>1, MeasuredType, RisingLine

\* How far one more value x lies from the mean of m others, in their deviation
\* (sum and squares are the sums of those others and of their squares).
LEMMA OneAmongMany ==
    ASSUME NEW m \in Int, NEW x \in Int, NEW sum \in Int, NEW squares \in Int
    PROVE  m * ((m + 1) * (squares + x * x) - (sum + x) * (sum + x))
             = (m * x - sum) * (m * x - sum) + (m + 1) * (m * squares - sum * sum)
  OBVIOUS

\* Comparing multiples of a positive number.
LEMMA SmallerMultiple ==
    ASSUME NEW a \in Int, NEW b \in Int, NEW s \in Int, 0 < s, a * s <= b * s
    PROVE  a <= b
  <1>. SUFFICES ASSUME b < a PROVE FALSE
    OBVIOUS
  <1>1. PICK d \in Int : d = a - b
    OBVIOUS
  <1>2. 0 < d /\ a = b + d
    BY <1>1
  <1>3. a * s = b * s + d * s
    BY <1>2
  <1>4. 0 < d * s
    BY <1>2
  <1>. QED  BY <1>3, <1>4

\* _check_gc_storm finds no storm by deviation among so few snapshots that none can
\* lie that far from their mean (Samuelson's inequality).
LEMMA StormHasMany ==
    ASSUME NEW w \in Seq(Snapshot), w # << >>, GcStorm(w)
    PROVE  Last(w).gc > GcOverhead \/ Len(w) > StormSquared
  <1>. DEFINE p == Pauses(w)
              n == Len(w)
              ps == Products(p, p)
              x == p[n]
              spread == n * Total(ps) - Total(p) * Total(p)
              off == n * x - Total(p)
  <1>1. n \in Nat /\ n >= 1 /\ DOMAIN w = 1 .. n
    BY LenProperties, EmptySeq
  <1>2. /\ p \in Seq(Int) /\ Len(p) = n /\ DOMAIN p = 1 .. n
        /\ \A i \in 1 .. n : p[i] \in Int /\ p[i] = w[i].gc
    BY ColumnsType, LenProperties, ElementOfSeq
  <1>3. Paired(p, p)
    BY <1>2 DEF Paired
  <1>4. PICK fx, fy, fp : /\ Summed(p, p, fx, fy, fp)
                          /\ Total(p) = fx[n] /\ Total(p) = fy[n] /\ Total(ps) = fp[n]
    <2>. HIDE DEF p, n
    <2>. QED  BY <1>2, <1>3, SumsExist
  <1>5. Last(p) = x /\ Last(w).gc = x
    <2>1. n \in 1 .. n
      BY <1>1
    <2>2. x = w[n].gc
      <3>. HIDE DEF n, p
      <3>. QED  BY <1>2, <2>1
    <2>3. Last(p) = p[n]
      <3>. HIDE DEF n, p
      <3>. QED  BY <1>2 DEF Last
    <2>. QED  BY <2>2, <2>3 DEF Last
  <1>6. spread > 0 /\ (off * off >= StormSquared * spread \/ x > GcOverhead)
    <2>1. ps = [i \in DOMAIN w |-> p[i] * p[i]]
      <3>. HIDE DEF p, n
      <3>. QED  BY <1>1, <1>2 DEF Products
    <2>2. p = Column(w, LAMBDA s : s.gc)
      BY DEF Pauses
    <2>3. /\ n * Total([i \in DOMAIN w |-> p[i] * p[i]]) - Total(p) * Total(p) > 0
          /\ \/ (n * Last(p) - Total(p)) * (n * Last(p) - Total(p))
                   >= StormSquared * (n * Total([i \in DOMAIN w |-> p[i] * p[i]]) - Total(p) * Total(p))
             \/ Last(p) > GcOverhead
      <3>. HIDE DEF p
      <3>. QED  BY <2>2, Zenon DEF GcStorm, n
    <2>. HIDE DEF p, n, ps
    <2>. QED  BY <1>5, <2>1, <2>3
  <1>7. Related(p, p, 1)
    <2>1. ASSUME NEW i \in 1 .. n, NEW j \in 1 .. n
          PROVE  0 <= 1 * Differences(p, p, i, j)
      <3>. HIDE DEF p, n
      <3>1. p[i] - p[j] \in Int
        BY <1>2
      <3>2. 0 <= (p[i] - p[j]) * (p[i] - p[j]) /\ (p[i] - p[j]) * (p[i] - p[j]) \in Int
        BY <3>1, SignOfProduct
      <3>. QED  BY <3>2 DEF Differences
    <2>. HIDE DEF p, n
    <2>. QED  BY <1>2, <2>1 DEF Related
  <1>. DEFINE m == n - 1
  <1>8. m \in 0 .. n /\ m \in Int /\ n = m + 1
    BY <1>1
  <1>9. SignUpTo(p, p, fx, fy, fp, 1, m)
    <2>. HIDE DEF p, n, m
    <2>. QED  BY <1>2, <1>3, <1>4, <1>7, <1>8, CovarianceUpTo
  <1>. HIDE DEF m
  <1>10. /\ fx[m] \in Int /\ fp[m] \in Int /\ fy[m] = fx[m] /\ x \in Int
         /\ Total(p) = fx[m] + x /\ Total(ps) = fp[m] + x * x
    <2>. HIDE DEF p, n
    <2>1. /\ fx \in [0 .. n -> Int] /\ fx[n] = fx[n - 1] + p[n]
          /\ fy \in [0 .. n -> Int] /\ fy[n] = fy[n - 1] + p[n]
      <3>1. SumsOf(fx, p) /\ SumsOf(fy, p)
        BY <1>4 DEF Summed
      <3>2. n \in 1 .. n /\ Len(p) = n
        BY <1>1, <1>2
      <3>. QED  BY <3>1, <3>2 DEF SumsOf
    <2>2. fp \in [0 .. n -> Int] /\ fp[n] = fp[n - 1] + p[n] * p[n]
      <3>1. ps \in Seq(Int) /\ Len(ps) = n /\ \A i \in 1 .. n : ps[i] = p[i] * p[i]
        BY <1>2, <1>3, ProductsType
      <3>. HIDE DEF ps
      <3>2. SumsOf(fp, ps)
        BY <1>4 DEF Summed, ps
      <3>3. n \in 1 .. n
        BY <1>1
      <3>. QED  BY <3>1, <3>2, <3>3 DEF SumsOf
    <2>3. n - 1 = m /\ p[n] \in Int
      BY <1>1, <1>2, <1>8
    <2>4. fx[m] \in Int /\ fp[m] \in Int /\ fy[m] \in Int
      BY <1>8, <2>1, <2>2
    <2>. HIDE DEF ps
    <2>5. fx[n] = fx[m] + x /\ fy[n] = fy[m] + x /\ fp[n] = fp[m] + x * x
      BY <2>1, <2>2, <2>3
    <2>6. x \in Int
      BY <2>3
    <2>. HIDE DEF x
    <2>7. Total(p) = fx[m] + x /\ Total(p) = fy[m] + x /\ Total(ps) = fp[m] + x * x
      BY <1>4, <2>5
    <2>8. fy[m] = fx[m]
      BY <2>4, <2>6, <2>7
    <2>. QED  BY <2>4, <2>6, <2>7, <2>8
  <1>11. 0 <= m * fp[m] - fx[m] * fx[m]
    <2>1. m * fp[m] - fx[m] * fx[m] \in Int
      BY <1>8, <1>10
    <2>. QED  BY <1>9, <1>10, <2>1 DEF SignUpTo
  <1>12. spread \in Int /\ off = m * x - fx[m] /\ off * off <= m * spread
    <2>. DEFINE rest == m * fp[m] - fx[m] * fx[m]
    <2>. HIDE DEF p, ps, n
    <2>1. spread = (m + 1) * (fp[m] + x * x) - (fx[m] + x) * (fx[m] + x)
      BY <1>8, <1>10
    <2>2. off = m * x - fx[m]
      <3>1. off = (m + 1) * x - (fx[m] + x)
        BY <1>8, <1>10
      <3>2. PICK sum \in Int : sum = fx[m]
        BY <1>10
      <3>. HIDE DEF off, x
      <3>3. (m + 1) * x - (sum + x) = m * x - sum
        BY <1>8, <1>10
      <3>. QED  BY <3>1, <3>2, <3>3
    <2>3. m * spread = off * off + (m + 1) * rest
      <3>. HIDE DEF spread, off, x
      <3>1. PICK sum \in Int, squares \in Int : sum = fx[m] /\ squares = fp[m]
        BY <1>10
      <3>2. m * ((m + 1) * (squares + x * x) - (sum + x) * (sum + x))
               = (m * x - sum) * (m * x - sum) + (m + 1) * (m * squares - sum * sum)
        BY <1>8, <1>10, OneAmongMany
      <3>. QED  BY <2>1, <2>2, <3>1, <3>2
    <2>4. 0 <= (m + 1) * rest /\ (m + 1) * rest \in Int
      <3>1. rest \in Int /\ 0 <= rest /\ m + 1 \in Int /\ 0 <= m + 1
        BY <1>8, <1>10, <1>11, <1>1
      <3>. HIDE DEF rest
      <3>. QED  BY <3>1
    <2>5. spread \in Int /\ off \in Int
      <3>. HIDE DEF spread, off, x
      <3>. QED  BY <1>8, <1>10, <2>1, <2>2
    <2>6. off * off \in Int
      <3>. HIDE DEF off
      <3>. QED  BY <2>5
    <2>. HIDE DEF spread, off, rest, x
    <2>. QED  BY <2>2, <2>3, <2>4, <2>5, <2>6
  <1>. HIDE DEF p, ps, n, x, spread, off
  <1>13. CASE off * off >= StormSquared * spread
    <2>1. StormSquared \in Int
      BY JvmAssumption
    <2>2. off \in Int
      BY <1>8, <1>10, <1>12
    <2>3. StormSquared * spread <= m * spread
      <3>1. off * off \in Int /\ StormSquared * spread \in Int /\ m * spread \in Int
        BY <1>8, <1>12, <2>1, <2>2
      <3>. QED  BY <1>12, <1>13, <3>1
    <2>4. StormSquared <= m
      BY <1>6, <1>8, <1>12, <2>1, <2>3, SmallerMultiple
    <2>. QED  BY <1>8, <2>1, <2>4 DEF n
  <1>14. CASE x > GcOverhead
    BY <1>5, <1>14
  <1>. QED  BY <1>6, <1>13, <1>14

\* _check_thread_leak finds no leak where the threads never went up.
LEMMA LeakHasRise ==
    ASSUME NEW w \in Seq(Snapshot), ThreadLeak(w)
    PROVE  \E i, j \in DOMAIN w : i < j /\ w[i].threads < w[j].threads
  <1>. DEFINE n == Len(w)
              half == n \div 2
              counts == Threads(w)
              recent == SubSeq(counts, half + 1, n)
              Up == {i \in 1 .. Len(recent) - 1 : recent[i] < recent[i + 1]}
  <1>1. /\ n \in Nat /\ DOMAIN w = 1 .. n
        /\ counts \in Seq(Int) /\ Len(counts) = n
        /\ \A i \in 1 .. n : counts[i] \in Int /\ counts[i] = w[i].threads
    BY ColumnsType, LenProperties, ElementOfSeq
  <1>2. half \in Nat /\ half <= n
    <2>. HIDE DEF n
    <2>. QED  BY <1>1
  <1>3. Len(recent) > 1 /\ 10 * Cardinality(Up) >= 7 * (Len(recent) - 1)
    <2>1. counts = Column(w, LAMBDA s : s.threads)
      BY DEF Threads
    <2>. HIDE DEF counts
    <2>. QED  BY <2>1, Zenon DEF ThreadLeak, recent, half, n, Up
  <1>. HIDE DEF half
  <1>4. /\ Len(recent) \in Nat /\ (Len(recent) > 1 => Len(recent) = n - half)
        /\ \A i \in 1 .. n - half : recent[i] = counts[half + i]
    <2>. HIDE DEF counts, n
    <2>1. \A i \in half + 1 .. n : counts[i] \in Int
      BY <1>1, <1>2
    <2>2. half + 1 \in Int /\ n \in Int
      BY <1>1, <1>2
    <2>3. /\ Len(recent) = IF half + 1 <= n THEN n - (half + 1) + 1 ELSE 0
          /\ \A i \in 1 .. n - (half + 1) + 1 : recent[i] = counts[(half + 1) + i - 1]
      BY <2>1, <2>2, SubSeqProperties
    <2>4. n - (half + 1) + 1 = n - half /\ \A i \in Int : (half + 1) + i - 1 = half + i
      BY <1>1, <1>2
    <2>. HIDE DEF recent
    <2>5. \A i \in 1 .. n - half : i \in 1 .. n - (half + 1) + 1 /\ i \in Int
      BY <2>4
    <2>6. \A i \in 1 .. n - half : recent[i] = counts[half + i]
      BY <2>3, <2>4, <2>5
    <2>7. Len(recent) = (IF half + 1 <= n THEN n - half ELSE 0) /\ n - half \in Nat
      BY <1>1, <1>2, <2>3, <2>4
    <2>. QED  BY <2>6, <2>7
  <1>5. Up # {}
    <2>. HIDE DEF recent, Up
    <2>1. SUFFICES ASSUME Up = {} PROVE FALSE
      OBVIOUS
    <2>2. Cardinality(Up) = 0
      BY <2>1, FS_EmptySet
    <2>. QED  BY <1>3, <1>4, <2>2
  <1>6. PICK i \in 1 .. Len(recent) - 1 : recent[i] < recent[i + 1]
    BY <1>5
  <1>. HIDE DEF recent, counts, n, Up
  <1>7. /\ half + i \in 1 .. n /\ half + (i + 1) \in 1 .. n /\ half + i < half + (i + 1)
        /\ recent[i] = counts[half + i] /\ recent[i + 1] = counts[half + (i + 1)]
    <2>1. i \in 1 .. n - half /\ i + 1 \in 1 .. n - half
      BY <1>1, <1>2, <1>3, <1>4
    <2>2. recent[i] = counts[half + i] /\ recent[i + 1] = counts[half + (i + 1)]
      BY <1>4, <2>1
    <2>3. i \in Nat /\ i <= n - half /\ i + 1 <= n - half /\ 1 <= i
      BY <1>1, <1>2, <2>1
    <2>4. half + i \in 1 .. n /\ half + (i + 1) \in 1 .. n /\ half + i < half + (i + 1)
      BY <1>1, <1>2, <2>3
    <2>. QED  BY <2>2, <2>4
  <1>8. w[half + i].threads < w[half + (i + 1)].threads
    BY <1>1, <1>6, <1>7
  <1>. QED  BY <1>1, <1>7, <1>8

\* What is computed of a window is borne out by it.
Justified(w, found) ==
    /\ "jvm_heap_oom" \in ToSet(found) => HeapGrew(Measured(w))
    /\ "jvm_gc_storm" \in ToSet(found) => Last(w).gc > GcOverhead \/ Len(w) > StormSquared
    /\ "jvm_thread_leak" \in ToSet(found) =>
          \E i, j \in DOMAIN w : i < j /\ w[i].threads < w[j].threads

\* The signals of a window.
LEMMA SignalsType ==
    ASSUME NEW w \in Seq(Snapshot), w # << >>
    PROVE  ComputeSignals(w) \in Seq(Signal) /\ Justified(w, ComputeSignals(w))
  <1>. DEFINE Given(on, s) == IF on THEN <<s>> ELSE << >>
              a == Given(OomPredicted(w), "jvm_heap_oom")
              b == Given(GcStorm(w), "jvm_gc_storm")
              c == Given(ThreadLeak(w), "jvm_thread_leak")
  <1>1. ComputeSignals(w) = (a \o b) \o c
    BY DEF ComputeSignals
  <1>2. a \in Seq(Signal) /\ b \in Seq(Signal) /\ c \in Seq(Signal)
    <2>1. /\ <<"jvm_heap_oom">> \in Seq(Signal) /\ <<"jvm_gc_storm">> \in Seq(Signal)
          /\ <<"jvm_thread_leak">> \in Seq(Signal) /\ << >> \in Seq(Signal)
      BY DEF Signal
    <2>. QED  BY <2>1
  <1>3. /\ \A s : s \in ToSet(a) => s = "jvm_heap_oom" /\ OomPredicted(w)
        /\ \A s : s \in ToSet(b) => s = "jvm_gc_storm" /\ GcStorm(w)
        /\ \A s : s \in ToSet(c) => s = "jvm_thread_leak" /\ ThreadLeak(w)
    BY DEF ToSet
  <1>. HIDE DEF a, b, c
  <1>4. ComputeSignals(w) \in Seq(Signal)
    BY <1>1, <1>2, ConcatProperties
  <1>5. \A s : s \in ToSet(ComputeSignals(w)) => s \in ToSet(a) \/ s \in ToSet(b) \/ s \in ToSet(c)
    <2>1. PICK d \in Seq(Signal) : d = a \o b
      BY <1>2, ConcatProperties
    <2>2. ToSet(a \o b) = ToSet(a) \cup ToSet(b)
      BY <1>2, ToSetConcat
    <2>3. ToSet(d \o c) = ToSet(d) \cup ToSet(c)
      BY <1>2, ToSetConcat
    <2>4. ToSet(ComputeSignals(w)) = (ToSet(a) \cup ToSet(b)) \cup ToSet(c)
      BY <1>1, <2>1, <2>2, <2>3, Zenon
    <2>. QED  BY <2>4, Zenon
  <1>6. "jvm_heap_oom" \in ToSet(ComputeSignals(w)) => OomPredicted(w)
    BY <1>3, <1>5
  <1>7. "jvm_gc_storm" \in ToSet(ComputeSignals(w)) => GcStorm(w)
    BY <1>3, <1>5
  <1>8. "jvm_thread_leak" \in ToSet(ComputeSignals(w)) => ThreadLeak(w)
    BY <1>3, <1>5
  <1>. QED  BY <1>4, <1>6, <1>7, <1>8, OomHasGrowth, StormHasMany, LeakHasRise DEF Justified

\* The inductive invariant: besides, the alerts are those of the service whose turn
\* it is.
JvmInv == JvmTypeOK /\ SignalsJustified /\ (alerts # << >> => queue # << >>)

\* Nothing is alerted before the first cycle.
LEMMA JvmInitInv == JvmInit => JvmInv
  <1>. SUFFICES ASSUME JvmInit PROVE JvmInv
    OBVIOUS
  <1>1. /\ jvmNow = 0 /\ jvmPosts = 0 /\ known = << >> /\ queue = << >>
        /\ window = << >> /\ alerts = << >>
        /\ \A s \in JvmService : series[s] = << >>
        /\ series \in [JvmService -> Seq(Snapshot)]
    BY DEF JvmInit
  <1>2. JvmMaxNow \in Nat /\ JvmMaxPosts \in Nat /\ MaxLen \in Nat
    BY JvmAssumption
  <1>3. ToSet(<< >>) = {} /\ Len(<< >>) = 0
    BY DEF ToSet
  <1>4. JvmTypeOK
    BY <1>1, <1>2, <1>3 DEF JvmTypeOK
  <1>5. SignalsJustified
    BY <1>1 DEF SignalsJustified
  <1>. QED  BY <1>1, <1>4, <1>5 DEF JvmInv

\* What a snapshot posted becomes in its service's ring.
LEMMA PostedType ==
    ASSUME JvmTypeOK, NEW s \in JvmService, NEW snapshot \in Snapshot,
           NEW ring, ring = (LET longer == Append(series[s], snapshot)
                             IN  IF Len(longer) > MaxLen THEN Tail(longer) ELSE longer)
    PROVE  ring \in Seq(Snapshot) /\ Len(ring) <= MaxLen /\ ring # << >>
  <1>. DEFINE longer == Append(series[s], snapshot)
  <1>1. /\ longer \in Seq(Snapshot) /\ Len(longer) = Len(series[s]) + 1
        /\ Len(series[s]) \in Nat /\ Len(series[s]) <= MaxLen /\ MaxLen \in Nat \ {0}
    BY JvmAssumption, AppendProperties, LenProperties DEF JvmTypeOK
  <1>2. ring = IF Len(longer) > MaxLen THEN Tail(longer) ELSE longer
    OBVIOUS
  <1>. HIDE DEF longer
  <1>3. longer # << >>
    BY <1>1, EmptySeq
  <1>4. Tail(longer) \in Seq(Snapshot) /\ Len(Tail(longer)) = Len(series[s])
    BY <1>1, <1>3, HeadTailProperties
  <1>5. CASE Len(longer) > MaxLen
    <2>1. Len(Tail(longer)) = MaxLen /\ ring = Tail(longer)
      BY <1>1, <1>2, <1>4, <1>5
    <2>. QED  BY <1>1, <1>4, <2>1, EmptySeq
  <1>6. CASE ~ (Len(longer) > MaxLen)
    <2>1. ring = longer
      BY <1>2, <1>6
    <2>2. Len(longer) <= MaxLen
      BY <1>1, <1>6
    <2>. QED  BY <1>1, <1>3, <2>1, <2>2
  <1>. QED  BY <1>5, <1>6

\* A post appends to the ring of one service, seen now if it was not before.
LEMMA UpdateKeeps ==
    ASSUME JvmInv, Update_jvm
    PROVE  JvmInv'
  <1>1. JvmTypeOK /\ SignalsJustified /\ (alerts # << >> => queue # << >>)
    BY DEF JvmInv
  <1>2. PICK s \in JvmService, sample \in Sample :
            LET snapshot == [heap |-> sample.heap, gc |-> sample.gc,
                             threads |-> sample.threads, ts |-> jvmNow - sample.late]
                longer == Append(series[s], snapshot)
            IN  /\ series' = [series EXCEPT ![s] =
                                 IF Len(longer) > MaxLen THEN Tail(longer) ELSE longer]
                /\ known' = IF s \in ToSet(known) THEN known ELSE Append(known, s)
    BY DEF Update_jvm
  <1>3. UNCHANGED <<jvmNow, queue, window, alerts>> /\ jvmPosts' = jvmPosts + 1 /\ jvmPosts < JvmMaxPosts
    BY DEF Update_jvm
  <1>. DEFINE snapshot == [heap |-> sample.heap, gc |-> sample.gc,
                           threads |-> sample.threads, ts |-> jvmNow - sample.late]
              ring == LET longer == Append(series[s], snapshot)
                      IN  IF Len(longer) > MaxLen THEN Tail(longer) ELSE longer
  <1>4. snapshot \in Snapshot
    <2>1. jvmNow \in Int /\ sample.late \in Nat /\ sample.gc \in Nat /\ sample.threads \in Nat
      BY <1>1, JvmAssumption DEF JvmTypeOK
    <2>2. sample.heap \in Nat \cup {NoMax}
      BY JvmAssumption
    <2>. QED  BY <2>1, <2>2 DEF Snapshot
  <1>5. /\ series' = [series EXCEPT ![s] = ring]
        /\ known' = IF s \in ToSet(known) THEN known ELSE Append(known, s)
    BY <1>2
  <1>. HIDE DEF snapshot
  <1>6. ring \in Seq(Snapshot) /\ Len(ring) <= MaxLen /\ ring # << >>
    <2>1. PICK posted \in Snapshot : posted = snapshot
      BY <1>4
    <2>2. PICK r : r = ring
      OBVIOUS
    <2>3. r \in Seq(Snapshot) /\ Len(r) <= MaxLen /\ r # << >>
      BY <1>1, <2>1, <2>2, PostedType
    <2>. HIDE DEF ring
    <2>. QED  BY <2>2, <2>3
  <1>. HIDE DEF ring
  <1>7. /\ series' \in [JvmService -> Seq(Snapshot)]
        /\ series'[s] = ring
        /\ \A o \in JvmService : o # s => series'[o] = series[o]
    BY <1>1, <1>5, <1>6 DEF JvmTypeOK
  <1>8. known' \in Seq(JvmService) /\ ToSet(known') = ToSet(known) \cup {s}
    <2>1. known \in Seq(JvmService)
      BY <1>1 DEF JvmTypeOK
    <2>2. CASE s \in ToSet(known)
      BY <1>5, <2>1, <2>2
    <2>3. CASE s \notin ToSet(known)
      <3>1. /\ Append(known, s) \in Seq(JvmService) /\ Len(Append(known, s)) = Len(known) + 1
            /\ \A i \in 1 .. Len(known) : Append(known, s)[i] = known[i]
            /\ Append(known, s)[Len(known) + 1] = s /\ Len(known) \in Nat
        BY <2>1, AppendProperties, LenProperties
      <3>2. known' = Append(known, s)
        BY <1>5, <2>3
      <3>3. DOMAIN known = 1 .. Len(known) /\ DOMAIN known' = 1 .. Len(known) + 1
        BY <2>1, <3>1, <3>2, LenProperties
      <3>4. \A i : i \in 1 .. Len(known) + 1 <=> i \in 1 .. Len(known) \/ i = Len(known) + 1
        BY <3>1
      <3>5. \A x : x \in ToSet(known') <=> x \in ToSet(known) \/ x = s
        BY <3>1, <3>2, <3>3, <3>4 DEF ToSet
      <3>. QED  BY <3>1, <3>2, <3>5
    <2>. QED  BY <2>2, <2>3
  <1>9. /\ \A o \in JvmService : Len(series'[o]) <= MaxLen
        /\ \A o \in JvmService : o \in ToSet(known') <=> series'[o] # << >>
    BY <1>1, <1>6, <1>7, <1>8 DEF JvmTypeOK
  <1>10. queue' \in Seq(ToSet(known'))
    <2>1. PICK before, after : before = ToSet(known) /\ after = ToSet(known')
      OBVIOUS
    <2>2. queue \in Seq(before) /\ before \subseteq after
      BY <1>1, <1>8, <2>1 DEF JvmTypeOK
    <2>. QED  BY <1>3, <2>1, <2>2, SeqMonotonic
  <1>11. jvmPosts' \in 0 .. JvmMaxPosts
    BY <1>1, <1>3, JvmAssumption DEF JvmTypeOK
  <1>12. JvmTypeOK'
    BY <1>1, <1>3, <1>7, <1>8, <1>9, <1>10, <1>11 DEF JvmTypeOK
  <1>13. SignalsJustified'
    BY <1>1, <1>3 DEF SignalsJustified
  <1>. QED  BY <1>1, <1>3, <1>12, <1>13 DEF JvmInv

\* Signals are computed of one window, which is kept with the alerts they give.
LEMMA ReadKeeps ==
    ASSUME JvmInv, ReadWindow
    PROVE  JvmInv'
  <1>1. JvmTypeOK /\ queue # << >> /\ alerts = << >>
    BY DEF JvmInv, ReadWindow
  <1>2. /\ queue \in Seq(ToSet(known)) /\ Head(queue) \in ToSet(known)
        /\ Tail(queue) \in Seq(ToSet(known)) /\ Head(queue) \in JvmService
    <2>1. PICK K : K = ToSet(known)
      OBVIOUS
    <2>2. queue \in Seq(K)
      BY <1>1, <2>1 DEF JvmTypeOK
    <2>3. Head(queue) \in K /\ Tail(queue) \in Seq(K)
      BY <1>1, <2>2, HeadTailProperties
    <2>4. K \subseteq JvmService
      BY <1>1, <2>1, ElementsFinite DEF JvmTypeOK
    <2>. QED  BY <2>1, <2>2, <2>3, <2>4
  <1>3. PICK w : w = GetSnapshots(Head(queue))
    OBVIOUS
  <1>4. w \in Seq(Snapshot)
    <2>1. PICK s \in JvmService : s = Head(queue)
      BY <1>2
    <2>2. series[s] \in Seq(Snapshot)
      BY <1>1 DEF JvmTypeOK
    <2>3. PICK ring \in Seq(Snapshot) : ring = series[s]
      BY <2>2
    <2>4. PICK wanted : wanted = {snap \in ToSet(ring) : snap.ts >= jvmNow - JvmWindow}
      OBVIOUS
    <2>5. w = Select(ring, wanted)
      BY <1>3, <2>1, <2>3, <2>4 DEF GetSnapshots
    <2>. QED  BY <2>5, SelectProperties
  <1>. DEFINE skipped == Len(w) < MinSnapshots
              raises == ~ skipped /\ Raises(w)
              found == IF skipped \/ raises THEN << >> ELSE ComputeSignals(w)
  <1>5. /\ alerts' = found
        /\ window' = IF found = << >> THEN << >> ELSE w
        /\ queue' = IF raises THEN << >> ELSE IF found = << >> THEN Tail(queue) ELSE queue
        /\ UNCHANGED <<jvmNow, series, known, jvmPosts>>
    BY <1>3 DEF ReadWindow
  <1>. HIDE DEF raises
  <1>6. ASSUME found # << >>
        PROVE  /\ Len(w) >= MinSnapshots /\ w # << >>
               /\ found \in Seq(Signal) /\ Justified(w, found)
    <2>1. found = ComputeSignals(w) /\ ~ skipped
      BY <1>6
    <2>2. Len(w) \in Nat /\ MinSnapshots \in Nat \ {0}
      BY <1>4, JvmAssumption, LenProperties
    <2>3. Len(w) >= MinSnapshots /\ w # << >>
      BY <1>4, <2>1, <2>2, EmptySeq
    <2>. QED  BY <1>4, <2>1, <2>3, SignalsType
  <1>. HIDE DEF found
  <1>7. /\ alerts' \in Seq(Signal) /\ window' \in Seq(Snapshot)
        /\ (window' = << >>) = (alerts' = << >>)
    <2>1. CASE found = << >>
      <3>1. alerts' = << >> /\ window' = << >>
        BY <1>5, <2>1
      <3>. QED  BY <3>1
    <2>2. CASE found # << >>
      <3>1. alerts' = found /\ window' = w
        BY <1>5, <2>2
      <3>. QED  BY <1>4, <1>6, <2>2, <3>1
    <2>. QED  BY <2>1, <2>2
  <1>8. queue' \in Seq(ToSet(known)')
    BY <1>2, <1>5
  <1>9. JvmTypeOK'
    BY <1>1, <1>5, <1>7, <1>8 DEF JvmTypeOK
  <1>10. SignalsJustified'
    <2>1. SUFFICES ASSUME alerts' # << >> PROVE SignalsJustified'
      BY DEF SignalsJustified
    <2>2. window' = w /\ Len(w) >= MinSnapshots /\ Justified(w, alerts')
      BY <1>5, <1>6, <2>1
    <2>3. Justified(window', alerts')
      BY <2>2
    <2>. QED  BY <2>2, <2>3 DEF SignalsJustified, Justified, HeapGrew
  <1>11. raises => found = << >>
    BY DEF found
  <1>12. alerts' # << >> => queue' # << >>
    BY <1>1, <1>5, <1>11
  <1>. QED  BY <1>9, <1>10, <1>12 DEF JvmInv

\* The invariant is inductive.
LEMMA JvmNextInv == JvmInv /\ [JvmNext]_jvmVars => JvmInv'
  <1>. SUFFICES ASSUME JvmInv, [JvmNext]_jvmVars PROVE JvmInv'
    OBVIOUS
  <1>1. JvmTypeOK /\ SignalsJustified /\ (alerts # << >> => queue # << >>)
    BY DEF JvmInv
  <1>2. CASE Update_jvm
    BY <1>2, UpdateKeeps
  <1>3. CASE JvmCycle
    <2>1. known # << >> /\ queue' = known /\ UNCHANGED <<jvmNow, series, known, window, alerts, jvmPosts>>
      BY <1>3 DEF JvmCycle
    <2>2. known \in Seq(ToSet(known))
      <3>1. known \in Seq(JvmService) /\ DOMAIN known = 1 .. Len(known) /\ Len(known) \in Nat
        BY <1>1, LenProperties DEF JvmTypeOK
      <3>2. known \in [1 .. Len(known) -> ToSet(known)]
        BY <3>1 DEF ToSet
      <3>. QED  BY <3>1, <3>2, SeqDef
    <2>3. queue' \in Seq(ToSet(known)')
      BY <2>1, <2>2
    <2>. QED  BY <1>1, <2>1, <2>3 DEF JvmInv, JvmTypeOK, SignalsJustified
  <1>4. CASE ReadWindow
    BY <1>4, ReadKeeps
  <1>5. CASE FireJvm
    <2>1. /\ alerts' = << >> /\ window' = << >> /\ queue' = Tail(queue)
          /\ UNCHANGED <<jvmNow, series, known, jvmPosts>>
      BY <1>5 DEF FireJvm
    <2>2. queue' \in Seq(ToSet(known)')
      <3>1. PICK K : K = ToSet(known)
        OBVIOUS
      <3>2. queue \in Seq(K) /\ queue # << >>
        BY <1>1, <1>5, <3>1 DEF JvmTypeOK, FireJvm
      <3>3. Tail(queue) \in Seq(K)
        BY <3>2, HeadTailProperties
      <3>. QED  BY <2>1, <3>1, <3>3
    <2>. QED  BY <1>1, <2>1, <2>2 DEF JvmInv, JvmTypeOK, SignalsJustified
  <1>6. CASE JvmTick
    <2>1. jvmNow < JvmMaxNow /\ jvmNow' = jvmNow + 1
          /\ UNCHANGED <<series, known, queue, window, alerts, jvmPosts>>
      BY <1>6 DEF JvmTick
    <2>2. jvmNow' \in 0 .. JvmMaxNow
      BY <1>1, <2>1, JvmAssumption DEF JvmTypeOK
    <2>. QED  BY <1>1, <2>1, <2>2 DEF JvmInv, JvmTypeOK, SignalsJustified
  <1>7. CASE UNCHANGED jvmVars
    BY <1>1, <1>7 DEF jvmVars, JvmInv, JvmTypeOK, SignalsJustified
  <1>. QED  BY <1>2, <1>3, <1>4, <1>5, <1>6, <1>7 DEF JvmNext
\* The window, the alerts and the rings are as the invariant says.
THEOREM JvmInvariantHolds == JvmSpec => []JvmInv
  BY JvmInitInv, JvmNextInv, PTL DEF JvmSpec

\* Type correctness for any services, samples, rings and windows.
THEOREM JvmTypeCorrect == JvmSpec => []JvmTypeOK
  <1>1. JvmInv => JvmTypeOK
    BY DEF JvmInv
  <1>. QED  BY JvmInvariantHolds, <1>1, PTL

\* Whatever arrives late, twice or without a heap size, an alert is borne out by the
\* snapshots it was computed from (jvm_analyzer.py:136-323).
THEOREM SignalsAreJustified == JvmSpec => []SignalsJustified
  <1>1. JvmInv => SignalsJustified
    BY DEF JvmInv
  <1>. QED  BY JvmInvariantHolds, <1>1, PTL
=============================================================================
