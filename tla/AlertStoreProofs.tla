--------------------------- MODULE AlertStoreProofs ---------------------------
(***************************************************************************)
(* Proofs about AlertStore, for any number of pods and anomalies and every *)
(* value of the bounds.                                                    *)
(***************************************************************************)
EXTENDS AlertStore, TLAPS

(* What the properties need beside the types: an alert known to a pod, a   *)
(* row or the table was created, a RESOLVED row was written by a pod that  *)
(* resolved the alert, and a pod that is down knows no alert.              *)
OnlyCreatedIsKnown ==
    /\ \A p \in Pod, a \in Alert : alerts[p][a] # "none" => a \in created
    /\ \A r \in inserting : r.alert \in created
    /\ \A a \in Alert : table[a] # "none" => a \in created

ResolvedRowsWereResolved ==
    /\ \A r \in inserting : r.state = "RESOLVED" => r.alert \in resolved
    /\ \A a \in Alert : table[a] = "RESOLVED" => a \in resolved

DownPodsForgot ==
    \A p \in Pod \ up : stale[p] = {} /\ \A a \in Alert : alerts[p][a] = "none"

IInv ==
    /\ TypeOK
    /\ OnlyCreatedIsKnown
    /\ ResolvedRowsWereResolved
    /\ DownPodsForgot

\* The invariant holds before any pod has started.
THEOREM InitIInv == Init => IInv
<1> SUFFICES ASSUME Init PROVE IInv
  OBVIOUS
<1>1. TypeOK
  BY BoundsAssumption DEF Init, TypeOK, State
<1>2. OnlyCreatedIsKnown
  BY DEF Init, OnlyCreatedIsKnown
<1>3. ResolvedRowsWereResolved
  BY DEF Init, ResolvedRowsWereResolved
<1>4. DownPodsForgot
  BY DEF Init, DownPodsForgot
<1>5. QED
  BY <1>1, <1>2, <1>3, <1>4 DEF IInv

\* Every step of a pod, of ClickHouse and of the clock keeps the invariant.
THEOREM NextIInv == IInv /\ [Next]_vars => IInv'
<1> SUFFICES ASSUME IInv, [Next]_vars PROVE IInv'
  OBVIOUS
<1> USE DEF IInv
<1>0. DownPodsForgot'
  <2> USE DEF TypeOK, DownPodsForgot
  <2>1. CASE \E p \in Pod : Stop(p)
    BY <2>1 DEF Stop
  <2>2. CASE \E p \in Pod : Start(p) \/ StartUnloaded(p)
    BY <2>2 DEF Start, StartUnloaded, Load
  <2>3. CASE \E p \in Pod : PurgeExpired(p)
    BY <2>3 DEF PurgeExpired, process
  <2>4. CASE \E p \in Pod, a \in Alert : ResolvedTtlPasses(p, a)
    <3>1. PICK p \in Pod, a \in Alert : ResolvedTtlPasses(p, a)
      BY <2>4
    <3>2. alerts[p][a] # "none"
      BY <3>1 DEF ResolvedTtlPasses, Expirable
    <3>3. p \in up
      BY <3>2
    <3>4. QED
      BY <3>1, <3>3 DEF ResolvedTtlPasses, process
  <2>5. CASE \E p \in Pod, k \in Anomaly : CreateAlert(p, k)
    BY <2>5 DEF CreateAlert, process
  <2>6. CASE \E p \in Pod, a \in Alert : Acknowledge(p, a) \/ Resolve(p, a)
    BY <2>6 DEF Acknowledge, Resolve, process
  <2>7. CASE \/ \E a \in Alert : FiredTtlPasses(a)
             \/ \E r \in inserting : InsertLands(r) \/ InsertFails(r)
             \/ UNCHANGED vars
    BY <2>7 DEF FiredTtlPasses, InsertLands, InsertFails, process, memory, vars
  <2>8. QED
    BY <2>1, <2>2, <2>3, <2>4, <2>5, <2>6, <2>7 DEF Next
<1>1. ASSUME NEW p \in Pod, NEW k \in Anomaly, CreateAlert(p, k)
      PROVE  IInv'
  <2> DEFINE a == <<p, k>>
  <2>1. a \in Alert
    BY DEF Alert
  <2>2. [pod |-> p, alert |-> a, state |-> "FIRING"] \in Row
    BY <2>1 DEF Row, State
  <2>3. TypeOK'
    <3>1. a \notin stale[p]
      BY <1>1, <2>1 DEF TypeOK, OnlyCreatedIsKnown, CreateAlert
    <3>2. alerts' \in [Pod -> [Alert -> State \cup {"none"}]]
      BY <1>1, <2>1 DEF TypeOK, CreateAlert, State
    <3>3. \A q \in Pod : \A b \in stale[q] : alerts'[q][b] = "RESOLVED"
      <4> SUFFICES ASSUME NEW q \in Pod, NEW b \in stale[q]
                   PROVE  alerts'[q][b] = "RESOLVED"
        OBVIOUS
      <4>1. b \in Alert /\ alerts[q][b] = "RESOLVED"
        BY DEF TypeOK
      <4>2. q # p \/ b # a
        BY <3>1
      <4>3. alerts'[q][b] = alerts[q][b]
        BY <1>1, <2>1, <4>1, <4>2 DEF TypeOK, CreateAlert
      <4>4. QED
        BY <4>1, <4>3
    <3>4. QED
      BY <1>1, <2>1, <2>2, <3>2, <3>3
         DEF TypeOK, CreateAlert, PersistRow, process, bounds
  <2>4. OnlyCreatedIsKnown'
    BY <1>1, <2>1 DEF TypeOK, OnlyCreatedIsKnown, CreateAlert, PersistRow
  <2>5. ResolvedRowsWereResolved'
    BY <1>1 DEF ResolvedRowsWereResolved, CreateAlert, PersistRow
  <2>6. QED
    BY <1>0, <2>3, <2>4, <2>5
<1>2. ASSUME NEW p \in Pod, NEW a \in Alert, Acknowledge(p, a)
      PROVE  IInv'
  <2>1. [pod |-> p, alert |-> a, state |-> "ACKNOWLEDGED"] \in Row
    BY DEF Row, State
  <2>2. TypeOK'
    BY <1>2, <2>1 DEF TypeOK, Acknowledge, Acknowledgeable, PersistRow,
                      process, history, bounds, State
  <2>3. OnlyCreatedIsKnown'
    BY <1>2 DEF TypeOK, OnlyCreatedIsKnown, Acknowledge, Acknowledgeable,
                PersistRow, history
  <2>4. ResolvedRowsWereResolved'
    BY <1>2 DEF ResolvedRowsWereResolved, Acknowledge, PersistRow, history
  <2>5. QED
    BY <1>0, <2>2, <2>3, <2>4
<1>3. ASSUME NEW p \in Pod, NEW a \in Alert, Resolve(p, a)
      PROVE  IInv'
  <2>1. [pod |-> p, alert |-> a, state |-> "RESOLVED"] \in Row
    BY DEF Row, State
  <2>2. a \in created
    BY <1>3 DEF OnlyCreatedIsKnown, Resolve, Active
  <2>3. TypeOK'
    BY <1>3, <2>1, <2>2 DEF TypeOK, Resolve, PersistRow, process, bounds, State, Active
  <2>4. OnlyCreatedIsKnown'
    BY <1>3, <2>2 DEF TypeOK, OnlyCreatedIsKnown, Resolve, PersistRow
  <2>5. ResolvedRowsWereResolved'
    BY <1>3 DEF ResolvedRowsWereResolved, Resolve, PersistRow
  <2>6. QED
    BY <1>0, <2>3, <2>4, <2>5
<1>4. ASSUME NEW p \in Pod, NEW a \in Alert, ResolvedTtlPasses(p, a)
      PROVE  IInv'
  <2>1. TypeOK'
    BY <1>4 DEF TypeOK, ResolvedTtlPasses, Expirable, process, history, bounds
  <2>2. QED
    BY <1>0, <1>4, <2>1 DEF OnlyCreatedIsKnown, ResolvedRowsWereResolved,
                      ResolvedTtlPasses, history
<1>5. ASSUME NEW p \in Pod, PurgeExpired(p)
      PROVE  IInv'
  <2>1. TypeOK'
    BY <1>5 DEF TypeOK, PurgeExpired, process, history, bounds
  <2>2. OnlyCreatedIsKnown'
    BY <1>5 DEF TypeOK, OnlyCreatedIsKnown, PurgeExpired, history
  <2>3. QED
    BY <1>0, <1>5, <2>1, <2>2 DEF ResolvedRowsWereResolved, PurgeExpired, history
<1>6. ASSUME NEW p \in Pod, Start(p)
      PROVE  IInv'
  <2>1. TypeOK'
    BY <1>6 DEF TypeOK, DownPodsForgot, Start, Load, ActiveRows, Active, State, history, bounds
  <2>2. OnlyCreatedIsKnown'
    BY <1>6 DEF TypeOK, OnlyCreatedIsKnown, Start, Load, ActiveRows, history
  <2>3. QED
    BY <1>0, <1>6, <2>1, <2>2 DEF ResolvedRowsWereResolved, Start, history
<1>7. ASSUME NEW p \in Pod, StartUnloaded(p)
      PROVE  IInv'
  <2>1. TypeOK'
    BY <1>7, BoundsAssumption DEF TypeOK, DownPodsForgot, StartUnloaded, Load, Fails, history
  <2>2. OnlyCreatedIsKnown'
    BY <1>7 DEF TypeOK, OnlyCreatedIsKnown, StartUnloaded, Load, history
  <2>3. QED
    BY <1>0, <1>7, <2>1, <2>2 DEF ResolvedRowsWereResolved, StartUnloaded, history
<1>8. ASSUME NEW p \in Pod, Stop(p)
      PROVE  IInv'
  <2>1. inserting' \subseteq inserting
    BY <1>8 DEF Stop
  <2>2. TypeOK'
    BY <1>8, <2>1 DEF TypeOK, Stop, history
  <2>3. OnlyCreatedIsKnown'
    BY <1>8, <2>1 DEF TypeOK, OnlyCreatedIsKnown, Stop, history
  <2>4. ResolvedRowsWereResolved'
    BY <1>8, <2>1 DEF ResolvedRowsWereResolved, Stop, history
  <2>5. QED
    BY <1>0, <2>2, <2>3, <2>4
<1>9. ASSUME NEW a \in Alert, FiredTtlPasses(a)
      PROVE  IInv'
  BY <1>0, <1>9 DEF TypeOK, OnlyCreatedIsKnown, ResolvedRowsWereResolved,
              FiredTtlPasses, process, memory, history, bounds
<1>10. ASSUME NEW r \in inserting, InsertLands(r)
       PROVE  IInv'
  <2>1. r \in Row /\ r.alert \in Alert /\ r.state \in State
    BY DEF TypeOK, Row
  <2>2. TypeOK'
    BY <1>10, <2>1 DEF TypeOK, InsertLands, process, memory, history, bounds
  <2>3. OnlyCreatedIsKnown'
    BY <1>10, <2>1 DEF TypeOK, OnlyCreatedIsKnown, InsertLands, memory, history
  <2>4. ResolvedRowsWereResolved'
    BY <1>10, <2>1 DEF TypeOK, ResolvedRowsWereResolved, InsertLands, history
  <2>5. QED
    BY <1>0, <2>2, <2>3, <2>4
<1>11. ASSUME NEW r \in inserting, InsertFails(r)
       PROVE  IInv'
  BY <1>0, <1>11 DEF TypeOK, OnlyCreatedIsKnown, ResolvedRowsWereResolved,
               InsertFails, Fails, process, memory, history
<1>12. CASE UNCHANGED vars
  BY <1>0, <1>12 DEF TypeOK, OnlyCreatedIsKnown, ResolvedRowsWereResolved,
               vars, process, memory, history, bounds
<1>13. QED
  BY <1>1, <1>2, <1>3, <1>4, <1>5, <1>6, <1>7, <1>8, <1>9, <1>10, <1>11, <1>12
     DEF Next

\* The inductive invariant holds in every reachable state.
THEOREM InvariantHolds == Spec => []IInv
  BY InitIInv, NextIInv, PTL DEF Spec

\* Type correctness, with the fact that only RESOLVED records await the purge.
THEOREM TypeCorrect == Spec => []TypeOK
<1>1. IInv => TypeOK
  BY DEF IInv
<1>2. QED
  BY <1>1, InvariantHolds, PTL

\* A record only moves from FIRING towards RESOLVED and out of the memory of a
\* running pod, and never comes back.
THEOREM AlertsMoveForward == Spec => LifecycleForward
<1> DEFINE Forward ==
      \A p \in up \cap up', a \in Alert :
        alerts'[p][a] # alerts[p][a] =>
            /\ <<alerts[p][a], alerts'[p][a]>> \in Steps
            /\ alerts[p][a] = "none" => a \notin created
<1>1. ASSUME IInv, [Next]_vars PROVE Forward
  <2> SUFFICES ASSUME NEW p \in up \cap up', NEW a \in Alert,
                      alerts'[p][a] # alerts[p][a]
               PROVE  /\ <<alerts[p][a], alerts'[p][a]>> \in Steps
                      /\ alerts[p][a] = "none" => a \notin created
    OBVIOUS
  <2> USE <1>1 DEF IInv, TypeOK
  <2>1. p \in Pod
    OBVIOUS
  <2>2. ASSUME NEW q \in Pod, NEW k \in Anomaly, CreateAlert(q, k)
        PROVE  /\ p = q
               /\ a = <<q, k>>
               /\ alerts[p][a] = "none"
               /\ alerts'[p][a] = "FIRING"
               /\ a \notin created
    BY <2>1, <2>2 DEF CreateAlert, OnlyCreatedIsKnown
  <2>3. ASSUME NEW q \in Pod, NEW b \in Alert, Acknowledge(q, b)
        PROVE  alerts[p][a] = "FIRING" /\ alerts'[p][a] = "ACKNOWLEDGED"
    BY <2>1, <2>3 DEF Acknowledge, Acknowledgeable
  <2>4. ASSUME NEW q \in Pod, NEW b \in Alert, Resolve(q, b)
        PROVE  alerts[p][a] \in Active /\ alerts'[p][a] = "RESOLVED"
    BY <2>1, <2>4 DEF Resolve
  <2>5. ASSUME NEW q \in Pod, PurgeExpired(q)
        PROVE  alerts[p][a] = "RESOLVED" /\ alerts'[p][a] = "none"
    BY <2>1, <2>5 DEF PurgeExpired
  <2>6. ASSUME NEW q \in Pod, Start(q) \/ StartUnloaded(q) \/ Stop(q)
        PROVE  FALSE
    BY <2>1, <2>6 DEF Start, StartUnloaded, Stop, Load
  <2>7. CASE \/ \E q \in Pod, b \in Alert : ResolvedTtlPasses(q, b)
             \/ \E b \in Alert : FiredTtlPasses(b)
             \/ \E r \in inserting : InsertLands(r) \/ InsertFails(r)
             \/ UNCHANGED vars
    BY <2>7 DEF ResolvedTtlPasses, FiredTtlPasses, InsertLands, InsertFails,
                memory, vars
  <2>8. QED
    BY <2>2, <2>3, <2>4, <2>5, <2>6, <2>7 DEF Next, Steps, Active
<1>2. IInv /\ [Next]_vars => [Forward]_vars
  BY <1>1
<1>3. QED
  BY <1>2, InvariantHolds, PTL DEF Spec, LifecycleForward

\* A preload brings back every written, unresolved, recent alert and only
\* active, recent ones, whatever happened to the inserts.
THEOREM ActiveAlertsSurvive == Spec => ActiveSurvivesRestart
<1> DEFINE Survives ==
      \A p \in up' \ up :
        LET back == {a \in Alert : alerts'[p][a] # "none"}
            due == {a \in Alert : table[a] # "none"} \ (resolved \cup aged)
        IN  /\ \A a \in back : alerts'[p][a] \in Active /\ a \notin aged
            /\ p \in preloaded' => due \subseteq back
<1>1. ASSUME IInv, [Next]_vars PROVE Survives
  <2> SUFFICES ASSUME NEW p \in up' \ up
               PROVE  /\ \A a \in Alert : alerts'[p][a] # "none" =>
                            alerts'[p][a] \in Active /\ a \notin aged
                      /\ p \in preloaded' =>
                            \A a \in Alert :
                               /\ table[a] # "none"
                               /\ a \notin resolved \cup aged
                               => alerts'[p][a] # "none"
    OBVIOUS
  <2> USE <1>1 DEF IInv
  <2>1. \E q \in Pod : Start(q) \/ StartUnloaded(q)
    BY DEF Next, CreateAlert, Acknowledge, Resolve, ResolvedTtlPasses,
           PurgeExpired, Stop, FiredTtlPasses, InsertLands, InsertFails,
           process, vars
  <2>2. PICK q \in Pod : Start(q) \/ StartUnloaded(q)
    BY <2>1
  <2>3. p = q
    BY <2>2 DEF Start, StartUnloaded
  <2>4. CASE Start(q)
    <3>1. \A a \in Alert :
             alerts'[p][a] = IF a \in ActiveRows THEN table[a] ELSE "none"
      BY <2>3, <2>4 DEF Start, Load, TypeOK
    <3>2. \A a \in Alert : table[a] # "none" /\ a \notin resolved \cup aged =>
             a \in ActiveRows
      BY DEF TypeOK, ResolvedRowsWereResolved, ActiveRows, Active, State
    <3>3. \A a \in Alert : a \in ActiveRows => table[a] \in Active /\ a \notin aged
      BY DEF ActiveRows
    <3>4. QED
      BY <3>1, <3>2, <3>3
  <2>5. CASE StartUnloaded(q)
    BY <2>3, <2>5 DEF StartUnloaded, Load, TypeOK
  <2>6. QED
    BY <2>2, <2>4, <2>5
<1>2. IInv /\ [Next]_vars => [Survives]_vars
  BY <1>1
<1>3. QED
  BY <1>2, InvariantHolds, PTL DEF Spec, ActiveSurvivesRestart
=============================================================================
