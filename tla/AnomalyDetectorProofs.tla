------------------------ MODULE AnomalyDetectorProofs ------------------------
(***************************************************************************)
(* Proofs about AnomalyDetector, for any sets of services, spans and       *)
(* types and any suppression window and cooldown.                          *)
(***************************************************************************)
EXTENDS AnomalyDetector, TLAPS

\* The detector has at most one POST outstanding, and only the stages that go
\* through to_insert one by one have something left to do.
OneAtATime ==
    /\ \A t, u \in posting : t[2] = "detector" /\ u[2] = "detector" => t = u
    /\ stage \in {"training", "sleeping", "inserting", "clustering"} => todo = {}

\* How far the cycle has come with its alert records.
AlertsSoFar ==
    /\ stage = "creating" => alerted \cup todo = toInsert
    /\ stage = "clustering" => alerted = toInsert
    /\ stage \in {"inserting", "firing", "delivering"} => alerted = {}

\* A suppression ends one window after the anomaly passed, and one that was
\* purged has ended.
WindowsFollowPasses ==
    \A a \in Anomaly :
        /\ suppressed[a] > 0 => /\ passed[a] >= 0
                                /\ suppressed[a] = passed[a] + SuppressFor
        /\ suppressed[a] = 0 /\ passed[a] >= 0 => now - passed[a] >= SuppressFor

\* _last_fired is when the key was last dispatched.
CooldownsFollowDispatches == lastFired = dispatched

\* Nothing is detected before the first training has ended.
NothingBeforeTraining == stage = "training" => toInsert = {}

IInv ==
    /\ TypeOK
    /\ RecordedIsAlertedAndClustered
    /\ OneAtATime
    /\ AlertsSoFar
    /\ WindowsFollowPasses
    /\ CooldownsFollowDispatches
    /\ NothingBeforeTraining

-----------------------------------------------------------------------------

\* What a firing changes of the alerter.
LEMMA FireProperties ==
    ASSUME IInv, NEW k \in AlertKey, NEW caller \in {"loop", "api", "detector"},
           Fire(k, caller)
    PROVE  /\ lastFired' \in [AlertKey -> -1 .. now]
           /\ dispatched' = lastFired'
           /\ posting' = posting \cup {<<k, caller>>}
           /\ posting' \subseteq AlertKey \X {"loop", "api", "detector"}
<1>1. now \in -1 .. now /\ now \in Nat
  BY TimesAssumption DEF IInv, TypeOK
<1>2. lastFired' = [lastFired EXCEPT ![k] = now]
  BY DEF Fire, Fired
<1>3. QED
  BY <1>1, <1>2 DEF Fire, IInv, TypeOK, CooldownsFollowDispatches

\* What the filter of a cycle lets through and leaves suppressed.
LEMMA SuppressedProperties ==
    ASSUME IInv, NEW found \in SUBSET Anomaly, Detect(found)
    PROVE  /\ suppressed' \in [Anomaly -> Nat]
           /\ passed' \in [Anomaly -> -1 .. now]
           /\ WindowsFollowPasses'
           /\ \A a \in Anomaly :
                /\ passed[a] >= 0 /\ now - passed[a] < SuppressFor => a \notin toInsert'
                /\ suppressed'[a] > now =>
                      passed'[a] >= 0 /\ now - passed'[a] < SuppressFor
<1>1. /\ now \in Nat \ {0} /\ SuppressFor \in Nat \ {0}
      /\ now' = now
      /\ toInsert' = Passing(found)
      /\ suppressed \in [Anomaly -> Nat]
      /\ passed \in [Anomaly -> -1 .. now]
  BY TimesAssumption DEF IInv, TypeOK, Detect
<1>2. ASSUME NEW a \in Anomaly
      PROVE  /\ suppressed'[a] = IF a \in Passing(found) THEN now + SuppressFor
                                 ELSE IF now > suppressed[a] THEN 0 ELSE suppressed[a]
             /\ passed'[a] = IF a \in Passing(found) THEN now ELSE passed[a]
             /\ suppressed'[a] \in Nat
             /\ passed'[a] \in -1 .. now
             /\ suppressed[a] \in Nat /\ passed[a] \in -1 .. now
  BY <1>1 DEF Detect, Suppressed
<1>3. /\ suppressed' \in [Anomaly -> Nat]
      /\ passed' \in [Anomaly -> -1 .. now]
  BY <1>2 DEF Detect, Suppressed
<1>4. ASSUME NEW a \in Anomaly
      PROVE  /\ a \in Passing(found) => now >= suppressed[a]
             /\ suppressed[a] > 0 => /\ passed[a] >= 0
                                     /\ suppressed[a] = passed[a] + SuppressFor
             /\ suppressed[a] = 0 /\ passed[a] >= 0 => now - passed[a] >= SuppressFor
  BY DEF Passing, IInv, WindowsFollowPasses
<1>5. WindowsFollowPasses'
  <2> SUFFICES ASSUME NEW a \in Anomaly
               PROVE  /\ suppressed'[a] > 0 => /\ passed'[a] >= 0
                                               /\ suppressed'[a] = passed'[a] + SuppressFor
                      /\ suppressed'[a] = 0 /\ passed'[a] >= 0 =>
                            now - passed'[a] >= SuppressFor
    BY <1>1 DEF WindowsFollowPasses
  <2>1. CASE a \in Passing(found)
    BY <1>1, <1>2, <2>1
  <2>2. CASE a \notin Passing(found)
    BY <1>1, <1>2, <1>4, <2>2
  <2>3. QED
    BY <2>1, <2>2
<1>6. ASSUME NEW a \in Anomaly
      PROVE  /\ passed[a] >= 0 /\ now - passed[a] < SuppressFor => a \notin toInsert'
             /\ suppressed'[a] > now =>
                   passed'[a] >= 0 /\ now - passed'[a] < SuppressFor
  <2>1. CASE a \in Passing(found)
    BY <1>1, <1>2, <1>4, <2>1
  <2>2. CASE a \notin Passing(found)
    BY <1>1, <1>2, <1>4, <2>2
  <2>3. QED
    BY <2>1, <2>2
<1>7. QED
  BY <1>3, <1>5, <1>6

-----------------------------------------------------------------------------

\* The invariant holds before the detector's first training.
THEOREM InitIInv == Init => IInv
<1> SUFFICES ASSUME Init PROVE IInv
  OBVIOUS
<1>1. TypeOK
  BY TimesAssumption, BoundsAssumption DEF Init, TypeOK, Stage
<1>2. QED
  BY <1>1, TimesAssumption
     DEF Init, IInv, RecordedIsAlertedAndClustered, OneAtATime, AlertsSoFar,
         WindowsFollowPasses, CooldownsFollowDispatches, NothingBeforeTraining

\* Every step preserves the invariant.
THEOREM NextIInv == IInv /\ [Next]_vars => IInv'
<1> SUFFICES ASSUME IInv, [Next]_vars
             PROVE  IInv'
  OBVIOUS
<1> USE DEF IInv
<1>0. /\ now \in Nat \ {0} /\ MaxTime \in Nat /\ SuppressFor \in Nat \ {0}
      /\ MaxCycles \in Nat /\ cycles \in 0 .. MaxCycles
  BY TimesAssumption, BoundsAssumption DEF TypeOK
<1>1. CASE Tick
  <2>1. /\ now' = now + 1 /\ now' \in 1 .. MaxTime
        /\ UNCHANGED <<stage, suppressed, toInsert, todo, alerter, alertsFired,
                       passed, alerted, clustered, cycles>>
    BY <1>0, <1>1 DEF Tick, TypeOK
  <2>2. TypeOK'
    <3>1. -1 .. now \subseteq -1 .. now'
      BY <1>0, <2>1
    <3>2. /\ lastFired' \in [AlertKey -> -1 .. now']
          /\ dispatched' \in [AlertKey -> -1 .. now']
          /\ passed' \in [Anomaly -> -1 .. now']
      BY <2>1, <3>1 DEF TypeOK, alerter
    <3>3. QED
      BY <2>1, <3>2 DEF TypeOK, alerter
  <2>3. WindowsFollowPasses'
    <3>1. \A a \in Anomaly : passed[a] \in -1 .. now
      BY DEF TypeOK
    <3>2. QED
      BY <1>0, <2>1, <3>1 DEF WindowsFollowPasses
  <2>4. QED
    BY <2>1, <2>2, <2>3
       DEF alerter, RecordedIsAlertedAndClustered, OneAtATime, AlertsSoFar,
           CooldownsFollowDispatches, NothingBeforeTraining
<1>2. CASE Trained \/ TrainingRaises
  <2>1. /\ stage = "training" /\ stage' \in {"sleeping", "dead"}
        /\ UNCHANGED <<now, suppressed, toInsert, todo, alerter, alertsFired,
                       passed, alerted, clustered, cycles>>
    BY <1>2 DEF Trained, TrainingRaises
  <2>2. TypeOK'
    BY <2>1 DEF TypeOK, alerter, Stage
  <2>3. QED
    BY <2>1, <2>2
       DEF alerter, RecordedIsAlertedAndClustered, OneAtATime, AlertsSoFar,
           WindowsFollowPasses, CooldownsFollowDispatches, NothingBeforeTraining
<1>3. ASSUME NEW found \in SUBSET Anomaly \ {{}}, Detect(found)
      PROVE  IInv'
  <2>1. /\ stage = "sleeping" /\ stage' \in {"sleeping", "inserting"}
        /\ todo = {}
        /\ toInsert' \subseteq Anomaly
        /\ stage' = "sleeping" => toInsert' = {}
        /\ alerted' = {} /\ clustered' = {}
        /\ cycles' \in 0 .. MaxCycles
        /\ UNCHANGED <<now, todo, alerter, alertsFired>>
    BY <1>0, <1>3 DEF Detect, Passing, OneAtATime
  <2>2. /\ suppressed' \in [Anomaly -> Nat]
        /\ passed' \in [Anomaly -> -1 .. now]
        /\ WindowsFollowPasses'
    BY <1>3, SuppressedProperties
  <2>3. TypeOK'
    BY <2>1, <2>2 DEF TypeOK, alerter, Stage
  <2>4. QED
    BY <2>1, <2>2, <2>3
       DEF alerter, RecordedIsAlertedAndClustered, OneAtATime, AlertsSoFar,
           CooldownsFollowDispatches, NothingBeforeTraining
<1>4. CASE Inserted
  <2>1. /\ stage = "inserting" /\ stage' = "firing"
        /\ todo' = toInsert
        /\ UNCHANGED <<now, suppressed, toInsert, alerter, alertsFired, passed,
                       alerted, clustered, cycles>>
    BY <1>4 DEF Inserted
  <2>2. TypeOK'
    BY <2>1 DEF TypeOK, alerter, Stage
  <2>3. QED
    BY <2>1, <2>2
       DEF alerter, RecordedIsAlertedAndClustered, OneAtATime, AlertsSoFar,
           WindowsFollowPasses, CooldownsFollowDispatches, NothingBeforeTraining
<1>5. CASE InsertFails
  <2>1. /\ stage = "inserting" /\ stage' = "sleeping"
        /\ todo = {} /\ toInsert' = {}
        /\ UNCHANGED <<now, suppressed, todo, alerter, alertsFired, passed,
                       alerted, clustered, cycles>>
    BY <1>5 DEF InsertFails, OneAtATime
  <2>2. TypeOK'
    BY <2>1 DEF TypeOK, alerter, Stage
  <2>3. QED
    BY <2>1, <2>2
       DEF alerter, RecordedIsAlertedAndClustered, OneAtATime, AlertsSoFar,
           WindowsFollowPasses, CooldownsFollowDispatches, NothingBeforeTraining
<1>6. ASSUME NEW k \in Metric, NEW caller \in {"loop", "api"}, FireForecast(k, caller)
      PROVE  IInv'
  <2>1. /\ Fire(k, caller)
        /\ k \in AlertKey
        /\ caller \in {"loop", "api", "detector"} /\ caller # "detector"
        /\ UNCHANGED <<now, stage, suppressed, toInsert, todo, alertsFired,
                       passed, alerted, clustered, cycles>>
    BY <1>6 DEF FireForecast, AlertKey
  <2>2. /\ lastFired' \in [AlertKey -> -1 .. now]
        /\ dispatched' = lastFired'
        /\ posting' = posting \cup {<<k, caller>>}
        /\ posting' \subseteq AlertKey \X {"loop", "api", "detector"}
    BY <2>1, FireProperties
  <2>3. \A t \in posting' : t[2] = "detector" => t \in posting
    BY <2>1, <2>2
  <2>4. (\E t \in posting' : t[2] = "detector") <=> (\E t \in posting : t[2] = "detector")
    BY <2>2, <2>3
  <2>5. TypeOK'
    BY <2>1, <2>2, <2>4 DEF TypeOK
  <2>6. OneAtATime'
    BY <2>1, <2>3 DEF OneAtATime
  <2>7. QED
    BY <2>1, <2>2, <2>5, <2>6
       DEF RecordedIsAlertedAndClustered, AlertsSoFar, WindowsFollowPasses,
           CooldownsFollowDispatches, NothingBeforeTraining
<1>7. ASSUME NEW a \in todo, FireAnomaly(a)
      PROVE  IInv'
  <2>1. /\ stage = "firing" /\ todo' = todo \ {a}
        /\ a \in Anomaly /\ Group(a) \in AlertKey
        /\ UNCHANGED <<now, suppressed, toInsert, passed, alerted,
                       clustered, cycles>>
    BY <1>7 DEF FireAnomaly, TypeOK, AlertKey
  <2>2. \A t \in posting : t[2] # "detector"
    BY <2>1 DEF TypeOK
  <2>3. CASE Fire(Group(a), "detector") /\ stage' = "delivering" /\ UNCHANGED alertsFired
    <3> DEFINE k == Group(a)
    <3> HIDE DEF k
    <3>1. Fire(k, "detector") /\ k \in AlertKey
      BY <2>1, <2>3 DEF k
    <3>2. /\ lastFired' \in [AlertKey -> -1 .. now]
          /\ dispatched' = lastFired'
          /\ posting' = posting \cup {<<k, "detector">>}
          /\ posting' \subseteq AlertKey \X {"loop", "api", "detector"}
      BY <3>1, FireProperties
    <3>3. \E t \in posting' : t[2] = "detector"
      BY <3>2
    <3>4. TypeOK'
      BY <2>1, <2>3, <3>2, <3>3 DEF TypeOK, Stage
    <3>5. OneAtATime'
      BY <2>1, <2>2, <2>3, <3>2 DEF OneAtATime
    <3>6. QED
      BY <2>1, <2>3, <3>2, <3>4, <3>5
         DEF RecordedIsAlertedAndClustered, AlertsSoFar, WindowsFollowPasses,
             CooldownsFollowDispatches, NothingBeforeTraining
  <2>4. CASE alertsFired' = alertsFired + 1 /\ UNCHANGED <<stage, alerter>>
    <3>1. TypeOK'
      BY <2>1, <2>4 DEF TypeOK, alerter
    <3>2. QED
      BY <2>1, <2>4, <3>1
         DEF alerter, RecordedIsAlertedAndClustered, OneAtATime, AlertsSoFar,
             WindowsFollowPasses, CooldownsFollowDispatches, NothingBeforeTraining
  <2>5. QED
    BY <1>7, <2>3, <2>4 DEF FireAnomaly
<1>8. ASSUME NEW a \in todo, CreateAlert(a)
      PROVE  IInv'
  <2>1. /\ stage = "creating" /\ todo' = todo \ {a} /\ alerted' = alerted \cup {a}
        /\ a \in Anomaly
        /\ UNCHANGED <<now, stage, suppressed, toInsert, alerter, alertsFired,
                       passed, clustered, cycles>>
    BY <1>8 DEF CreateAlert, TypeOK
  <2>2. TypeOK'
    BY <2>1 DEF TypeOK, alerter
  <2>3. alerted' \cup todo' = toInsert'
    BY <2>1 DEF AlertsSoFar
  <2>4. QED
    BY <2>1, <2>2, <2>3
       DEF alerter, RecordedIsAlertedAndClustered, OneAtATime, AlertsSoFar,
           WindowsFollowPasses, CooldownsFollowDispatches, NothingBeforeTraining
<1>9. ASSUME NEW t \in posting, Posted(t)
      PROVE  IInv'
  <2>1. /\ posting' = posting \ {t}
        /\ UNCHANGED <<now, suppressed, toInsert, todo, lastFired, dispatched,
                       passed, alerted, clustered, cycles>>
    BY <1>9 DEF Posted
  <2>2. CASE t[2] = "detector"
    <3>1. stage = "delivering"
      BY <2>2 DEF TypeOK
    <3>2. stage' = "firing" /\ alertsFired' = alertsFired + 1
      BY <1>9, <2>2, <3>1 DEF Posted
    <3>3. \A u \in posting' : u[2] # "detector"
      BY <2>1, <2>2 DEF OneAtATime
    <3>4. TypeOK'
      BY <2>1, <3>2, <3>3 DEF TypeOK, Stage
    <3>5. QED
      BY <2>1, <3>1, <3>2, <3>3, <3>4
         DEF RecordedIsAlertedAndClustered, OneAtATime, AlertsSoFar,
             WindowsFollowPasses, CooldownsFollowDispatches, NothingBeforeTraining
  <2>3. CASE t[2] # "detector"
    <3>1. UNCHANGED <<stage, alertsFired>>
      BY <1>9, <2>3 DEF Posted
    <3>2. (\E u \in posting' : u[2] = "detector") <=> (\E u \in posting : u[2] = "detector")
      BY <2>1, <2>3
    <3>3. TypeOK'
      BY <2>1, <3>1, <3>2 DEF TypeOK
    <3>4. QED
      BY <2>1, <3>1, <3>3
         DEF RecordedIsAlertedAndClustered, OneAtATime, AlertsSoFar,
             WindowsFollowPasses, CooldownsFollowDispatches, NothingBeforeTraining
  <2>4. QED
    BY <2>2, <2>3
<1>10. CASE FiringDone
  <2>1. /\ stage = "firing" /\ stage' = "creating" /\ todo' = toInsert
        /\ UNCHANGED <<now, suppressed, toInsert, alerter, alertsFired, passed,
                       alerted, clustered, cycles>>
    BY <1>10 DEF FiringDone, AlertsWanted
  <2>2. TypeOK'
    BY <2>1 DEF TypeOK, alerter, Stage
  <2>3. alerted' \cup todo' = toInsert'
    BY <2>1 DEF AlertsSoFar
  <2>4. QED
    BY <2>1, <2>2, <2>3
       DEF alerter, RecordedIsAlertedAndClustered, OneAtATime, AlertsSoFar,
           WindowsFollowPasses, CooldownsFollowDispatches, NothingBeforeTraining
<1>11. CASE CreatingDone
  <2>1. /\ stage = "creating" /\ stage' = "clustering" /\ todo = {}
        /\ UNCHANGED <<now, suppressed, toInsert, todo, alerter, alertsFired,
                       passed, alerted, clustered, cycles>>
    BY <1>11 DEF CreatingDone
  <2>2. TypeOK'
    BY <2>1 DEF TypeOK, alerter, Stage
  <2>3. alerted' = toInsert'
    BY <2>1 DEF AlertsSoFar
  <2>4. QED
    BY <2>1, <2>2, <2>3
       DEF alerter, RecordedIsAlertedAndClustered, OneAtATime, AlertsSoFar,
           WindowsFollowPasses, CooldownsFollowDispatches, NothingBeforeTraining
<1>12. CASE Cluster
  <2>1. /\ stage = "clustering" /\ stage' = "sleeping" /\ clustered' = toInsert
        /\ UNCHANGED <<now, suppressed, toInsert, todo, alerter, alertsFired,
                       passed, alerted, cycles>>
    BY <1>12 DEF Cluster
  <2>2. TypeOK'
    BY <2>1 DEF TypeOK, alerter, Stage
  <2>3. QED
    BY <2>1, <2>2
       DEF alerter, RecordedIsAlertedAndClustered, OneAtATime, AlertsSoFar,
           WindowsFollowPasses, CooldownsFollowDispatches, NothingBeforeTraining
<1>13. CASE Stop
  <2>1. /\ stage' = "stopped"
        /\ posting' = {t \in posting : t[2] # "detector"}
        /\ UNCHANGED <<now, suppressed, toInsert, todo, lastFired, dispatched,
                       alertsFired, passed, alerted, clustered, cycles>>
    BY <1>13 DEF Stop, Cancelled
  <2>2. \A t \in posting' : t[2] # "detector"
    BY <2>1
  <2>3. TypeOK'
    BY <2>1, <2>2 DEF TypeOK, Stage
  <2>4. QED
    BY <2>1, <2>2, <2>3
       DEF RecordedIsAlertedAndClustered, OneAtATime, AlertsSoFar,
           WindowsFollowPasses, CooldownsFollowDispatches, NothingBeforeTraining
<1>14. CASE UNCHANGED vars
  <2>1. TypeOK'
    BY <1>14 DEF vars, alerter, TypeOK
  <2>2. QED
    BY <1>14, <2>1
       DEF vars, alerter, RecordedIsAlertedAndClustered, OneAtATime, AlertsSoFar,
           WindowsFollowPasses, CooldownsFollowDispatches, NothingBeforeTraining
<1>15. QED
  BY <1>1, <1>2, <1>3, <1>4, <1>5, <1>6, <1>7, <1>8, <1>9, <1>10, <1>11, <1>12,
     <1>13, <1>14 DEF Next

\* The inductive invariant holds in every reachable state.
THEOREM InvariantHolds == Spec => []IInv
  BY InitIInv, NextIInv, PTL DEF Spec

\* Type correctness; the detector has a POST out exactly while it delivers.
THEOREM TypeCorrect == Spec => []TypeOK
<1>1. IInv => TypeOK
  BY DEF IInv
<1>2. QED
  BY <1>1, InvariantHolds, PTL

\* Whatever the alerter's cooldown did, a cycle that ends has made an alert of,
\* and clustered, all that it recorded (_detect, anomaly_detector.py:298-310).
THEOREM HandsOver == Spec => []RecordedIsAlertedAndClustered
<1>1. IInv => RecordedIsAlertedAndClustered
  BY DEF IInv
<1>2. QED
  BY <1>1, InvariantHolds, PTL

\* A lasting anomaly passes exactly once per window (_detect, :259-273).
THEOREM OncePerWindow == Spec => SuppressedOncePerWindow
<1> DEFINE P == cycles' = cycles + 1 =>
          \A a \in Anomaly :
             LET recent == passed[a] >= 0 /\ now - passed[a] < SuppressFor
             IN  /\ recent => a \notin toInsert'
                 /\ suppressed'[a] > now =>
                       passed'[a] >= 0 /\ now - passed'[a] < SuppressFor
<1>1. IInv /\ [Next]_vars => [P]_vars
  <2> SUFFICES ASSUME IInv, Next, cycles' = cycles + 1
               PROVE  P
    OBVIOUS
  <2>1. cycles' # cycles
    BY BoundsAssumption DEF IInv, TypeOK
  <2>2. \E found \in SUBSET Anomaly : Detect(found)
    BY <2>1 DEF Next, Tick, Trained, TrainingRaises, Inserted, InsertFails,
         FireForecast, FireAnomaly, CreateAlert, Posted, FiringDone, CreatingDone,
         Cluster, Stop
  <2>3. QED
    BY <2>2, SuppressedProperties
<1>2. QED
  BY <1>1, InvariantHolds, PTL DEF Spec, SuppressedOncePerWindow

\* One dispatch per key and cooldown, whoever fires (webhook.py:56-63, 170-179).
THEOREM AtMostOncePerCooldown == Spec => RateLimited
<1> DEFINE P == \A k \in AlertKey :
          (\E c \in {"loop", "api", "detector"} :
               <<k, c>> \in posting' \ posting) =>
             dispatched[k] < 0 \/ now - dispatched[k] >= Cooldown
<1>1. IInv /\ [Next]_vars => [P]_vars
  <2> SUFFICES ASSUME IInv, Next PROVE P
    OBVIOUS
  <2>0. \A k \in AlertKey : now \in Int /\ Cooldown \in Int /\ dispatched[k] \in Int
    BY TimesAssumption DEF IInv, TypeOK
  <2>1. CASE posting' \subseteq posting
    BY <2>1
  <2>2. CASE \E k \in AlertKey, c \in {"loop", "api", "detector"} : Fire(k, c)
    <3>1. PICK k \in AlertKey, c \in {"loop", "api", "detector"} : Fire(k, c)
      BY <2>2
    <3>2. posting' = posting \cup {<<k, c>>} /\ ~Cooling(k) /\ lastFired = dispatched
      BY <3>1 DEF Fire, IInv, CooldownsFollowDispatches
    <3>3. dispatched[k] < 0 \/ now - dispatched[k] >= Cooldown
      BY <2>0, <3>2 DEF Cooling
    <3>4. QED
      BY <3>2, <3>3
  <2>3. \/ posting' \subseteq posting
        \/ \E k \in AlertKey, c \in {"loop", "api", "detector"} : Fire(k, c)
    <3>1. \A k \in Metric : k \in AlertKey
      BY DEF AlertKey
    <3>2. \A a \in todo : Group(a) \in AlertKey
      BY DEF AlertKey, IInv, TypeOK
    <3>3. QED
      BY <3>1, <3>2
         DEF Next, alerter, Tick, Trained, TrainingRaises, Detect, Inserted,
             InsertFails, FireForecast, FireAnomaly, CreateAlert, Posted,
             FiringDone, CreatingDone, Cluster, Stop, Cancelled
  <2>4. QED
    BY <2>1, <2>2, <2>3
<1>2. QED
  BY <1>1, InvariantHolds, PTL DEF Spec, RateLimited
=============================================================================
