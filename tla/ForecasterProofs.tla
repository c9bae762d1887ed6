--------------------------- MODULE ForecasterProofs ---------------------------
(***************************************************************************)
(* Proofs about the forecast pipeline, for any number of keys, requests,   *)
(* cycles, minutes and points, and any order of arrival.                   *)
(*                                                                         *)
(* Two arguments carry them.  A series only grows, so a run that reads it  *)
(* later has seen more of it: once the loop's run has read its points,     *)
(* whatever fit of the key is in progress has seen as much as the cycle    *)
(* owes it (Refreshing).  And record_actual leaves no record behind:       *)
(* before every run the tracker has no unresolved prediction, and the      *)
(* run's own last point resolves the one it makes (TrackedResolves, an     *)
(* induction over the points).                                             *)
(***************************************************************************)
EXTENDS Forecaster, FoldLemmas

\* A run has read at least one point, of the series as it was then.
RunsRead ==
    \A r \in runs :
        r.points # {} /\ r.points \subseteq 1 .. r.seen /\ r.seen <= Len(series[r.key])

\* What a cycle could see is in the series, and it owes no more than that.
DueSeen == \A k \in Key : due[k] <= Len(series[k]) /\ (due[k] # 0 => owed[k] <= due[k])

\* A forecast that was stored is in the store, or ttl_seconds old.
Kept == \A k \in Key : forecasts[k].at # 0 =>
            forecasts[k].live \/ now - forecasts[k].at >= Ttl

Running == stage \in {"forecasting", "detecting"}

\* In a cycle, a key whose task has got its permit is being fitted or was
\* forecast, and whatever fit of it is in progress will keep it so.
Refreshing ==
    Running =>
        \A k \in Key : due[k] # 0 /\ k \notin pending =>
            /\ \A r \in runs : r.key = k /\ r.phase = "fitting" => owed[k] <= r.seen
            /\ \/ \E r \in LoopRuns : r.key = k /\ r.phase = "fitting"
               \/ owed[k] <= forecasts[k].seen /\ forecasts[k].at # 0

\* In a cycle, the task of a key counts its points when it gets its permit.
Counting ==
    Running =>
        \A k \in Key : k \notin pending =>
            \A i \in 1 .. due[k] : now - series[k][i] <= Window => counts[k][i] > 0

\* gather has returned.
Gathering == stage = "detecting" => pending = {} /\ LoopRuns = {}

\* TypeOK without the tracker, which has lemmas of its own.
CoreTypeOK ==
    /\ now \in 1 .. MaxMinute
    /\ open \in [Key -> 0 .. MaxMinute]
    /\ DOMAIN series = Key
    /\ \A k \in Key : series[k] \in Seq(Minute) /\ Len(series[k]) <= MaxPoints
    /\ stage \in {"sleeping", "forecasting", "detecting", "stopped"}
    /\ pending \subseteq Key
    /\ runs \subseteq Run
    /\ IsFiniteSet(runs)
    /\ Cardinality(LoopRuns) <= MaxParallel
    /\ forecasts \in [Key -> Entry]
    /\ counts \in [Key -> [Position -> Nat]]
    /\ due \in [Key -> 0 .. MaxPoints]
    /\ owed \in [Key -> 0 .. MaxPoints]
    /\ cycles \in 0 .. MaxCycles
    /\ calls \in 0 .. MaxCalls

\* Every record of the tracker has its observation, for every key.
Tracking ==
    /\ DOMAIN preds = Key
    /\ \A k \in Key : /\ preds[k] \in Seq(Prediction)
                      /\ Len(preds[k]) <= MaxLen
                      /\ \A i \in DOMAIN preds[k] : preds[k][i].by # 0

IInv ==
    /\ CoreTypeOK
    /\ RunsRead
    /\ DueSeen
    /\ Kept
    /\ Refreshing
    /\ Counting
    /\ Gathering
    /\ Tracking

-----------------------------------------------------------------------------
(* Points.                                                                 *)

\* Sets of points are finite.
LEMMA PositionsFinite ==
    ASSUME NEW points \in SUBSET Position
    PROVE  IsFiniteSet(points) /\ points \in SUBSET Position /\ MaxPoints \in Nat
  <1>1. MaxPoints \in Nat /\ IsFiniteSet(Position)
    BY BoundsAssumption, FS_Interval DEF Position
  <1>. QED  BY <1>1, FS_Subset

\* timestamps[-1] of points that are not empty.
LEMMA LastPointProperties ==
    ASSUME NEW points \in SUBSET Position, points # {}
    PROVE  /\ LastPoint(points) \in points
           /\ \A m \in points : m <= LastPoint(points)
           /\ LastPoint(points) \in Position
  <1>1. MaxPoints \in Nat
    BY BoundsAssumption
  <1>2. Max(points) \in points /\ \A m \in points : m <= Max(points)
    BY <1>1, MaxInside DEF Position
  <1>. QED  BY <1>2 DEF LastPoint

\* The least of some numbers.
LEMMA MinInside ==
    ASSUME NEW S \in SUBSET Nat, S # {}
    PROVE  Min(S) \in S /\ \A x \in S : Min(S) <= x
  <1>1. \E x \in S : \A y \in S : x <= y
    BY FirstPosition
  <1>. QED  BY <1>1 DEF Min

\* Points with a positive min_data_points are not none.
LEMMA PointsRead ==
    ASSUME CoreTypeOK, NEW k \in Key, EnoughPoints(k)
    PROVE  /\ Points(k) # {} /\ Points(k) \subseteq 1 .. Len(series[k])
           /\ Points(k) \subseteq Position /\ Len(series[k]) \in Position
  <1>1. Cardinality({}) = 0 /\ MinPoints \in Nat /\ MinPoints > 0 /\ MaxPoints \in Nat
    BY FS_EmptySet, SettingsAssumption, BoundsAssumption
  <1>2. Points(k) # {}
    BY <1>1 DEF EnoughPoints
  <1>3. series[k] \in Seq(Minute) /\ Len(series[k]) <= MaxPoints
    BY DEF CoreTypeOK
  <1>4. Points(k) \subseteq 1 .. Len(series[k]) /\ Len(series[k]) \in Nat
    BY <1>3 DEF Points
  <1>5. Len(series[k]) >= 1
    BY <1>2, <1>4
  <1>. QED  BY <1>1, <1>2, <1>3, <1>4, <1>5 DEF Position

-----------------------------------------------------------------------------
(* The tracker.                                                            *)

\* The prediction a run makes is for the minute after its last point.
LEMMA PredictionMade ==
    ASSUME NEW ser \in Seq(Minute), NEW run \in Run,
           run.points # {}, run.points \subseteq DOMAIN ser
    PROVE  LET last == LastPoint(run.points)
               p == [for |-> ser[last] + 1, made |-> run.seen, by |-> 0]
           IN  p \in Prediction /\ ser[last] \in Minute
  <1>. DEFINE last == LastPoint(run.points)
  <1>1. MaxMinute \in Nat /\ MaxPoints \in Nat
    BY BoundsAssumption
  <1>2. run.points \in SUBSET Position /\ run.seen \in Position
    BY DEF Run
  <1>3. last \in DOMAIN ser
    BY <1>2, LastPointProperties
  <1>. HIDE DEF last
  <1>4. ser[last] \in Minute
    BY <1>3
  <1>5. ser[last] + 1 \in 1 .. MaxMinute + 1 /\ 0 \in 0 .. MaxPoints
    BY <1>1, <1>4 DEF Minute
  <1>. QED  BY <1>2, <1>4, <1>5 DEF Prediction, last

\* record_actual touches one record at most, and never an observed one.
LEMMA ResolvedProperties ==
    ASSUME NEW q \in Seq(Prediction), NEW s, NEW m \in Position
    PROVE  /\ Resolved(q, s, m) \in Seq(Prediction)
           /\ Len(Resolved(q, s, m)) = Len(q)
           /\ \A i \in 1 .. Len(q) :
                 /\ q[i].by # 0 => Resolved(q, s, m)[i] = q[i]
                 /\ \/ Resolved(q, s, m)[i] = q[i]
                    \/ Resolved(q, s, m)[i].by = m
  <1>. DEFINE hits == {i \in DOMAIN q : Matches(q[i], s[m])}
              new == Resolved(q, s, m)
  <1>1. CASE hits = {}
    <2>1. new = q
      BY <1>1 DEF Resolved
    <2>. QED  BY <2>1
  <1>2. CASE hits # {}
    <2>. DEFINE h == CHOOSE i \in hits : \A j \in hits : i <= j
    <2>1. hits \subseteq Nat
      OBVIOUS
    <2>2. h \in hits
      <3>. HIDE DEF hits
      <3>. QED  BY <1>2, <2>1, FirstPosition
    <2>3. new = [q EXCEPT ![h].by = m]
      BY <1>2 DEF Resolved
    <2>. HIDE DEF h, new
    <2>4. h \in 1 .. Len(q) /\ q[h].by = 0 /\ q[h] \in Prediction
      BY <2>2 DEF Matches
    <2>5. [q[h] EXCEPT !.by = m] \in Prediction /\ [q[h] EXCEPT !.by = m].by = m
      <3>1. m \in 0 .. MaxPoints
        BY BoundsAssumption DEF Position
      <3>. QED  BY <2>4, <3>1 DEF Prediction
    <2>6. new = [i \in 1 .. Len(q) |-> IF i = h THEN [q[h] EXCEPT !.by = m] ELSE q[i]]
      <3>1. DOMAIN q = 1 .. Len(q) /\ q = [i \in DOMAIN q |-> q[i]]
        OBVIOUS
      <3>2. [q EXCEPT ![h].by = m] = [i \in DOMAIN q |-> IF i = h THEN [q[h] EXCEPT !.by = m] ELSE q[i]]
        BY <2>4, <3>1, Zenon
      <3>. QED  BY <2>3, <3>1, <3>2
    <2>7. \A i \in 1 .. Len(q) : q[i] \in Prediction
      OBVIOUS
    <2>8. new \in Seq(Prediction) /\ Len(new) = Len(q)
      BY <2>5, <2>6, <2>7
    <2>9. ASSUME NEW i \in 1 .. Len(q)
          PROVE  /\ q[i].by # 0 => new[i] = q[i]
                 /\ new[i] = q[i] \/ new[i].by = m
      <3>1. new[i] = IF i = h THEN [q[h] EXCEPT !.by = m] ELSE q[i]
        BY <2>6
      <3>. QED  BY <2>4, <2>5, <3>1
    <2>. QED  BY <2>8, <2>9 DEF new
  <1>. QED  BY <1>1, <1>2

\* An observation within a minute of the only unresolved record resolves it.
LEMMA ResolvedHits ==
    ASSUME NEW q \in Seq(Prediction), NEW s, NEW m \in Position,
           NEW n \in 1 .. Len(q), q[n].for - s[m] \in {-1, 0, 1},
           \A i \in 1 .. Len(q) : i # n => q[i].by # 0
    PROVE  Resolved(q, s, m)[n].by # 0
  <1>. DEFINE new == Resolved(q, s, m)
  <1>1. CASE q[n].by # 0
    BY <1>1, ResolvedProperties
  <1>2. CASE q[n].by = 0
    <2>. DEFINE hits == {i \in DOMAIN q : Matches(q[i], s[m])}
    <2>1. hits = {n}
      BY <1>2 DEF Matches
    <2>2. (CHOOSE i \in hits : \A j \in hits : i <= j) = n
      BY <2>1
    <2>3. new = [q EXCEPT ![n].by = m]
      BY <2>1, <2>2 DEF Resolved
    <2>. HIDE DEF new
    <2>4. new[n] = [q[n] EXCEPT !.by = m]
      BY <2>3
    <2>5. q[n] \in Prediction
      OBVIOUS
    <2>6. new[n].by = m
      BY <2>4, <2>5 DEF Prediction
    <2>. QED  BY <2>6 DEF Position, new
  <1>. QED  BY <1>1, <1>2

\* The deque after an append: its last element is the new one, the others
\* were there before.
LEMMA AppendedProperties ==
    ASSUME NEW q \in Seq(Prediction), Len(q) <= MaxLen, NEW p \in Prediction
    PROVE  /\ Appended(q, p) \in Seq(Prediction)
           /\ Len(Appended(q, p)) \in 1 .. MaxLen
           /\ Appended(q, p)[Len(Appended(q, p))] = p
           /\ \A i \in 1 .. Len(Appended(q, p)) - 1 :
                 \E j \in 1 .. Len(q) : Appended(q, p)[i] = q[j]
  <1>1. MaxLen \in Nat \ {0} /\ Len(q) \in Nat
    BY SettingsAssumption
  <1>. DEFINE a == Append(q, p)
              from == IF Len(q) = MaxLen THEN 2 ELSE 1
  <1>2. a \in Seq(Prediction) /\ Len(a) = Len(q) + 1 /\ a[Len(q) + 1] = p
        /\ \A i \in 1 .. Len(q) : a[i] = q[i]
    OBVIOUS
  <1>3. from \in 1 .. 2 /\ from <= Len(q) + 1
    BY <1>1
  <1>4. Appended(q, p) = SubSeq(a, from, Len(q) + 1)
    <2>1. 1 + (IF Len(q) = MaxLen THEN 1 ELSE 0) = from
      OBVIOUS
    <2>. QED  BY <2>1 DEF Appended
  <1>. HIDE DEF a
  <1>5. /\ Appended(q, p) \in Seq(Prediction)
        /\ Len(Appended(q, p)) = Len(q) + 2 - from
        /\ \A i \in 1 .. Len(q) + 2 - from : Appended(q, p)[i] = a[i + from - 1]
    <2>. HIDE DEF from
    <2>. QED  BY <1>1, <1>2, <1>3, <1>4
  <1>6. Len(Appended(q, p)) \in 1 .. MaxLen
    BY <1>1, <1>5
  <1>7. Appended(q, p)[Len(Appended(q, p))] = p
    <2>. HIDE DEF from
    <2>. QED  BY <1>1, <1>2, <1>3, <1>5
  <1>8. ASSUME NEW i \in 1 .. Len(Appended(q, p)) - 1
        PROVE  \E j \in 1 .. Len(q) : Appended(q, p)[i] = q[j]
    <2>. HIDE DEF from
    <2>1. i + from - 1 \in 1 .. Len(q)
      BY <1>1, <1>3, <1>5
    <2>2. Appended(q, p)[i] = a[i + from - 1]
      BY <1>1, <1>3, <1>5
    <2>. QED  BY <1>2, <2>1, <2>2
  <1>. QED  BY <1>5, <1>6, <1>7, <1>8

\* What record_actual does to the tracker over the points of a window, oldest
\* first, is a function of the points already offered.
LEMMA TrackedIsFold ==
    ASSUME NEW q \in Seq(Prediction), Len(q) <= MaxLen,
           NEW ser \in Seq(Minute), NEW run \in Run,
           run.points # {}, run.points \subseteq DOMAIN ser
    PROVE  LET a == Appended(q, [for |-> ser[LastPoint(run.points)] + 1,
                                 made |-> run.seen, by |-> 0])
           IN  \E it \in [SUBSET run.points -> Seq(Prediction)] :
                  /\ Tracked(q, ser, run) = it[run.points]
                  /\ it[{}] = a
                  /\ \A s \in SUBSET run.points : s # {} =>
                        it[s] = Resolved(it[s \ {Max(s)}], ser, Max(s))
  <1>. DEFINE points == run.points
              p == [for |-> ser[LastPoint(run.points)] + 1, made |-> run.seen, by |-> 0]
              a == Appended(q, p)
              step == [x \in points \X Seq(Prediction) |-> Resolved(x[2], ser, x[1])]
              ch == [s \in SUBSET points |-> Max(s)]
  <1>1. IsFiniteSet(points) /\ points \in SUBSET Position /\ MaxPoints \in Nat
    BY PositionsFinite DEF Run
  <1>2. p \in Prediction
    BY <1>1, PredictionMade
  <1>3. a \in Seq(Prediction)
    BY <1>2, AppendedProperties
  <1>. HIDE DEF p, a
  <1>4. step \in [points \X Seq(Prediction) -> Seq(Prediction)]
    <2>1. \A m \in points, r \in Seq(Prediction) : Resolved(r, ser, m) \in Seq(Prediction)
      BY <1>1, ResolvedProperties
    <2>. QED  BY <2>1
  <1>5. \A m \in points, r \in Seq(Prediction) : step[<<m, r>>] = Resolved(r, ser, m)
    OBVIOUS
  <1>6. \A s \in SUBSET points : ch[s] = Max(s)
    OBVIOUS
  <1>. HIDE DEF step, ch
  <1>7. \A s \in SUBSET points : s # {} => Max(s) \in s
    BY <1>1, MaxInside DEF Position
  <1>8. Picks(ch, points)
    BY <1>6, <1>7 DEF Picks
  <1>9. PICK it \in [SUBSET points -> Seq(Prediction)] : Recurses(it, points, a, step, ch)
    BY <1>1, <1>3, <1>4, <1>8, FoldExists
  <1>10. ASSUME NEW s \in SUBSET points
         PROVE  it[s] = IF s = {} THEN a ELSE Resolved(it[s \ {Max(s)}], ser, Max(s))
    <2>1. it[s] = IF s = {} THEN a ELSE step[<<Max(s), it[s \ {Max(s)}]>>]
      BY <1>6, <1>9 DEF Recurses
    <2>2. s # {} => Max(s) \in points /\ it[s \ {Max(s)}] \in Seq(Prediction)
      BY <1>7
    <2>. QED  BY <1>5, <2>1, <2>2
  <1>. DEFINE I == CHOOSE iter : iter = [s \in SUBSET points |->
                      IF s = {} THEN a ELSE Resolved(iter[s \ {Max(s)}], ser, Max(s))]
  <1>11. it = [s \in SUBSET points |-> IF s = {} THEN a ELSE Resolved(it[s \ {Max(s)}], ser, Max(s))]
    BY <1>10
  <1>12. I = [s \in SUBSET points |-> IF s = {} THEN a ELSE Resolved(I[s \ {Max(s)}], ser, Max(s))]
    BY <1>11
  <1>13. Tracked(q, ser, run) = I[points]
    BY DEF Tracked, MapThenFoldSet, a, p
  <1>. HIDE DEF I
  <1>14. I \in [SUBSET points -> Seq(Prediction)]
    <2>. DEFINE T == {s \in SUBSET points : I[s] \in Seq(Prediction)}
    <2>1. \A s \in SUBSET points : I[s] = IF s = {} THEN a ELSE Resolved(I[s \ {Max(s)}], ser, Max(s))
      BY <1>12
    <2>2. \A s \in SUBSET points : s \in T
      <3>1. {} \in T
        BY <1>3, <2>1
      <3>2. ASSUME NEW s \in SUBSET points, s # {}, s \ {ch[s]} \in T
            PROVE  s \in T
        <4>1. I[s] = Resolved(I[s \ {Max(s)}], ser, Max(s)) /\ Max(s) \in Position
          BY <1>1, <1>7, <2>1, <3>2
        <4>2. I[s \ {Max(s)}] \in Seq(Prediction)
          BY <1>6, <3>2
        <4>. QED  BY <4>1, <4>2, ResolvedProperties
      <3>. HIDE DEF T
      <3>. QED  BY <1>1, <1>8, <3>1, <3>2, SubsetInduction
    <2>3. I = [s \in SUBSET points |-> I[s]]
      BY <1>12
    <2>. QED  BY <2>2, <2>3
  <1>15. I[{}] = a /\ \A s \in SUBSET points : s # {} => I[s] = Resolved(I[s \ {Max(s)}], ser, Max(s))
    <2>1. \A s \in SUBSET points : I[s] = IF s = {} THEN a ELSE Resolved(I[s \ {Max(s)}], ser, Max(s))
      BY <1>12
    <2>. QED  BY <2>1
  <1>. QED  BY <1>13, <1>14, <1>15 DEF a, p

\* A run leaves the tracker without an unresolved record when it found it so:
\* the prediction it makes is for the minute after its last point, which is
\* within a minute of it.
LEMMA TrackedResolves ==
    ASSUME NEW q \in Seq(Prediction), Len(q) <= MaxLen,
           \A i \in DOMAIN q : q[i].by # 0,
           NEW ser \in Seq(Minute), NEW run \in Run,
           run.points # {}, run.points \subseteq DOMAIN ser
    PROVE  /\ Tracked(q, ser, run) \in Seq(Prediction)
           /\ Len(Tracked(q, ser, run)) <= MaxLen
           /\ \A i \in DOMAIN Tracked(q, ser, run) : Tracked(q, ser, run)[i].by # 0
  <1>. DEFINE points == run.points
              last == LastPoint(points)
              p == [for |-> ser[last] + 1, made |-> run.seen, by |-> 0]
              a == Appended(q, p)
              n == Len(a)
              ch == [s \in SUBSET points |-> Max(s)]
  <1>1. PICK it \in [SUBSET points -> Seq(Prediction)] :
            /\ Tracked(q, ser, run) = it[points]
            /\ it[{}] = a
            /\ \A s \in SUBSET points : s # {} => it[s] = Resolved(it[s \ {Max(s)}], ser, Max(s))
    BY TrackedIsFold
  <1>2. IsFiniteSet(points) /\ points \in SUBSET Position /\ MaxPoints \in Nat
    BY PositionsFinite DEF Run
  <1>3. last \in points /\ last \in Position /\ \A m \in points : m <= last
    BY <1>2, LastPointProperties
  <1>4. p \in Prediction /\ p.for = ser[last] + 1 /\ ser[last] \in Minute
    BY <1>2, <1>3, PredictionMade
  <1>. HIDE DEF p, last
  <1>5. /\ a \in Seq(Prediction) /\ n \in 1 .. MaxLen
        /\ a[n] = p
        /\ \A i \in 1 .. n - 1 : a[i].by # 0
    <2>1. /\ a \in Seq(Prediction) /\ n \in 1 .. MaxLen
          /\ a[n] = p
          /\ \A i \in 1 .. n - 1 : \E j \in 1 .. Len(q) : a[i] = q[j]
      BY <1>4, AppendedProperties
    <2>2. DOMAIN q = 1 .. Len(q)
      OBVIOUS
    <2>. HIDE DEF a, n
    <2>. QED  BY <2>1, <2>2
  <1>. HIDE DEF a, n
  <1>. DEFINE Good(r, s) == /\ Len(r) = n
                            /\ \A i \in 1 .. n - 1 : r[i].by # 0
                            /\ r[n] = p \/ r[n].by # 0
                            /\ last \in s => r[n].by # 0
              T == {s \in SUBSET points : Good(it[s], s)}
  <1>6. \A s \in SUBSET points : s # {} => Max(s) \in s /\ \A m \in s : m <= Max(s)
    BY <1>2, MaxInside DEF Position
  <1>7. \A s \in SUBSET points : ch[s] = Max(s)
    OBVIOUS
  <1>. HIDE DEF ch
  <1>8. Picks(ch, points)
    BY <1>6, <1>7 DEF Picks
  <1>9. {} \in T
    BY <1>1, <1>5 DEF n
  <1>10. ASSUME NEW s \in SUBSET points, s # {}, s \ {ch[s]} \in T
         PROVE  s \in T
    <2>. DEFINE m == Max(s)
                old == it[s \ {m}]
    <2>1. m \in s /\ m \in Position /\ \A x \in s : x <= m
      BY <1>2, <1>6, <1>10
    <2>2. it[s] = Resolved(old, ser, m) /\ old \in Seq(Prediction)
      BY <1>1, <1>10
    <2>3. Good(old, s \ {m})
      BY <1>7, <1>10
    <2>. HIDE DEF m, old
    <2>4. /\ Len(it[s]) = n
          /\ \A i \in 1 .. n :
                /\ old[i].by # 0 => it[s][i] = old[i]
                /\ it[s][i] = old[i] \/ it[s][i].by = m
      BY <2>1, <2>2, <2>3, ResolvedProperties
    <2>5. m # 0 /\ n \in 1 .. n
      BY <1>5, <2>1 DEF Position
    <2>6. \A i \in 1 .. n - 1 : it[s][i].by # 0
      BY <2>3, <2>4
    <2>7. it[s][n] = p \/ it[s][n].by # 0
      BY <2>3, <2>4, <2>5
    <2>8. ASSUME last \in s
          PROVE  it[s][n].by # 0
      <3>1. CASE last = m
        <4>1. CASE old[n].by # 0
          BY <2>4, <2>5, <4>1
        <4>2. CASE old[n].by = 0
          <5>1. old[n] = p
            BY <2>3, <4>2
          <5>2. old[n].for - ser[m] \in {-1, 0, 1}
            BY <1>3, <1>4, <3>1, <5>1 DEF Minute
          <5>3. \A i \in 1 .. Len(old) : i # n => old[i].by # 0
            BY <1>5, <2>3
          <5>4. n \in 1 .. Len(old)
            BY <2>3, <2>5
          <5>. QED  BY <2>1, <2>2, <5>2, <5>3, <5>4, ResolvedHits
        <4>. QED  BY <4>1, <4>2
      <3>2. CASE last # m
        <4>1. old[n].by # 0
          BY <2>3, <2>8, <3>2
        <4>. QED  BY <2>4, <2>5, <4>1
      <3>. QED  BY <3>1, <3>2
    <2>. QED  BY <2>4, <2>6, <2>7, <2>8
  <1>11. \A s \in SUBSET points : s \in T
    <2>. HIDE DEF T, points
    <2>1. IsFiniteSet(points)
      BY <1>2
    <2>2. \A s \in SUBSET points : s # {} /\ s \ {ch[s]} \in T => s \in T
      BY <1>10
    <2>. QED  BY <1>8, <1>9, <2>1, <2>2, SubsetInduction
  <1>12. Good(it[points], points)
    BY <1>11
  <1>13. Tracked(q, ser, run) \in Seq(Prediction) /\ Len(Tracked(q, ser, run)) = n
    BY <1>1, <1>12
  <1>14. \A i \in 1 .. n : Tracked(q, ser, run)[i].by # 0
    BY <1>1, <1>3, <1>5, <1>12
  <1>. QED  BY <1>5, <1>13, <1>14

-----------------------------------------------------------------------------
(* The invariant.                                                          *)

\* The invariant holds before the first cycle and request,
THEOREM InitIInv == Init => IInv
  <1>. SUFFICES ASSUME Init PROVE IInv
    OBVIOUS
  <1>. USE DEF Init
  <1>1. /\ MaxMinute \in Nat \ {0} /\ MaxPoints \in Nat /\ MaxCycles \in Nat /\ MaxCalls \in Nat
        /\ MaxParallel \in Nat
    BY BoundsAssumption, SettingsAssumption
  <1>2. LoopRuns = {} /\ IsFiniteSet({}) /\ Cardinality({}) = 0
    BY FS_EmptySet DEF LoopRuns
  <1>3. CoreTypeOK
    <2>1. forecasts \in [Key -> Entry]
      <3>1. [seen |-> 0, at |-> 0, live |-> FALSE] \in Entry
        BY <1>1 DEF Entry
      <3>. QED  BY <3>1
    <2>2. /\ now \in 1 .. MaxMinute
          /\ open \in [Key -> 0 .. MaxMinute]
          /\ DOMAIN series = Key /\ \A k \in Key : series[k] = <<>>
          /\ counts \in [Key -> [Position -> Nat]]
          /\ due \in [Key -> 0 .. MaxPoints] /\ owed \in [Key -> 0 .. MaxPoints]
      BY <1>1
    <2>3. <<>> \in Seq(Minute) /\ Len(<<>>) = 0
      OBVIOUS
    <2>4. \A k \in Key : series[k] \in Seq(Minute) /\ Len(series[k]) <= MaxPoints
      BY <1>1, <2>2, <2>3
    <2>. QED  BY <1>1, <1>2, <2>1, <2>2, <2>4 DEF CoreTypeOK
  <1>4. RunsRead /\ DueSeen /\ Kept /\ Refreshing /\ Counting /\ Gathering
    BY DEF RunsRead, DueSeen, Kept, Refreshing, Counting, Gathering, Running
  <1>5. Tracking
    BY SettingsAssumption DEF Tracking
  <1>. QED  BY <1>3, <1>4, <1>5 DEF IInv

\* What a cycle could see are points of the series.
LEMMA DueInside ==
    ASSUME IInv, NEW k \in Key, NEW i \in 1 .. due[k]
    PROVE  i \in 1 .. Len(series[k]) /\ i \in Position /\ series[k][i] \in Minute
  <1>1. /\ due[k] <= Len(series[k]) /\ Len(series[k]) <= MaxPoints
        /\ due[k] \in Int /\ Len(series[k]) \in Int /\ MaxPoints \in Int
        /\ series[k] \in Seq(Minute)
    BY BoundsAssumption DEF IInv, DueSeen, CoreTypeOK
  <1>2. i \in 1 .. Len(series[k]) /\ i \in Position
    BY <1>1 DEF Position
  <1>. QED  BY <1>1, <1>2

\* A run that begins has seen the whole series and counts the whole window.
LEMMA BeginKeeps ==
    ASSUME IInv, NEW k \in Key, NEW caller \in Caller \cup {"loop"},
           EnoughPoints(k), Begin(caller, k), UNCHANGED series
    PROVE  LET new == [caller |-> caller, key |-> k, points |-> Points(k),
                       seen |-> Len(series[k]), phase |-> "fitting"]
           IN  /\ runs' = runs \cup {new} /\ new \in Run
               /\ runs' \subseteq Run /\ IsFiniteSet(runs')
               /\ counts' \in [Key -> [Position -> Nat]]
               /\ \A j \in Key, i \in Position : counts'[j][i] >= counts[j][i]
               /\ \A i \in Points(k) : counts'[k][i] > 0
               /\ RunsRead'
  <1>. DEFINE new == [caller |-> caller, key |-> k, points |-> Points(k),
                      seen |-> Len(series[k]), phase |-> "fitting"]
  <1>. USE DEF IInv
  <1>1. /\ Points(k) # {} /\ Points(k) \subseteq 1 .. Len(series[k])
        /\ Points(k) \subseteq Position /\ Len(series[k]) \in Position
    BY PointsRead
  <1>2. runs' = runs \cup {new}
    BY DEF Begin
  <1>3. new \in Run
    BY <1>1 DEF Run
  <1>4. runs' \subseteq Run /\ IsFiniteSet(runs')
    <2>1. IsFiniteSet(runs \cup {new})
      BY FS_AddElement DEF CoreTypeOK
    <2>. QED  BY <1>2, <1>3, <2>1 DEF CoreTypeOK
  <1>5. /\ counts' \in [Key -> [Position -> Nat]]
        /\ \A j \in Key, i \in Position : counts'[j][i] >= counts[j][i]
        /\ \A i \in Points(k) : counts'[k][i] > 0
    <2>1. counts' = [counts EXCEPT ![k] =
                        [i \in Position |-> counts[k][i] + IF i \in Points(k) THEN 1 ELSE 0]]
      BY DEF Begin, Counted
    <2>2. \A i \in Position : counts[k][i] \in Nat
      BY DEF CoreTypeOK
    <2>3. [i \in Position |-> counts[k][i] + IF i \in Points(k) THEN 1 ELSE 0] \in [Position -> Nat]
      BY <2>2
    <2>4. counts' \in [Key -> [Position -> Nat]]
      BY <2>1, <2>3 DEF CoreTypeOK
    <2>5. ASSUME NEW j \in Key, NEW i \in Position
          PROVE  /\ counts[j][i] \in Nat
                 /\ counts'[j][i] = IF j = k /\ i \in Points(k) THEN counts[j][i] + 1 ELSE counts[j][i]
      <3>1. counts[j][i] \in Nat
        BY DEF CoreTypeOK
      <3>. QED  BY <2>1, <3>1 DEF CoreTypeOK
    <2>6. \A j \in Key, i \in Position : counts'[j][i] >= counts[j][i]
      BY <2>5
    <2>7. \A i \in Points(k) : counts'[k][i] > 0
      BY <1>1, <2>5
    <2>. QED  BY <2>4, <2>6, <2>7
  <1>6. RunsRead'
    <2>1. new.key = k /\ new.points = Points(k) /\ new.seen = Len(series[k])
      OBVIOUS
    <2>2. Len(series[k]) <= Len(series[k])
      BY <1>1 DEF Position
    <2>. HIDE DEF new
    <2>. QED  BY <1>1, <1>2, <2>1, <2>2 DEF RunsRead
  <1>. QED  BY <1>2, <1>3, <1>4, <1>5, <1>6

\* The loop's runs are finitely many; with fewer of them the permits suffice.
LEMMA FewerLoopRuns ==
    ASSUME CoreTypeOK, LoopRuns' \subseteq LoopRuns
    PROVE  IsFiniteSet(LoopRuns) /\ Cardinality(LoopRuns') <= MaxParallel
  <1>1. LoopRuns \in SUBSET runs /\ IsFiniteSet(runs)
    BY DEF LoopRuns, CoreTypeOK
  <1>2. IsFiniteSet(LoopRuns)
    BY <1>1, FS_Subset
  <1>3. LoopRuns' \in SUBSET LoopRuns
    OBVIOUS
  <1>4. IsFiniteSet(LoopRuns') /\ Cardinality(LoopRuns') <= Cardinality(LoopRuns)
    BY <1>2, <1>3, FS_Subset
  <1>5. Cardinality(LoopRuns') \in Nat /\ Cardinality(LoopRuns) \in Nat /\ MaxParallel \in Nat
    BY <1>2, <1>4, FS_CardinalityType, SettingsAssumption
  <1>6. Cardinality(LoopRuns) <= MaxParallel
    BY DEF CoreTypeOK
  <1>. QED  BY <1>2, <1>4, <1>5, <1>6

\* The end of a run disturbs no other.
LEMMA RunEnds ==
    ASSUME IInv, NEW r \in runs, runs' = runs \ {r}, UNCHANGED series
    PROVE  /\ runs' \subseteq Run /\ IsFiniteSet(runs')
           /\ LoopRuns' \subseteq LoopRuns
           /\ Cardinality(LoopRuns') <= MaxParallel
           /\ RunsRead'
  <1>1. runs' \subseteq Run /\ IsFiniteSet(runs')
    BY FS_RemoveElement DEF IInv, CoreTypeOK
  <1>2. LoopRuns' \subseteq LoopRuns
    BY DEF LoopRuns
  <1>3. Cardinality(LoopRuns') <= MaxParallel
    BY <1>2, FewerLoopRuns DEF IInv
  <1>4. RunsRead'
    BY DEF IInv, RunsRead
  <1>. QED  BY <1>1, <1>2, <1>3, <1>4

\* What a run knows of its key.
LEMMA RunProperties ==
    ASSUME IInv, NEW r \in runs
    PROVE  /\ r \in Run /\ r.key \in Key /\ r.caller \in Caller \cup {"loop"}
           /\ r.points # {} /\ r.points \subseteq 1 .. Len(series[r.key])
           /\ r.seen \in Position /\ r.seen <= Len(series[r.key])
           /\ series[r.key] \in Seq(Minute)
  <1>1. r \in Run /\ r.points # {} /\ r.points \subseteq 1 .. r.seen /\ r.seen <= Len(series[r.key])
    BY DEF IInv, CoreTypeOK, RunsRead
  <1>2. r.key \in Key /\ r.caller \in Caller \cup {"loop"} /\ r.seen \in Position
    BY <1>1 DEF Run
  <1>3. series[r.key] \in Seq(Minute) /\ Len(series[r.key]) \in Nat
    BY <1>2 DEF IInv, CoreTypeOK
  <1>4. r.points \subseteq 1 .. Len(series[r.key])
    BY <1>1, <1>2, <1>3 DEF Position
  <1>. QED  BY <1>1, <1>2, <1>3, <1>4

\* The end of a run keeps the tracker resolved.
LEMMA TrackKeeps ==
    ASSUME IInv, NEW r \in runs, Track(r)
    PROVE  Tracking'
  <1>1. /\ r \in Run /\ r.key \in Key /\ r.points # {}
        /\ r.points \subseteq 1 .. Len(series[r.key]) /\ series[r.key] \in Seq(Minute)
    BY RunProperties
  <1>2. PICK q, s : q = preds[r.key] /\ s = series[r.key]
    OBVIOUS
  <1>3. q \in Seq(Prediction) /\ Len(q) <= MaxLen /\ \A i \in DOMAIN q : q[i].by # 0
    BY <1>1, <1>2 DEF IInv, Tracking
  <1>4. s \in Seq(Minute) /\ r.points \subseteq DOMAIN s
    BY <1>1, <1>2
  <1>. DEFINE u == Tracked(q, s, r)
  <1>5. u \in Seq(Prediction) /\ Len(u) <= MaxLen /\ \A i \in DOMAIN u : u[i].by # 0
    BY <1>1, <1>3, <1>4, TrackedResolves
  <1>6. preds' = [preds EXCEPT ![r.key] = u]
    BY <1>2 DEF Track
  <1>7. DOMAIN preds = Key
    BY DEF IInv, Tracking
  <1>. HIDE DEF u
  <1>8. \A k \in Key : preds'[k] = IF k = r.key THEN u ELSE preds[k]
    BY <1>6, <1>7
  <1>9. DOMAIN preds' = Key
    BY <1>6, <1>7
  <1>. QED  BY <1>5, <1>8, <1>9 DEF IInv, Tracking

\* A run stores what it saw.
LEMMA SetKeeps ==
    ASSUME IInv, NEW r \in runs, Set(r.key, r.seen), UNCHANGED now
    PROVE  /\ forecasts' \in [Key -> Entry]
           /\ Kept'
           /\ forecasts'[r.key].seen = r.seen /\ forecasts'[r.key].at # 0
           /\ \A k \in Key \ {r.key} : forecasts'[k] = forecasts[k]
  <1>1. r.key \in Key /\ r.seen \in Position /\ MaxPoints \in Nat /\ MaxMinute \in Nat
        /\ now \in 1 .. MaxMinute
    BY RunProperties, BoundsAssumption DEF IInv, CoreTypeOK
  <1>. DEFINE e == [seen |-> r.seen, at |-> now, live |-> TRUE]
  <1>2. e \in Entry /\ e.at # 0 /\ e.seen = r.seen /\ e.live = TRUE
    BY <1>1 DEF Entry, Position
  <1>3. forecasts' = [forecasts EXCEPT ![r.key] = e]
    BY DEF Set, StoreKey
  <1>. HIDE DEF e
  <1>4. /\ forecasts' \in [Key -> Entry]
        /\ forecasts'[r.key] = e
        /\ \A k \in Key \ {r.key} : forecasts'[k] = forecasts[k]
    BY <1>1, <1>2, <1>3 DEF IInv, CoreTypeOK
  <1>5. Kept'
    BY <1>2, <1>4 DEF IInv, Kept
  <1>. QED  BY <1>2, <1>4, <1>5

\* Forecasts that may have expired are dropped: what was stored of them is as
\* it was.
LEMMA DropKeeps ==
    ASSUME IInv, NEW gone \in Expiries, NEW some \in SUBSET gone,
           forecasts' = Without(some), UNCHANGED now
    PROVE  /\ forecasts' \in [Key -> Entry]
           /\ Kept'
           /\ \A k \in Key : forecasts'[k].seen = forecasts[k].seen
                             /\ forecasts'[k].at = forecasts[k].at
  <1>1. forecasts \in [Key -> Entry]
    BY DEF IInv, CoreTypeOK
  <1>2. ASSUME NEW k \in Key
        PROVE  /\ forecasts'[k] \in Entry
               /\ forecasts'[k].seen = forecasts[k].seen
               /\ forecasts'[k].at = forecasts[k].at
               /\ k \notin some => forecasts'[k].live = forecasts[k].live
    <2>. DEFINE e == forecasts[k]
                d == [e EXCEPT !.live = @ /\ k \notin some]
    <2>1. forecasts'[k] = d /\ e \in Entry
      BY <1>1 DEF Without
    <2>2. e.live \in BOOLEAN /\ (e.live /\ k \notin some) \in BOOLEAN
      BY <2>1 DEF Entry
    <2>3. d \in Entry /\ d.seen = e.seen /\ d.at = e.at /\ d.live = (e.live /\ k \notin some)
      <3>. HIDE DEF e
      <3>. QED  BY <2>1, <2>2 DEF Entry
    <2>. QED  BY <2>1, <2>2, <2>3
  <1>3. DOMAIN forecasts' = Key /\ forecasts' = [k \in Key |-> forecasts'[k]]
    BY DEF Without
  <1>4. forecasts' \in [Key -> Entry]
    BY <1>2, <1>3
  <1>5. \A k \in some : k \in Key /\ now - forecasts[k].at >= Ttl
    BY DEF Expiries
  <1>6. Kept'
    BY <1>2, <1>5 DEF IInv, Kept
  <1>. QED  BY <1>2, <1>4, <1>6

\* A read drops the forecast of its key only when it has expired.
LEMMA ReadKeeps ==
    ASSUME IInv, NEW k \in Key, Read(k), UNCHANGED now
    PROVE  /\ forecasts' \in [Key -> Entry]
           /\ Kept'
           /\ \A j \in Key : forecasts'[j].seen = forecasts[j].seen
                             /\ forecasts'[j].at = forecasts[j].at
  <1>1. PICK gone \in Expiries : forecasts' = Without(gone \cap {StoreKey(k)})
    BY DEF Read
  <1>. DEFINE some == gone \cap {StoreKey(k)}
  <1>2. some \in SUBSET gone /\ forecasts' = Without(some)
    BY <1>1
  <1>. HIDE DEF some
  <1>. QED  BY <1>2, DropKeeps

-----------------------------------------------------------------------------

\* A minute passes, or a span opens a bucket.
LEMMA ObservingKeepsIInv ==
    ASSUME IInv, Tick \/ \E k \in Key, m \in Minute : Span(k, m)
    PROVE  IInv'
  <1>1. CASE Tick
    <2>. USE <1>1 DEF Tick, stores, bounds
    <2>1. now \in Int /\ now' = now + 1 /\ Window \in Int /\ Ttl \in Int
      BY SettingsAssumption, BoundsAssumption DEF IInv, CoreTypeOK
    <2>2. CoreTypeOK'
      BY BoundsAssumption DEF IInv, CoreTypeOK, LoopRuns
    <2>3. RunsRead' /\ DueSeen' /\ Refreshing' /\ Gathering'
      BY DEF IInv, RunsRead, DueSeen, Refreshing, Running, Gathering, LoopRuns
    <2>4. Kept'
      <3>1. \A k \in Key : forecasts[k].at \in Int
        BY DEF IInv, CoreTypeOK, Entry
      <3>. QED  BY <2>1, <3>1 DEF IInv, Kept
    <2>5. Counting'
      <3>. SUFFICES ASSUME Running, NEW k \in Key, k \notin pending, NEW i \in 1 .. due[k],
                           now' - series[k][i] <= Window
                    PROVE  counts[k][i] > 0
        BY DEF Counting, Running
      <3>1. series[k][i] \in Minute
        BY DueInside
      <3>2. now - series[k][i] <= Window
        BY <2>1, <3>1 DEF Minute
      <3>. QED  BY <3>2 DEF IInv, Counting
    <2>6. Tracking'
      BY DEF IInv, Tracking
    <2>. QED  BY <2>2, <2>3, <2>4, <2>5, <2>6 DEF IInv
  <1>2. CASE \E k \in Key, m \in Minute : Span(k, m)
    <2>1. PICK k \in Key, m \in Minute : Span(k, m)
      BY <1>2
    <2>. USE <2>1 DEF Span, stores, bounds
    <2>2. /\ open' \in [Key -> 0 .. MaxMinute]
          /\ open[k] \in 0 .. MaxMinute /\ MaxMinute \in Nat /\ MaxPoints \in Nat
      BY BoundsAssumption DEF IInv, CoreTypeOK, Minute
    <2>3. /\ DOMAIN series' = Key
          /\ \A j \in Key \ {k} : series'[j] = series[j]
          /\ series'[k] = IF open[k] = 0 THEN series[k] ELSE Append(series[k], open[k])
      BY DEF IInv, CoreTypeOK
    <2>4. ASSUME NEW j \in Key
          PROVE  /\ series'[j] \in Seq(Minute) /\ Len(series'[j]) <= MaxPoints
                 /\ Len(series[j]) <= Len(series'[j])
                 /\ \A i \in 1 .. Len(series[j]) : series'[j][i] = series[j][i]
      <3>1. /\ series[j] \in Seq(Minute) /\ Len(series[j]) <= MaxPoints /\ Len(series[j]) \in Nat
            /\ j = k => Len(series[j]) < MaxPoints
        BY DEF IInv, CoreTypeOK
      <3>2. CASE series'[j] = series[j]
        <4>1. Len(series[j]) <= Len(series[j])
          BY <3>1
        <4>. QED  BY ONLY <3>1, <3>2, <4>1
      <3>3. CASE j = k /\ open[k] # 0
        <4>1. open[k] \in Minute
          BY <2>2, <3>3 DEF Minute
        <4>2. series'[j] = Append(series[j], open[k])
          BY <2>3, <3>3
        <4>3. PICK q, o : q = series[j] /\ o = open[k]
          OBVIOUS
        <4>4. q \in Seq(Minute) /\ o \in Minute /\ Len(q) \in Nat /\ Len(q) < MaxPoints
          BY <3>1, <3>3, <4>1, <4>3
        <4>5. PICK w : w = Append(q, o)
          OBVIOUS
        <4>6. /\ w \in Seq(Minute) /\ Len(w) <= MaxPoints /\ Len(q) <= Len(w)
              /\ \A i \in 1 .. Len(q) : w[i] = q[i]
          BY <2>2, <4>4, <4>5
        <4>7. series'[j] = w /\ series[j] = q
          BY <4>2, <4>3, <4>5
        <4>. QED  BY ONLY <4>6, <4>7
      <3>. QED  BY <2>3, <3>2, <3>3
    <2>5. CoreTypeOK'
      BY <2>2, <2>3, <2>4 DEF IInv, CoreTypeOK, LoopRuns
    <2>6. RunsRead'
      <3>. SUFFICES ASSUME NEW r \in runs
                    PROVE  /\ r.points # {} /\ r.points \subseteq 1 .. r.seen
                           /\ r.seen <= Len(series'[r.key])
        BY DEF RunsRead
      <3>1. r.key \in Key /\ r.seen \in Int
        BY RunProperties DEF Position
      <3>2. /\ r.points # {} /\ r.points \subseteq 1 .. r.seen
            /\ r.seen <= Len(series[r.key])
        BY DEF IInv, RunsRead
      <3>3. /\ Len(series[r.key]) <= Len(series'[r.key])
            /\ Len(series[r.key]) \in Int /\ Len(series'[r.key]) \in Int
        BY <2>4, <3>1 DEF IInv, CoreTypeOK
      <3>. QED  BY <3>1, <3>2, <3>3
    <2>7. DueSeen'
      <3>. SUFFICES ASSUME NEW j \in Key
                    PROVE  due[j] <= Len(series'[j]) /\ (due[j] # 0 => owed[j] <= due[j])
        BY DEF DueSeen
      <3>1. due[j] <= Len(series[j]) /\ (due[j] # 0 => owed[j] <= due[j])
        BY DEF IInv, DueSeen
      <3>2. /\ Len(series[j]) <= Len(series'[j]) /\ due[j] \in Int
            /\ Len(series[j]) \in Int /\ Len(series'[j]) \in Int
        BY <2>4 DEF IInv, CoreTypeOK
      <3>. QED  BY <3>1, <3>2
    <2>8. Kept' /\ Refreshing' /\ Gathering' /\ Tracking'
      BY DEF IInv, Kept, Refreshing, Running, Gathering, LoopRuns, Tracking
    <2>9. Counting'
      <3>. SUFFICES ASSUME Running, NEW j \in Key, j \notin pending, NEW i \in 1 .. due[j],
                           now - series'[j][i] <= Window
                    PROVE  counts[j][i] > 0
        BY DEF Counting, Running
      <3>1. i \in 1 .. Len(series[j])
        BY DueInside
      <3>2. series'[j][i] = series[j][i]
        BY <2>4, <3>1
      <3>. QED  BY <3>2 DEF IInv, Counting
    <2>. QED  BY <2>5, <2>6, <2>7, <2>8, <2>9 DEF IInv
  <1>. QED  BY <1>1, <1>2

\* What a cycle owes a key, once the loop's run has read its points, is known
\* to every fit of the key in progress.
LEMMA OwedProperties ==
    ASSUME IInv, NEW k \in Key, due[k] # 0,
           owed' = [owed EXCEPT ![k] = Min({due[k]} \cup
               {r.seen : r \in {r \in runs : r.key = k /\ r.phase = "fitting"}})]
    PROVE  /\ owed'[k] \in 0 .. MaxPoints /\ owed'[k] <= due[k]
           /\ \A r \in runs : r.key = k /\ r.phase = "fitting" => owed'[k] <= r.seen
           /\ \A j \in Key \ {k} : owed'[j] = owed[j]
           /\ owed' \in [Key -> 0 .. MaxPoints]
  <1>. DEFINE S == {due[k]} \cup
               {r.seen : r \in {r \in runs : r.key = k /\ r.phase = "fitting"}}
              low == Min(S)
  <1>1. due[k] \in 0 .. MaxPoints /\ MaxPoints \in Nat
    BY BoundsAssumption DEF IInv, CoreTypeOK
  <1>2. \A r \in runs : r.seen \in Position
    BY RunProperties
  <1>3. S \in SUBSET Nat /\ S # {} /\ due[k] \in S
    BY <1>1, <1>2 DEF Position
  <1>4. \A r \in runs : r.key = k /\ r.phase = "fitting" => r.seen \in S
    OBVIOUS
  <1>. HIDE DEF S
  <1>5. low \in S /\ \A x \in S : low <= x
    BY <1>3, MinInside
  <1>6. owed' = [owed EXCEPT ![k] = low] /\ owed \in [Key -> 0 .. MaxPoints]
    BY DEF S, IInv, CoreTypeOK
  <1>. HIDE DEF low
  <1>7. low \in 0 .. MaxPoints /\ low <= due[k]
    BY <1>1, <1>3, <1>5
  <1>. QED  BY <1>4, <1>5, <1>6, <1>7

\* A run begins, or a task of the loop finds too few points.
LEMMA BeginningKeepsIInv ==
    ASSUME IInv,
           \/ \E k \in Key : LoopTask(k)
           \/ \E c \in Caller, k \in Key : ApiRun(c, k)
    PROVE  IInv'
  <1>1. ASSUME NEW k \in Key, LoopTask(k), EnoughPoints(k), Begin("loop", k), UNCHANGED due,
               owed' = [owed EXCEPT ![k] = Min({due[k]} \cup
                   {r.seen : r \in {r \in runs : r.key = k /\ r.phase = "fitting"}})]
        PROVE  IInv'
    <2>. DEFINE new == [caller |-> "loop", key |-> k, points |-> Points(k),
                        seen |-> Len(series[k]), phase |-> "fitting"]
    <2>0. /\ UNCHANGED <<now, open, series, stage, forecasts, preds, cycles, calls, due>>
          /\ stage = "forecasting" /\ k \in pending /\ pending' = pending \ {k}
          /\ Cardinality(LoopRuns) < MaxParallel
      BY <1>1 DEF LoopTask, bounds
    <2>1. /\ runs' = runs \cup {new} /\ new \in Run
          /\ runs' \subseteq Run /\ IsFiniteSet(runs')
          /\ counts' \in [Key -> [Position -> Nat]]
          /\ \A j \in Key, i \in Position : counts'[j][i] >= counts[j][i]
          /\ \A i \in Points(k) : counts'[k][i] > 0
          /\ RunsRead'
      BY <1>1, <2>0, BeginKeeps
    <2>2. LoopRuns' = LoopRuns \cup {new} /\ new \in LoopRuns'
      BY <2>1 DEF LoopRuns
    <2>3. new.key = k /\ new.seen = Len(series[k]) /\ new.phase = "fitting"
      OBVIOUS
    <2>. HIDE DEF new
    <2>4. Cardinality(LoopRuns') <= MaxParallel
      <3>1. IsFiniteSet(LoopRuns)
        BY FS_Subset DEF IInv, CoreTypeOK, LoopRuns
      <3>2. Cardinality(LoopRuns) \in Nat
        BY <3>1, FS_CardinalityType
      <3>3. Cardinality(LoopRuns \cup {new}) =
               IF new \in LoopRuns THEN Cardinality(LoopRuns) ELSE Cardinality(LoopRuns) + 1
        BY <3>1, FS_AddElement
      <3>4. Cardinality(LoopRuns) < MaxParallel /\ MaxParallel \in Nat
        BY <2>0, SettingsAssumption
      <3>. QED  BY <2>2, <3>2, <3>3, <3>4
    <2>5. ASSUME NEW j \in Key, due[j] # 0
          PROVE  /\ owed'[j] <= due[j]
                 /\ \A r \in runs : r.key = j /\ r.phase = "fitting" /\ j \notin pending' =>
                        owed'[j] <= r.seen
                 /\ j # k => owed'[j] = owed[j]
      <3>1. CASE j = k
        BY <1>1, <2>5, <3>1, OwedProperties
      <3>2. CASE j # k
        <4>1. owed'[j] = owed[j]
          BY <1>1, <3>2 DEF IInv, CoreTypeOK
        <4>. QED  BY <2>0, <2>5, <3>2, <4>1 DEF IInv, DueSeen, Refreshing, Running
      <3>. QED  BY <3>1, <3>2
    <2>6. owed' \in [Key -> 0 .. MaxPoints]
      <3>1. CASE due[k] # 0
        BY <1>1, <3>1, OwedProperties
      <3>2. CASE due[k] = 0
        <4>. DEFINE S == {due[k]} \cup
                 {r.seen : r \in {r \in runs : r.key = k /\ r.phase = "fitting"}}
        <4>1. \A r \in runs : r.seen \in Position
          BY RunProperties
        <4>2. S \in SUBSET Nat /\ 0 \in S
          BY <3>2, <4>1 DEF Position
        <4>. DEFINE low == Min(S)
        <4>3. owed' = [owed EXCEPT ![k] = low]
          BY <1>1
        <4>. HIDE DEF S
        <4>4. low \in S /\ low <= 0
          BY <4>2, MinInside
        <4>. HIDE DEF low
        <4>5. low \in Nat
          BY <4>2, <4>4
        <4>6. low \in 0 .. MaxPoints
          BY <4>4, <4>5, BoundsAssumption
        <4>. QED  BY <4>3, <4>6 DEF IInv, CoreTypeOK
      <3>. QED  BY <3>1, <3>2
    <2>7. CoreTypeOK'
      <3>1. pending' \subseteq Key
        BY <2>0 DEF IInv, CoreTypeOK
      <3>. QED  BY <2>0, <2>1, <2>4, <2>6, <3>1 DEF IInv, CoreTypeOK
    <2>8. DueSeen' /\ Kept' /\ Tracking'
      <3>1. DueSeen'
        BY <2>0, <2>5 DEF IInv, DueSeen
      <3>. QED  BY <2>0, <3>1 DEF IInv, Kept, Tracking
    <2>9. Gathering'
      BY <2>0 DEF Gathering
    <2>10. Refreshing'
      <3>. SUFFICES ASSUME NEW j \in Key, due[j] # 0, j \notin pending'
                    PROVE  /\ \A r \in runs' : r.key = j /\ r.phase = "fitting" =>
                                 owed'[j] <= r.seen
                           /\ \/ \E r \in LoopRuns' : r.key = j /\ r.phase = "fitting"
                              \/ owed'[j] <= forecasts[j].seen /\ forecasts[j].at # 0
        BY <2>0 DEF Refreshing, Running
      <3>1. CASE j = k
        <4>1. owed'[k] <= due[k] /\ due[k] <= Len(series[k])
          BY <2>5, <3>1 DEF IInv, DueSeen
        <4>2. owed'[k] \in Int /\ due[k] \in Int /\ Len(series[k]) \in Int
          BY <2>6 DEF IInv, CoreTypeOK
        <4>3. owed'[k] <= new.seen
          BY <2>3, <4>1, <4>2
        <4>. QED  BY <2>1, <2>2, <2>3, <2>5, <3>1, <4>3
      <3>2. CASE j # k
        <4>1. j \notin pending /\ owed'[j] = owed[j]
          BY <2>0, <2>5, <3>2
        <4>2. \/ \E r \in LoopRuns : r.key = j /\ r.phase = "fitting"
              \/ owed[j] <= forecasts[j].seen /\ forecasts[j].at # 0
          BY <2>0, <4>1 DEF IInv, Refreshing, Running
        <4>3. \A r \in runs' : r.key = j => r \in runs
          BY <2>1, <2>3, <3>2
        <4>. QED  BY <2>2, <2>5, <4>1, <4>2, <4>3
      <3>. QED  BY <3>1, <3>2
    <2>11. Counting'
      <3>. SUFFICES ASSUME NEW j \in Key, j \notin pending', NEW i \in 1 .. due[j],
                           now - series[j][i] <= Window
                    PROVE  counts'[j][i] > 0
        BY <2>0 DEF Counting, Running
      <3>1. i \in 1 .. Len(series[j]) /\ i \in Position
        BY DueInside
      <3>2. CASE j = k
        <4>1. i \in Points(k)
          BY <3>1, <3>2 DEF Points, IInv, CoreTypeOK
        <4>. QED  BY <2>1, <3>2, <4>1
      <3>3. CASE j # k
        <4>1. counts[j][i] > 0
          BY <2>0, <3>3 DEF IInv, Counting, Running
        <4>2. counts'[j][i] >= counts[j][i] /\ counts'[j][i] \in Nat /\ counts[j][i] \in Nat
          BY <2>1, <3>1 DEF IInv, CoreTypeOK
        <4>. QED  BY <4>1, <4>2
      <3>. QED  BY <3>2, <3>3
    <2>. QED  BY <2>1, <2>7, <2>8, <2>9, <2>10, <2>11 DEF IInv
  <1>2. ASSUME NEW k \in Key, LoopTask(k),
               due' = [due EXCEPT ![k] = 0], UNCHANGED <<runs, counts, owed>>
        PROVE  IInv'
    <2>. USE <1>2 DEF LoopTask, bounds
    <2>1. due' \in [Key -> 0 .. MaxPoints] /\ \A j \in Key : due'[j] = IF j = k THEN 0 ELSE due[j]
      BY BoundsAssumption DEF IInv, CoreTypeOK
    <2>2. CoreTypeOK'
      BY <2>1 DEF IInv, CoreTypeOK, LoopRuns
    <2>3. RunsRead' /\ Kept' /\ Tracking'
      BY DEF IInv, RunsRead, Kept, Tracking
    <2>4. DueSeen'
      <3>1. \A j \in Key : 0 <= Len(series[j])
        BY DEF IInv, CoreTypeOK
      <3>. QED  BY <2>1, <3>1 DEF IInv, DueSeen
    <2>5. Gathering'
      BY DEF Gathering
    <2>6. Refreshing'
      BY <2>1 DEF IInv, Refreshing, Running, LoopRuns
    <2>7. Counting'
      <3>. SUFFICES ASSUME NEW j \in Key, j \notin pending', NEW i \in 1 .. due'[j],
                           now - series[j][i] <= Window
                    PROVE  counts[j][i] > 0
        BY DEF Counting, Running
      <3>1. j # k /\ j \notin pending /\ i \in 1 .. due[j]
        BY <2>1
      <3>. QED  BY <3>1 DEF IInv, Counting, Running
    <2>. QED  BY <2>2, <2>3, <2>4, <2>5, <2>6, <2>7 DEF IInv
  <1>3. ASSUME NEW c \in Caller, NEW k \in Key, ApiRun(c, k)
        PROVE  IInv'
    <2>. DEFINE new == [caller |-> c, key |-> k, points |-> Points(k),
                        seen |-> Len(series[k]), phase |-> "fitting"]
    <2>0. /\ UNCHANGED <<now, open, series, stage, pending, forecasts, preds, due, owed, cycles>>
          /\ EnoughPoints(k) /\ Begin(c, k) /\ calls < MaxCalls /\ calls' = calls + 1
      BY <1>3 DEF ApiRun
    <2>1. c # "loop" /\ c \in Caller \cup {"loop"}
      BY KeyAssumption
    <2>2. /\ runs' = runs \cup {new} /\ new \in Run
          /\ runs' \subseteq Run /\ IsFiniteSet(runs')
          /\ counts' \in [Key -> [Position -> Nat]]
          /\ \A j \in Key, i \in Position : counts'[j][i] >= counts[j][i]
          /\ RunsRead'
      BY <2>0, <2>1, BeginKeeps
    <2>3. LoopRuns' = LoopRuns
      BY <2>1, <2>2 DEF LoopRuns
    <2>4. new.key = k /\ new.seen = Len(series[k])
      OBVIOUS
    <2>. HIDE DEF new
    <2>5. CoreTypeOK'
      <3>1. calls' \in 0 .. MaxCalls
        BY <2>0, BoundsAssumption DEF IInv, CoreTypeOK
      <3>. QED  BY <2>0, <2>2, <2>3, <3>1 DEF IInv, CoreTypeOK
    <2>6. DueSeen' /\ Kept' /\ Tracking' /\ Gathering'
      BY <2>0, <2>3 DEF IInv, DueSeen, Kept, Tracking, Gathering
    <2>7. Refreshing'
      <3>. SUFFICES ASSUME Running, NEW j \in Key, due[j] # 0, j \notin pending
                    PROVE  /\ \A r \in runs' : r.key = j /\ r.phase = "fitting" =>
                                 owed[j] <= r.seen
                           /\ \/ \E r \in LoopRuns : r.key = j /\ r.phase = "fitting"
                              \/ owed[j] <= forecasts[j].seen /\ forecasts[j].at # 0
        BY <2>0, <2>3 DEF Refreshing, Running
      <3>1. /\ \A r \in runs : r.key = j /\ r.phase = "fitting" => owed[j] <= r.seen
            /\ \/ \E r \in LoopRuns : r.key = j /\ r.phase = "fitting"
               \/ owed[j] <= forecasts[j].seen /\ forecasts[j].at # 0
        BY DEF IInv, Refreshing
      <3>2. owed[j] <= Len(series[j])
        <4>1. owed[j] <= due[j] /\ due[j] <= Len(series[j])
          BY DEF IInv, DueSeen
        <4>2. owed[j] \in Int /\ due[j] \in Int /\ Len(series[j]) \in Int
          BY DEF IInv, CoreTypeOK
        <4>. QED  BY <4>1, <4>2
      <3>. QED  BY <2>2, <2>4, <3>1, <3>2
    <2>8. Counting'
      <3>. SUFFICES ASSUME Running, NEW j \in Key, j \notin pending, NEW i \in 1 .. due[j],
                           now - series[j][i] <= Window
                    PROVE  counts'[j][i] > 0
        BY <2>0 DEF Counting, Running
      <3>1. counts[j][i] > 0 /\ i \in Position
        BY DueInside DEF IInv, Counting
      <3>2. counts'[j][i] >= counts[j][i] /\ counts'[j][i] \in Nat /\ counts[j][i] \in Nat
        BY <2>2, <3>1 DEF IInv, CoreTypeOK
      <3>. QED  BY <3>1, <3>2
    <2>. QED  BY <2>2, <2>5, <2>6, <2>7, <2>8 DEF IInv
  <1>4. ASSUME NEW k \in Key, LoopTask(k)
        PROVE  IInv'
    BY <1>1, <1>2, <1>4 DEF LoopTask
  <1>. QED  BY <1>3, <1>4

\* A run fails, forecasts, or ends after its alert.
LEMMA EndingKeepsIInv ==
    ASSUME IInv, NEW r \in runs,
           RunFails(r) \/ Forecast(r) \/ ForecastAnomaly(r) \/ Alerted(r)
    PROVE  IInv'
  <1>. DEFINE k == r.key
  <1>0. k \in Key /\ r \in Run
    BY RunProperties
  <1>1. CASE RunFails(r)
    <2>. USE <1>1 DEF RunFails, bounds, Ended
    <2>1. /\ runs' = runs \ {r} /\ runs' \subseteq Run /\ IsFiniteSet(runs')
          /\ LoopRuns' \subseteq LoopRuns /\ Cardinality(LoopRuns') <= MaxParallel /\ RunsRead'
      BY RunEnds
    <2>2. /\ due' \in [Key -> 0 .. MaxPoints]
          /\ \A j \in Key : due'[j] = IF j = k /\ r.caller = "loop" THEN 0 ELSE due[j]
      <3>1. due \in [Key -> 0 .. MaxPoints] /\ 0 \in 0 .. MaxPoints
        BY BoundsAssumption DEF IInv, CoreTypeOK
      <3>. QED  BY <1>0, <3>1
    <2>3. /\ forecasts' \in [Key -> Entry]
          /\ Kept'
          /\ \A j \in Key : forecasts'[j].seen = forecasts[j].seen
                            /\ forecasts'[j].at = forecasts[j].at
      <3>1. CASE UNCHANGED forecasts
        BY <3>1 DEF IInv, CoreTypeOK, Kept
      <3>2. CASE Read(k)
        BY <1>0, <3>2, ReadKeeps
      <3>. QED  BY <3>1, <3>2
    <2>4. CoreTypeOK'
      BY <2>1, <2>2, <2>3 DEF IInv, CoreTypeOK
    <2>5. Tracking' /\ Gathering'
      BY <2>1 DEF IInv, Tracking, Gathering
    <2>6. DueSeen'
      <3>1. \A j \in Key : 0 <= Len(series[j])
        BY DEF IInv, CoreTypeOK
      <3>. QED  BY <2>2, <3>1 DEF IInv, DueSeen
    <2>7. Refreshing'
      <3>. SUFFICES ASSUME Running, NEW j \in Key, due'[j] # 0, j \notin pending
                    PROVE  /\ \A o \in runs' : o.key = j /\ o.phase = "fitting" => owed[j] <= o.seen
                           /\ \/ \E o \in LoopRuns' : o.key = j /\ o.phase = "fitting"
                              \/ owed[j] <= forecasts'[j].seen /\ forecasts'[j].at # 0
        BY DEF Refreshing, Running
      <3>1. due'[j] = due[j] /\ ~(j = k /\ r.caller = "loop")
        BY <2>2
      <3>2. /\ \A o \in runs : o.key = j /\ o.phase = "fitting" => owed[j] <= o.seen
            /\ \/ \E o \in LoopRuns : o.key = j /\ o.phase = "fitting"
               \/ owed[j] <= forecasts[j].seen /\ forecasts[j].at # 0
        BY <3>1 DEF IInv, Refreshing
      <3>3. \A o \in LoopRuns : o.key = j => o \in LoopRuns'
        BY <2>1, <3>1 DEF LoopRuns
      <3>. QED  BY <2>1, <2>3, <3>1, <3>2, <3>3
    <2>8. Counting'
      <3>. SUFFICES ASSUME Running, NEW j \in Key, j \notin pending, NEW i \in 1 .. due'[j],
                           now - series[j][i] <= Window
                    PROVE  counts[j][i] > 0
        BY DEF Counting, Running
      <3>1. i \in 1 .. due[j]
        BY <2>2
      <3>. QED  BY <3>1 DEF IInv, Counting
    <2>. QED  BY <2>1, <2>3, <2>4, <2>5, <2>6, <2>7, <2>8 DEF IInv
  <1>. DEFINE later == [r EXCEPT !.phase = "alerting"]
  <1>2. CASE Forecast(r) \/ ForecastAnomaly(r)
    <2>. USE <1>2 DEF Forecast, ForecastAnomaly, bounds
    <2>1. /\ r.phase = "fitting" /\ Set(k, r.seen)
          /\ UNCHANGED <<now, open, series, stage, pending, counts, due, owed, cycles, calls>>
      OBVIOUS
    <2>2. /\ forecasts' \in [Key -> Entry]
          /\ Kept'
          /\ forecasts'[k].seen = r.seen /\ forecasts'[k].at # 0
          /\ \A j \in Key \ {k} : forecasts'[j] = forecasts[j]
      BY <2>1, SetKeeps
    <2>3. later \in Run /\ later.key = k /\ later.points = r.points /\ later.seen = r.seen
          /\ later.caller = r.caller /\ later.phase = "alerting"
      BY <1>0 DEF Run
    <2>4. \/ runs' = runs \ {r}
          \/ runs' = (runs \ {r}) \cup {later}
      BY DEF Track
    <2>. HIDE DEF later
    <2>5. \A o \in runs' : \/ o \in runs \ {r}
                           \/ o = later
      BY <2>4
    <2>6. runs' \subseteq Run /\ IsFiniteSet(runs') /\ RunsRead'
      <3>1. IsFiniteSet(runs \ {r}) /\ IsFiniteSet((runs \ {r}) \cup {later})
        BY FS_RemoveElement, FS_AddElement DEF IInv, CoreTypeOK
      <3>2. runs' \subseteq Run
        BY <2>3, <2>5 DEF IInv, CoreTypeOK
      <3>3. RunsRead'
        BY <2>1, <2>3, <2>5 DEF IInv, RunsRead
      <3>. QED  BY <2>4, <3>1, <3>2, <3>3
    <2>7. Cardinality(LoopRuns') <= MaxParallel /\ (LoopRuns = {} => LoopRuns' = {})
      <3>1. CASE r.caller # "loop"
        <4>1. LoopRuns' \subseteq LoopRuns
          BY <2>3, <2>5, <3>1 DEF LoopRuns
        <4>. QED  BY <4>1, FewerLoopRuns DEF IInv
      <3>2. CASE r.caller = "loop"
        <4>1. r \in LoopRuns /\ LoopRuns' \subseteq (LoopRuns \ {r}) \cup {later}
          BY <2>5, <3>2 DEF LoopRuns
        <4>2. IsFiniteSet(LoopRuns)
          BY FS_Subset DEF IInv, CoreTypeOK, LoopRuns
        <4>. DEFINE rest == LoopRuns \ {r}
        <4>3. IsFiniteSet(rest) /\ Cardinality(rest) = Cardinality(LoopRuns) - 1
          BY <4>1, <4>2, FS_RemoveElement
        <4>. HIDE DEF rest
        <4>4. /\ IsFiniteSet(rest \cup {later})
              /\ Cardinality(rest \cup {later}) <= Cardinality(LoopRuns)
          <5>1. Cardinality(LoopRuns) \in Nat
            BY <4>2, FS_CardinalityType
          <5>2. /\ IsFiniteSet(rest \cup {later})
                /\ Cardinality(rest \cup {later}) =
                      IF later \in rest THEN Cardinality(rest) ELSE Cardinality(rest) + 1
            BY <4>3, FS_AddElement
          <5>. QED  BY <4>3, <5>1, <5>2
        <4>5. Cardinality(LoopRuns') <= Cardinality(rest \cup {later}) /\ IsFiniteSet(LoopRuns')
          <5>1. LoopRuns' \in SUBSET (rest \cup {later})
            BY <4>1 DEF rest
          <5>. QED  BY <4>4, <5>1, FS_Subset
        <4>6. /\ Cardinality(LoopRuns') \in Nat /\ Cardinality(rest \cup {later}) \in Nat
              /\ Cardinality(LoopRuns) \in Nat /\ MaxParallel \in Nat
          BY <4>2, <4>4, <4>5, FS_CardinalityType, SettingsAssumption
        <4>7. Cardinality(LoopRuns) <= MaxParallel
          BY DEF IInv, CoreTypeOK
        <4>8. Cardinality(LoopRuns') <= MaxParallel
          BY <4>4, <4>5, <4>6, <4>7
        <4>. QED  BY <4>1, <4>8
      <3>. QED  BY <3>1, <3>2
    <2>8. CoreTypeOK'
      BY <2>1, <2>2, <2>6, <2>7 DEF IInv, CoreTypeOK
    <2>9. DueSeen' /\ Gathering' /\ Counting'
      BY <2>1, <2>7 DEF IInv, DueSeen, Gathering, Counting, Running
    <2>10. Tracking'
      <3>1. CASE Forecast(r)
        BY <3>1, TrackKeeps
      <3>2. CASE ForecastAnomaly(r)
        BY <3>2 DEF IInv, Tracking
      <3>. QED  BY <3>1, <3>2
    <2>11. Refreshing'
      <3>. SUFFICES ASSUME Running, NEW j \in Key, due[j] # 0, j \notin pending
                    PROVE  /\ \A o \in runs' : o.key = j /\ o.phase = "fitting" => owed[j] <= o.seen
                           /\ \/ \E o \in LoopRuns' : o.key = j /\ o.phase = "fitting"
                              \/ owed[j] <= forecasts'[j].seen /\ forecasts'[j].at # 0
        BY <2>1 DEF Refreshing, Running
      <3>1. /\ \A o \in runs : o.key = j /\ o.phase = "fitting" => owed[j] <= o.seen
            /\ \/ \E o \in LoopRuns : o.key = j /\ o.phase = "fitting"
               \/ owed[j] <= forecasts[j].seen /\ forecasts[j].at # 0
        BY DEF IInv, Refreshing
      <3>2. \A o \in runs' : o.key = j /\ o.phase = "fitting" => owed[j] <= o.seen
        BY <2>3, <2>5, <3>1
      <3>3. CASE j = k
        BY <2>1, <2>2, <3>1, <3>2, <3>3
      <3>4. CASE j # k
        <4>1. \A o \in LoopRuns : o.key = j => o \in LoopRuns'
          BY <2>4, <3>4 DEF LoopRuns
        <4>. QED  BY <2>2, <3>1, <3>2, <3>4, <4>1
      <3>. QED  BY <3>3, <3>4
    <2>. QED  BY <2>2, <2>6, <2>8, <2>9, <2>10, <2>11 DEF IInv
  <1>3. CASE Alerted(r)
    <2>. USE <1>3 DEF Alerted, bounds
    <2>1. Track(r) /\ runs' = runs \ {r}
      BY DEF Track
    <2>2. /\ runs' \subseteq Run /\ IsFiniteSet(runs')
          /\ LoopRuns' \subseteq LoopRuns /\ Cardinality(LoopRuns') <= MaxParallel /\ RunsRead'
      BY <2>1, RunEnds
    <2>3. /\ forecasts' \in [Key -> Entry]
          /\ Kept'
          /\ \A j \in Key : forecasts'[j].seen = forecasts[j].seen
                            /\ forecasts'[j].at = forecasts[j].at
      <3>1. CASE UNCHANGED forecasts
        BY <3>1 DEF IInv, CoreTypeOK, Kept
      <3>2. CASE Read(k)
        BY <1>0, <3>2, ReadKeeps
      <3>. QED  BY <3>1, <3>2
    <2>4. CoreTypeOK'
      BY <2>2, <2>3 DEF IInv, CoreTypeOK
    <2>5. DueSeen' /\ Gathering' /\ Counting'
      BY <2>2 DEF IInv, DueSeen, Gathering, Counting, Running
    <2>6. Tracking'
      BY <2>1, TrackKeeps
    <2>7. Refreshing'
      <3>. SUFFICES ASSUME Running, NEW j \in Key, due[j] # 0, j \notin pending
                    PROVE  /\ \A o \in runs' : o.key = j /\ o.phase = "fitting" => owed[j] <= o.seen
                           /\ \/ \E o \in LoopRuns' : o.key = j /\ o.phase = "fitting"
                              \/ owed[j] <= forecasts'[j].seen /\ forecasts'[j].at # 0
        BY DEF Refreshing, Running
      <3>1. /\ \A o \in runs : o.key = j /\ o.phase = "fitting" => owed[j] <= o.seen
            /\ \/ \E o \in LoopRuns : o.key = j /\ o.phase = "fitting"
               \/ owed[j] <= forecasts[j].seen /\ forecasts[j].at # 0
        BY DEF IInv, Refreshing
      <3>2. \A o \in LoopRuns : o.phase = "fitting" => o \in LoopRuns'
        BY <2>1 DEF LoopRuns
      <3>. QED  BY <2>1, <2>3, <3>1, <3>2
    <2>. QED  BY <2>2, <2>3, <2>4, <2>5, <2>6, <2>7 DEF IInv
  <1>. QED  BY <1>1, <1>2, <1>3

\* A cycle begins, gathers its tasks and ends.
LEMMA CycleKeepsIInv ==
    ASSUME IInv, StartCycle \/ Gathered \/ CycleDone \/ CycleRaises \/ Stop
    PROVE  IInv'
  <1>1. CASE StartCycle
    <2>. USE <1>1 DEF StartCycle, stores
    <2>1. ASSUME NEW k \in Key
          PROVE  /\ due'[k] \in 0 .. MaxPoints /\ due'[k] <= Len(series[k])
                 /\ due'[k] # 0 => k \in pending'
      <3>1. due'[k] = IF EnoughPoints(k) THEN Len(series[k]) ELSE 0
        OBVIOUS
      <3>2. Len(series[k]) \in 0 .. MaxPoints /\ 0 <= Len(series[k])
            /\ Len(series[k]) <= Len(series[k])
        BY BoundsAssumption DEF IInv, CoreTypeOK
      <3>3. Len(series[k]) # 0 => series[k] # <<>>
        OBVIOUS
      <3>. QED  BY <3>1, <3>2, <3>3, BoundsAssumption
    <2>2. due' \in [Key -> 0 .. MaxPoints] /\ owed' = due'
      <3>1. due' = [k \in Key |-> due'[k]]
        OBVIOUS
      <3>. QED  BY <2>1, <3>1
    <2>3. CoreTypeOK'
      <3>1. cycles' \in 0 .. MaxCycles
        BY BoundsAssumption DEF IInv, CoreTypeOK
      <3>2. pending' \subseteq Key /\ stage' = "forecasting"
        OBVIOUS
      <3>. QED  BY <2>2, <3>1, <3>2 DEF IInv, CoreTypeOK, LoopRuns
    <2>4. RunsRead' /\ Kept' /\ Tracking' /\ Gathering'
      BY DEF IInv, RunsRead, Kept, Tracking, Gathering
    <2>5. DueSeen'
      <3>1. \A k \in Key : due'[k] <= due'[k]
        BY <2>1
      <3>. QED  BY <2>1, <2>2, <3>1 DEF DueSeen
    <2>6. Refreshing' /\ Counting'
      <3>1. \A k \in Key : k \notin pending' => due'[k] = 0
        BY <2>1
      <3>. QED  BY <3>1 DEF Refreshing, Counting
    <2>. QED  BY <2>3, <2>4, <2>5, <2>6 DEF IInv
  <1>2. CASE Gathered
    <2>. USE <1>2 DEF Gathered, stores, bounds
    <2>1. CoreTypeOK' /\ RunsRead' /\ DueSeen' /\ Kept' /\ Tracking'
      BY DEF IInv, CoreTypeOK, RunsRead, DueSeen, Kept, Tracking, LoopRuns
    <2>2. Refreshing' /\ Counting' /\ Gathering'
      BY DEF IInv, Refreshing, Counting, Gathering, Running, LoopRuns
    <2>. QED  BY <2>1, <2>2 DEF IInv
  <1>3. CASE CycleDone \/ CycleRaises \/ Stop
    <2>. USE <1>3 DEF CycleDone, CycleRaises, Stop, stores, bounds
    <2>1. /\ stage' \in {"sleeping", "stopped"} /\ pending' \subseteq pending
          /\ due' = [k \in Key |-> 0] /\ owed' = [k \in Key |-> 0]
          /\ runs' \subseteq runs
          /\ UNCHANGED <<now, open, series, preds, counts, cycles, calls>>
      BY DEF NothingDue
    <2>2. LoopRuns' \subseteq LoopRuns
      BY <2>1 DEF LoopRuns
    <2>3. runs' \subseteq Run /\ IsFiniteSet(runs') /\ Cardinality(LoopRuns') <= MaxParallel
      <3>1. runs' \in SUBSET runs /\ IsFiniteSet(runs)
        BY <2>1 DEF IInv, CoreTypeOK
      <3>2. IsFiniteSet(runs')
        BY <3>1, FS_Subset
      <3>. QED  BY <2>1, <2>2, <3>2, FewerLoopRuns DEF IInv, CoreTypeOK
    <2>4. forecasts' \in [Key -> Entry] /\ Kept'
      <3>1. CASE CycleDone
        <4>1. PICK gone \in Expiries : forecasts' = Without(gone)
          BY <3>1
        <4>2. gone \in SUBSET gone /\ UNCHANGED now
          BY <2>1
        <4>. QED  BY <4>1, <4>2, DropKeeps
      <3>2. CASE CycleRaises \/ Stop
        BY <3>2 DEF IInv, CoreTypeOK, Kept
      <3>. QED  BY <3>1, <3>2
    <2>5. /\ due' \in [Key -> 0 .. MaxPoints] /\ owed' \in [Key -> 0 .. MaxPoints]
          /\ \A k \in Key : due'[k] = 0
      BY <2>1, BoundsAssumption
    <2>6. CoreTypeOK'
      BY <2>1, <2>3, <2>4, <2>5 DEF IInv, CoreTypeOK
    <2>7. RunsRead' /\ Tracking'
      BY <2>1 DEF IInv, RunsRead, Tracking
    <2>8. DueSeen'
      <3>1. \A k \in Key : 0 <= Len(series'[k])
        BY <2>1 DEF IInv, CoreTypeOK
      <3>. QED  BY <2>5, <3>1 DEF DueSeen
    <2>9. Refreshing' /\ Counting' /\ Gathering'
      BY <2>1 DEF Refreshing, Counting, Gathering, Running
    <2>. QED  BY <2>4, <2>6, <2>7, <2>8, <2>9 DEF IInv
  <1>. QED  BY <1>1, <1>2, <1>3

\* A request reads a forecast.
LEMMA GetKeepsIInv ==
    ASSUME IInv, NEW k \in Key, Get(k)
    PROVE  IInv'
  <1>. USE DEF Get, bounds
  <1>1. /\ forecasts' \in [Key -> Entry]
        /\ Kept'
        /\ \A j \in Key : forecasts'[j].seen = forecasts[j].seen
                          /\ forecasts'[j].at = forecasts[j].at
    BY ReadKeeps
  <1>2. CoreTypeOK'
    BY <1>1 DEF IInv, CoreTypeOK, LoopRuns
  <1>3. RunsRead' /\ DueSeen' /\ Counting' /\ Gathering' /\ Tracking'
    BY DEF IInv, RunsRead, DueSeen, Counting, Running, Gathering, LoopRuns, Tracking
  <1>4. Refreshing'
    BY <1>1 DEF IInv, Refreshing, Running, LoopRuns
  <1>. QED  BY <1>1, <1>2, <1>3, <1>4 DEF IInv

\* Every step of the pipeline keeps the invariant.
THEOREM NextIInv == IInv /\ [Next]_vars => IInv'
  <1>. SUFFICES ASSUME IInv, [Next]_vars PROVE IInv'
    OBVIOUS
  <1>1. CASE UNCHANGED vars
    <2>. USE <1>1 DEF vars, stores, bounds
    <2>1. CoreTypeOK' /\ RunsRead' /\ DueSeen' /\ Kept' /\ Tracking'
      BY DEF IInv, CoreTypeOK, RunsRead, DueSeen, Kept, Tracking, LoopRuns
    <2>2. Refreshing' /\ Counting' /\ Gathering'
      BY DEF IInv, Refreshing, Counting, Gathering, Running, LoopRuns
    <2>. QED  BY <2>1, <2>2 DEF IInv
  <1>2. CASE Tick \/ \E k \in Key, m \in Minute : Span(k, m)
    BY <1>2, ObservingKeepsIInv
  <1>3. CASE \/ \E k \in Key : LoopTask(k)
             \/ \E c \in Caller, k \in Key : ApiRun(c, k)
    BY <1>3, BeginningKeepsIInv
  <1>4. CASE \E k \in Key : Get(k)
    BY <1>4, GetKeepsIInv
  <1>5. CASE \E r \in runs : RunFails(r) \/ Forecast(r) \/ ForecastAnomaly(r) \/ Alerted(r)
    BY <1>5, EndingKeepsIInv
  <1>6. CASE StartCycle \/ Gathered \/ CycleDone \/ CycleRaises \/ Stop
    BY <1>6, CycleKeepsIInv
  <1>. QED  BY <1>1, <1>2, <1>3, <1>4, <1>5, <1>6 DEF Next

\* so every state has it.
THEOREM InvariantHolds == Spec => []IInv
  BY InitIInv, NextIInv, PTL DEF Spec

-----------------------------------------------------------------------------
(* What the runs check, for every value of the constants.                  *)

\* Every variable has the type of the state it models, and the semaphore bounds
\* the loop's runs.
THEOREM TypeCorrect == Spec => []TypeOK
  <1>1. IInv => TypeOK
    BY DEF IInv, CoreTypeOK, Tracking, TypeOK
  <1>. QED  BY <1>1, InvariantHolds, PTL

\* A cycle leaves every key it could forecast with a forecast of all it could
\* see when it began, or of what a run that began before its own had seen
\* (forecaster.py:173-206, forecast_store.py:41-75).
THEOREM CyclesRefresh == Spec => []CycleRefreshes
  <1>1. IInv => CycleRefreshes
    <2>. SUFFICES ASSUME IInv, stage = "detecting", NEW k \in Key, due[k] # 0
                  PROVE  /\ forecasts[k].seen >= owed[k]
                         /\ forecasts[k].live \/ now - forecasts[k].at >= Ttl
      BY DEF CycleRefreshes
    <2>1. k \notin pending /\ LoopRuns = {}
      BY DEF IInv, Gathering
    <2>2. owed[k] <= forecasts[k].seen /\ forecasts[k].at # 0
      BY <2>1 DEF IInv, Refreshing, Running
    <2>3. owed[k] \in Int /\ forecasts[k].seen \in Int
      BY DEF IInv, CoreTypeOK, Entry
    <2>. QED  BY <2>2, <2>3 DEF IInv, Kept
  <1>. QED  BY <1>1, InvariantHolds, PTL

\* The baselines have counted every observation a cycle could see
\* (forecaster.py:425-430).
THEOREM NoneIsMissed == Spec => []NoObservationMissed
  <1>1. IInv => NoObservationMissed
    BY DEF IInv, Gathering, Counting, Running, NoObservationMissed
  <1>. QED  BY <1>1, InvariantHolds, PTL

\* The tracker has no backlog of predictions (accuracy_tracker.py:53-90).
THEOREM NoneIsUnresolved == Spec => []NothingUnresolved
  <1>1. IInv => NothingUnresolved
    BY DEF IInv, Tracking, NothingUnresolved
  <1>. QED  BY <1>1, InvariantHolds, PTL
===============================================================================
