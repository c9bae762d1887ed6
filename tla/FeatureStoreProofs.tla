------------------------- MODULE FeatureStoreProofs -------------------------
(***************************************************************************)
(* Proofs about FeatureStore, for every set of services and minutes, ring  *)
(* length, service limit and bounds.                                       *)
(***************************************************************************)
EXTENDS FeatureStore, FoldLemmas, SequenceTheorems

-----------------------------------------------------------------------------
(* Sequences of points.                                                    *)

\* What the deque keeps: points that were there, at most maxlen of them, and
\* no minute twice if none was there twice.
LEMMA RingProperties ==
    ASSUME NEW q \in Seq(Point)
    PROVE  /\ Ring(q) \in Seq(Point)
           /\ Len(Ring(q)) <= MaxLen
           /\ Minutes(Ring(q)) \subseteq Minutes(q)
           /\ DistinctMinutes(q) => DistinctMinutes(Ring(q))
<1>1. CASE Len(q) <= MaxLen
  BY <1>1 DEF Ring
<1>2. CASE ~(Len(q) <= MaxLen)
  <2> DEFINE k == Len(q) - MaxLen
  <2>1. /\ Len(q) \in Nat
        /\ k \in Nat \ {0}
        /\ k + 1 <= Len(q)
    BY <1>2, MaxLenAssumption, LenProperties
  <2>2. Ring(q) = SubSeq(q, k + 1, Len(q))
    BY <1>2 DEF Ring
  <2>3. \A i \in k + 1 .. Len(q) : q[i] \in Point
    BY <2>1, ElementOfSeq
  <2>4. /\ Ring(q) \in Seq(Point)
        /\ Len(Ring(q)) = MaxLen
        /\ \A i \in 1 .. MaxLen : Ring(q)[i] = q[k + i]
    <3>1. /\ SubSeq(q, k + 1, Len(q)) \in Seq(Point)
          /\ Len(SubSeq(q, k + 1, Len(q))) =
                IF k + 1 <= Len(q) THEN Len(q) - (k + 1) + 1 ELSE 0
          /\ \A i \in 1 .. Len(q) - (k + 1) + 1 :
                SubSeq(q, k + 1, Len(q))[i] = q[k + 1 + i - 1]
      BY <2>1, <2>3, SubSeqProperties
    <3>2. Len(q) - (k + 1) + 1 = MaxLen
      BY <2>1, MaxLenAssumption
    <3>3. \A i \in 1 .. MaxLen : k + 1 + i - 1 = k + i
      BY <2>1, MaxLenAssumption
    <3>4. QED
      BY <2>1, <2>2, <3>1, <3>2, <3>3
  <2>5. /\ DOMAIN Ring(q) = 1 .. MaxLen
        /\ DOMAIN q = 1 .. Len(q)
    BY <2>4, LenProperties
  <2>6. \A i \in 1 .. MaxLen : k + i \in 1 .. Len(q)
    BY <2>1, MaxLenAssumption
  <2>7. Minutes(Ring(q)) \subseteq Minutes(q)
    BY <2>4, <2>5, <2>6 DEF Minutes
  <2>8. ASSUME DistinctMinutes(q)
        PROVE  DistinctMinutes(Ring(q))
    <3>1. ASSUME NEW i \in 1 .. MaxLen, NEW j \in 1 .. MaxLen, i # j
          PROVE  Ring(q)[i].minute # Ring(q)[j].minute
      <4>1. k + i # k + j
        BY <2>1, <3>1, MaxLenAssumption
      <4>2. q[k + i].minute # q[k + j].minute
        BY <2>5, <2>6, <2>8, <4>1 DEF DistinctMinutes
      <4>3. QED
        BY <2>4, <4>2
    <3>2. QED
      BY <2>5, <3>1 DEF DistinctMinutes
  <2>9. QED
    BY <2>4, <2>7, <2>8, MaxLenAssumption
<1>3. QED
  BY <1>1, <1>2

\* Appending points to a series: the minutes add up, and stay distinct when
\* the new minutes are distinct and were not there.
LEMMA ConcatMinutes ==
    ASSUME NEW p \in Seq(Point), NEW q \in Seq(Point)
    PROVE  /\ p \o q \in Seq(Point)
           /\ Minutes(p \o q) = Minutes(p) \cup Minutes(q)
           /\ DistinctMinutes(p) /\ DistinctMinutes(q)
                 /\ Minutes(p) \cap Minutes(q) = {}
              => DistinctMinutes(p \o q)
<1> DEFINE n == Len(p)
           m == Len(q)
           r == p \o q
<1>1. /\ n \in Nat /\ m \in Nat
      /\ r \in Seq(Point)
      /\ Len(r) = n + m
      /\ \A i \in 1 .. n + m : r[i] = IF i <= n THEN p[i] ELSE q[i - n]
  BY ConcatProperties, LenProperties
<1>2. /\ DOMAIN p = 1 .. n
      /\ DOMAIN q = 1 .. m
      /\ DOMAIN r = 1 .. n + m
  BY <1>1, LenProperties
<1> HIDE DEF n, m, r
<1>3. Minutes(r) \subseteq Minutes(p) \cup Minutes(q)
  <2>1. ASSUME NEW i \in 1 .. n + m
        PROVE  r[i].minute \in Minutes(p) \cup Minutes(q)
    <3>1. CASE i <= n
      <4>1. i \in 1 .. n /\ r[i] = p[i]
        BY <1>1, <3>1
      <4>2. QED
        BY <1>2, <4>1 DEF Minutes
    <3>2. CASE ~(i <= n)
      <4>1. i - n \in 1 .. m /\ r[i] = q[i - n]
        BY <1>1, <3>2
      <4>2. QED
        BY <1>2, <4>1 DEF Minutes
    <3>3. QED
      BY <3>1, <3>2
  <2>2. QED
    BY <1>2, <2>1 DEF Minutes
<1>4. Minutes(p) \cup Minutes(q) \subseteq Minutes(r)
  <2>1. ASSUME NEW i \in 1 .. n
        PROVE  p[i].minute \in Minutes(r)
    <3>1. i \in 1 .. n + m /\ i <= n
      BY <1>1
    <3>2. QED
      BY <1>1, <1>2, <3>1 DEF Minutes
  <2>2. ASSUME NEW i \in 1 .. m
        PROVE  q[i].minute \in Minutes(r)
    <3>1. n + i \in 1 .. n + m /\ ~(n + i <= n) /\ (n + i) - n = i
      BY <1>1
    <3>2. QED
      BY <1>1, <1>2, <3>1 DEF Minutes
  <2>3. QED
    BY <1>2, <2>1, <2>2 DEF Minutes
<1>5. ASSUME DistinctMinutes(p), DistinctMinutes(q),
             Minutes(p) \cap Minutes(q) = {}
      PROVE  DistinctMinutes(r)
  <2>1. ASSUME NEW i \in 1 .. n + m, NEW j \in 1 .. n + m, i # j
        PROVE  r[i].minute # r[j].minute
    <3>1. CASE i <= n /\ j <= n
      <4>1. i \in 1 .. n /\ j \in 1 .. n
        BY <1>1, <3>1
      <4>2. QED
        BY <1>1, <1>2, <1>5, <2>1, <3>1, <4>1 DEF DistinctMinutes
    <3>2. CASE ~(i <= n) /\ ~(j <= n)
      <4>1. i - n \in 1 .. m /\ j - n \in 1 .. m /\ i - n # j - n
        BY <1>1, <2>1, <3>2
      <4>2. r[i] = q[i - n] /\ r[j] = q[j - n]
        BY <1>1, <3>2
      <4>3. i - n \in DOMAIN q /\ j - n \in DOMAIN q
        BY <1>2, <4>1
      <4>4. q[i - n].minute # q[j - n].minute
        BY ONLY <1>5, <4>1, <4>3 DEF DistinctMinutes
      <4>5. QED
        BY ONLY <4>2, <4>4
    <3>3. CASE i <= n /\ ~(j <= n)
      <4>1. i \in 1 .. n /\ j - n \in 1 .. m
        BY <1>1, <3>3
      <4>2. p[i].minute \in Minutes(p) /\ q[j - n].minute \in Minutes(q)
        BY <1>2, <4>1 DEF Minutes
      <4>3. QED
        BY <1>1, <1>5, <3>3, <4>2
    <3>4. CASE ~(i <= n) /\ j <= n
      <4>1. j \in 1 .. n /\ i - n \in 1 .. m
        BY <1>1, <3>4
      <4>2. p[j].minute \in Minutes(p) /\ q[i - n].minute \in Minutes(q)
        BY <1>2, <4>1 DEF Minutes
      <4>3. QED
        BY <1>1, <1>5, <3>4, <4>2
    <3>5. QED
      BY <3>1, <3>2, <3>3, <3>4
  <2>2. QED
    BY <1>2, <2>1 DEF DistinctMinutes
<1>6. QED
  BY <1>1, <1>3, <1>4, <1>5 DEF r

-----------------------------------------------------------------------------
(* The LRU.                                                                *)

\* A touch of s evicts only other services and keeps the store within its
\* limit: s is younger than every other service, so it is never the victim.
LEMMA EvictionProperties ==
    ASSUME tracked \subseteq Service, CardinalityBounded,
           NEW s \in Service, NEW evicted \in Evictions(s)
    PROVE  /\ evicted \subseteq Service
           /\ s \notin evicted
           /\ Cardinality((tracked \cup {s}) \ evicted) <= MaxServices
<1> DEFINE lru == tracked \cup {s}
<1>1. /\ IsFiniteSet(tracked) /\ IsFiniteSet(lru)
      /\ Cardinality(tracked) \in Nat /\ Cardinality(lru) \in Nat
  <2>1. IsFiniteSet(tracked)
    BY ServiceAssumption, FS_Subset
  <2>2. IsFiniteSet(lru)
    BY <2>1, FS_AddElement
  <2>3. QED
    BY <2>1, <2>2, FS_CardinalityType
<1>2. Cardinality(lru) =
         IF s \in tracked THEN Cardinality(tracked) ELSE Cardinality(tracked) + 1
  BY <1>1, FS_AddElement
<1>3. CASE s \notin tracked /\ Cardinality(lru) > MaxServices
  <2>1. PICK v \in Oldest(lru, TouchOrder(s)) : evicted = {v}
    BY <1>3 DEF Evictions
  <2>2. tracked # {}
    <3>1. Cardinality(tracked) # 0
      BY <1>1, <1>2, <1>3, MaxServicesAssumption
    <3>2. QED
      BY <3>1, <1>1, FS_EmptySet
  <2>3. PICK u \in tracked : u # s
    BY <1>3, <2>2
  <2>4. <<u, s>> \in TouchOrder(s)
    BY <2>3 DEF TouchOrder
  <2>5. v \in lru /\ v # s
    BY <2>1, <2>3, <2>4 DEF Oldest
  <2>6. Cardinality(lru \ {v}) = Cardinality(lru) - 1
    BY <1>1, <2>5, FS_RemoveElement
  <2>7. QED
    BY <1>1, <1>2, <1>3, <2>1, <2>5, <2>6, MaxServicesAssumption
        DEF CardinalityBounded
<1>4. CASE ~(s \notin tracked /\ Cardinality(lru) > MaxServices)
  <2>1. evicted = {}
    BY <1>4 DEF Evictions
  <2>2. lru \ evicted = lru
    BY <2>1
  <2>3. Cardinality(lru) <= MaxServices
    <3>1. CASE s \in tracked
      BY <1>1, <1>2, <3>1 DEF CardinalityBounded
    <3>2. CASE s \notin tracked
      BY <1>1, <1>4, <3>2, MaxServicesAssumption
    <3>3. QED
      BY <3>1, <3>2
  <2>4. QED
    BY <2>1, <2>2, <2>3
<1>5. QED
  BY <1>3, <1>4

-----------------------------------------------------------------------------
(* The inductive invariant.                                                *)

\* The invariants need one another: the eviction bound and the absence of
\* leftovers make a touch safe, the index makes ingest_red's check enough.
IInv ==
    /\ TypeOK
    /\ CardinalityBounded
    /\ NoOrphanState
    /\ IndexCoversSeries
    /\ StartupMinutesDistinct

\* A process that has not loaded anything yet satisfies the invariant.
THEOREM InitIInv == Init => IInv
<1> SUFFICES ASSUME Init PROVE IInv
  OBVIOUS
<1>1. Cardinality({}) = 0 /\ IsFiniteSet({})
  BY FS_EmptySet
<1>2. <<>> \in Seq(Point) /\ Len(<<>>) = 0 /\ DOMAIN <<>> = {}
  OBVIOUS
<1>3. TypeOK
  BY <1>1, <1>2, MaxLenAssumption DEF Init, TypeOK, Phase
<1>4. CardinalityBounded
  BY <1>1, MaxServicesAssumption DEF Init, CardinalityBounded
<1>5. NoOrphanState
  BY DEF Init, NoOrphanState
<1>6. IndexCoversSeries
  BY <1>2 DEF Init, IndexCoversSeries, Minutes
<1>7. StartupMinutesDistinct
  BY <1>2 DEF Init, StartupMinutesDistinct, DistinctMinutes
<1>8. QED
  BY <1>3, <1>4, <1>5, <1>6, <1>7 DEF IInv

\* A handler that touches s and then stores points and a bucket for it keeps
\* every part of the invariant that does not depend on the phase, and adds no
\* minute twice when it adds only minutes that are not indexed.
LEMMA StoreKeepsInvariant ==
    ASSUME IInv, NEW s \in Service, NEW evicted \in Evictions(s),
           NEW q \in Seq(Point), NEW b \in Seq(Point), Len(b) <= 1, NEW n,
           Touch(s, evicted), Store(s, evicted, q, b, n)
    PROVE  /\ tracked' \subseteq Service
           /\ older' \subseteq Service \X Service
           /\ bucket' \in [Service -> Seq(Point)]
           /\ \A t \in Service : Len(bucket'[t]) <= 1
           /\ series' \in [Service -> Seq(Point)]
           /\ \A t \in Service : Len(series'[t]) <= MaxLen
           /\ tsIndex' \in [Service -> SUBSET Minute]
           /\ DOMAIN held' = Service
           /\ CardinalityBounded'
           /\ NoOrphanState'
           /\ IndexCoversSeries'
           /\ (/\ \A t \in Service : DistinctMinutes(series[t])
               /\ DistinctMinutes(q)
               /\ Minutes(q) \cap tsIndex[s] = {})
              => \A t \in Service : DistinctMinutes(series'[t])
<1> USE DEF IInv
<1>1. /\ evicted \subseteq Service
      /\ s \notin evicted
      /\ Cardinality((tracked \cup {s}) \ evicted) <= MaxServices
  BY EvictionProperties DEF TypeOK
<1>2. /\ tracked' \subseteq Service
      /\ older' \subseteq Service \X Service
      /\ CardinalityBounded'
  BY <1>1 DEF Touch, TouchOrder, TypeOK, CardinalityBounded
<1>3. \A t \in evicted : t \notin tracked' /\ t # s
  BY <1>1 DEF Touch
<1>4. s \in tracked' /\ \A t \in Service \ tracked' : t \in evicted \/ t \notin tracked
  BY <1>1 DEF Touch
<1>5. \A t \in Service :
         /\ series'[t] = IF t = s THEN Ring(series[s] \o q)
                         ELSE IF t \in evicted THEN <<>> ELSE series[t]
         /\ tsIndex'[t] = IF t = s THEN tsIndex[s] \cup Minutes(q)
                          ELSE IF t \in evicted THEN {} ELSE tsIndex[t]
         /\ bucket'[t] = IF t = s THEN b
                         ELSE IF t \in evicted THEN <<>> ELSE bucket[t]
  BY <1>1 DEF Store, Forget, Indexed, TypeOK
<1>6. /\ DOMAIN series' = Service /\ DOMAIN tsIndex' = Service
      /\ DOMAIN bucket' = Service /\ DOMAIN held' = Service
  BY DEF Store, Forget
<1>7. series' = [t \in Service |-> series'[t]]
      /\ tsIndex' = [t \in Service |-> tsIndex'[t]]
      /\ bucket' = [t \in Service |-> bucket'[t]]
  BY <1>6 DEF Store, Forget
<1>8. /\ <<>> \in Seq(Point) /\ Len(<<>>) = 0 /\ Minutes(<<>>) = {}
      /\ DistinctMinutes(<<>>)
  BY DEF Minutes, DistinctMinutes
<1>9. /\ series[s] \o q \in Seq(Point)
      /\ Minutes(series[s] \o q) = Minutes(series[s]) \cup Minutes(q)
      /\ DistinctMinutes(series[s]) /\ DistinctMinutes(q)
            /\ Minutes(series[s]) \cap Minutes(q) = {}
         => DistinctMinutes(series[s] \o q)
  BY ConcatMinutes DEF TypeOK
<1>10. /\ Ring(series[s] \o q) \in Seq(Point)
       /\ Len(Ring(series[s] \o q)) <= MaxLen
       /\ Minutes(Ring(series[s] \o q)) \subseteq Minutes(series[s]) \cup Minutes(q)
       /\ DistinctMinutes(series[s] \o q) => DistinctMinutes(Ring(series[s] \o q))
  BY <1>9, RingProperties
<1>11. Minutes(q) \subseteq Minute
  <2>1. ASSUME NEW i \in DOMAIN q
        PROVE  q[i].minute \in Minute
    <3>1. i \in 1 .. Len(q)
      BY LenProperties
    <3>2. q[i] \in Point
      BY <3>1, ElementOfSeq
    <3>3. QED
      BY <3>2 DEF Point
  <2>2. QED
    BY <2>1 DEF Minutes
<1>12. \A t \in Service : series'[t] \in Seq(Point) /\ Len(series'[t]) <= MaxLen
  <2>1. \A t \in Service : series[t] \in Seq(Point) /\ Len(series[t]) <= MaxLen
    BY DEF TypeOK
  <2>2. Len(<<>>) <= MaxLen
    BY <1>8, MaxLenAssumption
  <2>3. ASSUME NEW t \in Service
        PROVE  series'[t] \in {Ring(series[s] \o q), <<>>, series[t]}
    BY <1>5
  <2>4. QED
    BY <1>8, <1>10, <2>1, <2>2, <2>3
<1>13. \A t \in Service : bucket'[t] \in Seq(Point) /\ Len(bucket'[t]) <= 1
  <2>1. \A t \in Service : bucket[t] \in Seq(Point) /\ Len(bucket[t]) <= 1
    BY DEF TypeOK
  <2>2. Len(<<>>) <= 1
    BY <1>8
  <2>3. ASSUME NEW t \in Service
        PROVE  bucket'[t] \in {b, <<>>, bucket[t]}
    BY <1>5
  <2>4. QED
    BY <1>8, <2>1, <2>2, <2>3
<1>14. \A t \in Service : tsIndex'[t] \subseteq Minute
  BY <1>5, <1>11 DEF TypeOK
<1>15. NoOrphanState'
  <2>1. ASSUME NEW t \in Service, t \notin tracked'
        PROVE  bucket'[t] = <<>> /\ series'[t] = <<>> /\ tsIndex'[t] = {}
    BY <1>3, <1>4, <1>5, <2>1 DEF NoOrphanState
  <2>2. QED
    BY <2>1 DEF NoOrphanState
<1>16. IndexCoversSeries'
  <2>1. ASSUME NEW t \in Service
        PROVE  Minutes(series'[t]) \subseteq tsIndex'[t]
    BY <1>5, <1>8, <1>10 DEF IndexCoversSeries
  <2>2. QED
    BY <2>1 DEF IndexCoversSeries, Minutes
<1>17. ASSUME \A t \in Service : DistinctMinutes(series[t]),
              DistinctMinutes(q), Minutes(q) \cap tsIndex[s] = {}
       PROVE  \A t \in Service : DistinctMinutes(series'[t])
  <2>1. Minutes(series[s]) \cap Minutes(q) = {}
    BY <1>17 DEF IndexCoversSeries
  <2>2. QED
    BY <1>5, <1>8, <1>9, <1>10, <1>17, <2>1
<1>18. QED
  BY <1>2, <1>6, <1>7, <1>12, <1>13, <1>14, <1>15, <1>16, <1>17

\* load_from_redis: the points it appends come from Redis, none of an indexed
\* minute and only one of each minute.
LEMMA LoadedProperties ==
    ASSUME TypeOK, NEW s \in Service,
           NEW q \in [1..Cardinality(Loaded(redis[s], tsIndex[s]))
                          -> Loaded(redis[s], tsIndex[s])],
           \A i, j \in DOMAIN q : i < j => Before(q[i], q[j])
    PROVE  /\ q \in Seq(Point)
           /\ DistinctMinutes(q)
           /\ Minutes(q) \cap tsIndex[s] = {}
<1> DEFINE points == Loaded(redis[s], tsIndex[s])
           n == Cardinality(points)
<1>1. points \subseteq redis[s] /\ redis[s] \subseteq Point
  BY DEF Loaded, TypeOK
<1>2. n \in Nat
  BY <1>1, FS_Subset, FS_CardinalityType DEF TypeOK
<1>3. DOMAIN q = 1 .. n /\ \A i \in 1 .. n : q[i] \in points
  OBVIOUS
<1> HIDE DEF n, points
<1>4. q \in Seq(Point)
  <2>1. q \in [1 .. n -> Point]
    BY <1>1, <1>3 DEF n, points
  <2>2. QED
    BY <1>2, <2>1
<1>5. ASSUME NEW i \in 1 .. n, NEW j \in 1 .. n, i < j
      PROVE  q[i].minute # q[j].minute
  <2>1. Before(q[i], q[j])
    BY <1>3, <1>5
  <2>2. q[i] \in redis[s]
    BY <1>1, <1>3
  <2>3. q[i].minute = q[j].minute => ~Before(q[i], q[j])
    BY <1>3, <2>2 DEF points, Loaded
  <2>4. QED
    BY <2>1, <2>3
<1>6. DistinctMinutes(q)
  <2>1. ASSUME NEW i \in 1 .. n, NEW j \in 1 .. n, i # j
        PROVE  q[i].minute # q[j].minute
    <3>1. i < j \/ j < i
      BY <1>2, <2>1
    <3>2. QED
      BY <1>5, <3>1
  <2>2. QED
    BY <1>3, <2>1 DEF DistinctMinutes
<1>7. Minutes(q) \cap tsIndex[s] = {}
  <2>1. ASSUME NEW i \in 1 .. n
        PROVE  q[i].minute \notin tsIndex[s]
    BY <1>3 DEF points, Loaded
  <2>2. QED
    BY <1>3, <2>1 DEF Minutes
<1>8. QED
  BY <1>4, <1>6, <1>7

\* Every step of the store keeps the inductive invariant: one case per handler.
THEOREM NextIInv == IInv /\ [Next]_vars => IInv'
<1> SUFFICES ASSUME IInv, [Next]_vars
             PROVE  IInv'
  OBVIOUS
<1> USE DEF IInv
<1>1. ASSUME NEW s \in Service, LoadService(s)
      PROVE  IInv'
  <2> DEFINE points == Loaded(redis[s], tsIndex[s])
  <2>1. PICK evicted \in Evictions(s), q \in [1..Cardinality(points) -> points] :
           /\ \A i, j \in DOMAIN q : i < j => Before(q[i], q[j])
           /\ Touch(s, evicted)
           /\ Store(s, evicted, q, bucket[s], Weight(q))
    BY <1>1 DEF LoadService
  <2>2. /\ q \in Seq(Point)
        /\ DistinctMinutes(q)
        /\ Minutes(q) \cap tsIndex[s] = {}
    BY <2>1, LoadedProperties
  <2>3. bucket[s] \in Seq(Point) /\ Len(bucket[s]) <= 1
    BY DEF TypeOK
  <2>4. /\ phase = "preload" /\ phase' = "preload"
        /\ toLoad' = toLoad \ {s}
        /\ UNCHANGED <<cursor, persisting, redis, known, written, spans, restarts>>
    BY <1>1 DEF LoadService, external, bounds
  <2>5. \A t \in Service : DistinctMinutes(series[t])
    BY <2>4 DEF StartupMinutesDistinct
  <2> HIDE DEF points
  <2>6. /\ TypeOK' /\ CardinalityBounded' /\ NoOrphanState' /\ IndexCoversSeries'
        /\ \A t \in Service : DistinctMinutes(series'[t])
    BY <2>1, <2>2, <2>3, <2>4, <2>5, StoreKeepsInvariant DEF TypeOK
  <2>7. StartupMinutesDistinct'
    BY ONLY <2>6 DEF StartupMinutesDistinct, DistinctMinutes
  <2>8. QED
    BY ONLY <2>6, <2>7 DEF IInv
<1>2. ASSUME NEW s \in Service, LoadFails(s)
      PROVE  IInv'
  <2>1. /\ toLoad' \subseteq toLoad
        /\ UNCHANGED <<phase, cursor, tracked, older, bucket, series, tsIndex, held,
                       persisting, redis, known, written, spans, restarts>>
    BY <1>2 DEF LoadFails, external, bounds
  <2>2. TypeOK'
    BY <2>1 DEF TypeOK
  <2>3. CardinalityBounded' /\ NoOrphanState'
    BY <2>1 DEF CardinalityBounded, NoOrphanState
  <2>4. IndexCoversSeries'
    BY <2>1 DEF IndexCoversSeries, Minutes
  <2>5. StartupMinutesDistinct'
    BY <2>1 DEF StartupMinutesDistinct, DistinctMinutes
  <2>6. QED
    BY ONLY <2>2, <2>3, <2>4, <2>5 DEF IInv
<1>3. CASE PreloadDone
  BY <1>3 DEF PreloadDone, memory, external, bounds, TypeOK, Phase,
              CardinalityBounded, NoOrphanState, IndexCoversSeries,
              StartupMinutesDistinct, DistinctMinutes, Minutes
<1>4. ASSUME NEW s \in Service, NEW p \in Point, IngestRed(s, p)
      PROVE  IInv'
  <2>1. PICK evicted \in Evictions(s) :
           /\ Touch(s, evicted)
           /\ LET duplicate == p.minute \in Forget(tsIndex, evicted, {})[s]
                  kept == Forget(bucket, evicted, <<>>)[s]
              IN  \/ /\ duplicate
                     /\ Store(s, evicted, <<>>, kept, 0)
                     /\ UNCHANGED persisting
                  \/ /\ ~duplicate
                     /\ Store(s, evicted, <<p>>, kept, p.count)
                     /\ persisting' = {<<s, p>>}
    BY <1>4 DEF IngestRed
  <2>2. s \notin evicted
    BY EvictionProperties DEF TypeOK
  <2>3. Forget(tsIndex, evicted, {})[s] = tsIndex[s]
        /\ Forget(bucket, evicted, <<>>)[s] = bucket[s]
    BY <2>2 DEF Forget
  <2>4. PICK q \in {<<>>, <<p>>}, n \in {0, p.count} :
           /\ Store(s, evicted, q, bucket[s], n)
           /\ q = <<>> \/ p.minute \notin tsIndex[s]
           /\ persisting' \in {persisting, {<<s, p>>}}
    BY <2>1, <2>3
  <2>5. /\ q \in Seq(Point)
        /\ DistinctMinutes(q)
        /\ Minutes(q) \cap tsIndex[s] = {}
    <3>1. CASE q = <<>>
      BY <3>1 DEF DistinctMinutes, Minutes
    <3>2. CASE q = <<p>>
      <4>1. p.minute \notin tsIndex[s]
        BY <2>4, <3>2
      <4>2. DOMAIN q = {1} /\ q[1] = p /\ q \in Seq(Point)
        BY <3>2
      <4>3. QED
        BY <4>1, <4>2 DEF DistinctMinutes, Minutes
    <3>3. QED
      BY <3>1, <3>2
  <2>6. bucket[s] \in Seq(Point) /\ Len(bucket[s]) <= 1
    BY DEF TypeOK
  <2>7. /\ phase = "backfill" /\ phase' = "backfill"
        /\ cursor' = [cursor EXCEPT ![s] = p.minute]
        /\ UNCHANGED <<toLoad, redis, known, written, spans, restarts>>
    BY <1>4 DEF IngestRed, external, bounds
  <2>8. \A t \in Service : DistinctMinutes(series[t])
    BY <2>7 DEF StartupMinutesDistinct
  <2>9. persisting' \subseteq Service \X Point /\ cursor' \in [Service -> Nat]
    <3>1. p.minute \in Nat
      BY MinuteAssumption DEF Point
    <3>2. cursor' \in [Service -> Nat]
      BY <2>7, <3>1 DEF TypeOK
    <3>3. {<<s, p>>} \subseteq Service \X Point
      OBVIOUS
    <3>4. persisting \subseteq Service \X Point
      BY DEF TypeOK
    <3>5. QED
      BY <2>4, <3>2, <3>3, <3>4
  <2>10. /\ tracked' \subseteq Service
         /\ older' \subseteq Service \X Service
         /\ bucket' \in [Service -> Seq(Point)]
         /\ \A t \in Service : Len(bucket'[t]) <= 1
         /\ series' \in [Service -> Seq(Point)]
         /\ \A t \in Service : Len(series'[t]) <= MaxLen
         /\ tsIndex' \in [Service -> SUBSET Minute]
         /\ DOMAIN held' = Service
         /\ CardinalityBounded' /\ NoOrphanState' /\ IndexCoversSeries'
         /\ \A t \in Service : DistinctMinutes(series'[t])
    BY <2>1, <2>4, <2>5, <2>6, <2>8, StoreKeepsInvariant
  <2>11. TypeOK'
    BY <2>7, <2>9, <2>10 DEF TypeOK
  <2>12. QED
    BY <2>10, <2>11 DEF StartupMinutesDistinct, DistinctMinutes
<1>5. CASE BackfillDone
  BY <1>5 DEF BackfillDone, memory, external, bounds, TypeOK, Phase,
              CardinalityBounded, NoOrphanState, IndexCoversSeries,
              StartupMinutesDistinct, Minutes
<1>6. ASSUME NEW s \in Service, NEW m \in Minute, Update(s, m)
      PROVE  IInv'
  <2>1. PICK evicted \in Evictions(s) :
           LET b == Forget(bucket, evicted, <<>>)[s]
               closed == Closed(b, m)
           IN  /\ m \in Minutes(b) => b[1].count < MaxCount
               /\ Touch(s, evicted)
               /\ Store(s, evicted, closed, Opened(b, m), 1)
               /\ persisting' =
                     persisting \cup {<<s, closed[i]>> : i \in DOMAIN closed}
    BY <1>6 DEF Update
  <2>2. s \notin evicted
    BY EvictionProperties DEF TypeOK
  <2> DEFINE b == bucket[s]
             closed == Closed(b, m)
  <2>3. Forget(bucket, evicted, <<>>)[s] = b
    BY <2>2 DEF Forget
  <2>4. /\ m \in Minutes(b) => b[1].count < MaxCount
        /\ Touch(s, evicted)
        /\ Store(s, evicted, closed, Opened(b, m), 1)
        /\ persisting' = persisting \cup {<<s, closed[i]>> : i \in DOMAIN closed}
    BY <2>1, <2>3
  <2>5. b \in Seq(Point) /\ Len(b) <= 1
    BY DEF TypeOK
  <2>6. closed \in Seq(Point)
    BY <2>5 DEF Closed
  <2>7. Opened(b, m) \in Seq(Point) /\ Len(Opened(b, m)) <= 1
    <3>1. CASE m \in Minutes(b)
      <4>1. PICK i \in DOMAIN b : b[i].minute = m
        BY <3>1 DEF Minutes
      <4>2. DOMAIN b = 1 .. Len(b) /\ Len(b) \in Nat
        BY <2>5, LenProperties
      <4>3. 1 \in 1 .. Len(b)
        BY <2>5, <4>1, <4>2
      <4>4. b[1] \in Point
        BY <2>5, <4>3, ElementOfSeq
      <4>5. [b[1] EXCEPT !.count = @ + 1] \in Point
        BY <2>4, <3>1, <4>4, BoundsAssumption DEF Point
      <4>6. Opened(b, m) = <<[b[1] EXCEPT !.count = @ + 1]>>
        BY <3>1 DEF Opened
      <4>7. QED
        BY <4>5, <4>6
    <3>2. CASE m \notin Minutes(b)
      <4>1. [minute |-> m, count |-> 1] \in Point
        BY BoundsAssumption DEF Point
      <4>2. Opened(b, m) = <<[minute |-> m, count |-> 1]>>
        BY <3>2 DEF Opened
      <4>3. QED
        BY <4>1, <4>2
    <3>3. QED
      BY <3>1, <3>2
  <2>8. \A i \in DOMAIN closed : closed[i] \in Point
    BY <2>6, LenProperties, ElementOfSeq
  <2>9. /\ phase = "live" /\ phase' = "live"
        /\ spans' = spans + 1
        /\ UNCHANGED <<toLoad, cursor, redis, known, written, restarts>>
    BY <1>6 DEF Update, external
  <2>10. persisting' \subseteq Service \X Point
    BY <2>4, <2>8 DEF TypeOK
  <2> HIDE DEF b, closed
  <2>11. /\ tracked' \subseteq Service
         /\ older' \subseteq Service \X Service
         /\ bucket' \in [Service -> Seq(Point)]
         /\ \A t \in Service : Len(bucket'[t]) <= 1
         /\ series' \in [Service -> Seq(Point)]
         /\ \A t \in Service : Len(series'[t]) <= MaxLen
         /\ tsIndex' \in [Service -> SUBSET Minute]
         /\ DOMAIN held' = Service
         /\ CardinalityBounded' /\ NoOrphanState' /\ IndexCoversSeries'
    BY <2>4, <2>6, <2>7, StoreKeepsInvariant
  <2>12. TypeOK'
    <3>1. /\ phase' \in Phase /\ spans' \in Nat /\ restarts' \in Nat
          /\ toLoad' \subseteq Service /\ cursor' \in [Service -> Nat]
          /\ redis' \in [Service -> SUBSET Point] /\ known' \subseteq Service
          /\ \A t \in Service : IsFiniteSet(redis'[t])
          /\ written' \in [Service -> SUBSET Point]
      BY <2>9 DEF TypeOK, Phase
    <3>2. QED
      BY <2>10, <2>11, <3>1 DEF TypeOK
  <2>13. QED
    BY <2>9, <2>11, <2>12 DEF StartupMinutesDistinct
<1>7. ASSUME NEW t \in persisting, Persist(t)
      PROVE  IInv'
  <2> DEFINE s == t[1]
             p == t[2]
             S == redis[s] \cup {p}
  <2>1. s \in Service /\ p \in Point
    BY DEF TypeOK
  <2>2. /\ persisting' = persisting \ {t}
        /\ redis' = [redis EXCEPT ![s] = Newest(S)]
        /\ known' = known \cup {s}
        /\ written' = [written EXCEPT ![s] = @ \cup {p}]
        /\ UNCHANGED <<phase, toLoad, cursor, tracked, older, bucket, series,
                       tsIndex, held, spans, restarts>>
    BY <1>7 DEF Persist, memory, bounds
  <2>3. S \subseteq Point /\ IsFiniteSet(S)
    BY <2>1, FS_AddElement DEF TypeOK
  <2>4. Newest(S) \subseteq Point /\ IsFiniteSet(Newest(S))
    <3>1. Newest(S) \subseteq S
      BY DEF Newest
    <3>2. QED
      BY <2>3, <3>1, FS_Subset
  <2> HIDE DEF S
  <2>5. /\ redis' \in [Service -> SUBSET Point]
        /\ \A x \in Service : IsFiniteSet(redis'[x])
        /\ written' \in [Service -> SUBSET Point]
    BY <2>1, <2>2, <2>4 DEF TypeOK
  <2>6. TypeOK'
    BY <2>1, <2>2, <2>5 DEF TypeOK
  <2>7. QED
    BY <2>2, <2>6 DEF CardinalityBounded, NoOrphanState, IndexCoversSeries,
                      StartupMinutesDistinct, DistinctMinutes, Minutes
<1>8. ASSUME NEW t \in persisting, PersistFails(t)
      PROVE  IInv'
  BY <1>8, SMTT(30) DEF PersistFails, memory, external, bounds, TypeOK,
              CardinalityBounded, NoOrphanState, IndexCoversSeries,
              StartupMinutesDistinct, DistinctMinutes, Minutes
<1>9. CASE FlushOpenBuckets
  <2>1. /\ phase' = "closing"
        /\ series' = [s \in Service |-> Ring(series[s] \o bucket[s])]
        /\ tsIndex' = [s \in Service |-> tsIndex[s] \cup Minutes(bucket[s])]
        /\ bucket' = [s \in Service |-> <<>>]
        /\ DOMAIN held' = Service
        /\ persisting' = persisting \cup
              UNION {{<<s, bucket[s][i]>> : i \in DOMAIN bucket[s]} : s \in Service}
        /\ UNCHANGED <<toLoad, cursor, tracked, older, redis, known, written,
                       spans, restarts>>
    BY <1>9 DEF FlushOpenBuckets, Indexed, external, bounds
  <2>2. ASSUME NEW s \in Service
        PROVE  /\ Ring(series[s] \o bucket[s]) \in Seq(Point)
               /\ Len(Ring(series[s] \o bucket[s])) <= MaxLen
               /\ Minutes(Ring(series[s] \o bucket[s])) \subseteq
                     tsIndex[s] \cup Minutes(bucket[s])
               /\ Minutes(bucket[s]) \subseteq Minute
               /\ \A i \in DOMAIN bucket[s] : bucket[s][i] \in Point
    <3>1. series[s] \in Seq(Point) /\ bucket[s] \in Seq(Point)
      BY DEF TypeOK
    <3>2. /\ series[s] \o bucket[s] \in Seq(Point)
          /\ Minutes(series[s] \o bucket[s]) =
                Minutes(series[s]) \cup Minutes(bucket[s])
      BY <3>1, ConcatMinutes
    <3>3. \A i \in DOMAIN bucket[s] : bucket[s][i] \in Point
      BY <3>1, LenProperties, ElementOfSeq
    <3>4. Minutes(bucket[s]) \subseteq Minute
      BY <3>3 DEF Minutes, Point
    <3>5. QED
      BY <3>2, <3>3, <3>4, RingProperties DEF IndexCoversSeries
  <2>3. persisting' \subseteq Service \X Point
    BY <2>1, <2>2 DEF TypeOK
  <2>4. /\ series' \in [Service -> Seq(Point)]
        /\ \A s \in Service : Len(series'[s]) <= MaxLen
        /\ tsIndex' \in [Service -> SUBSET Minute]
    BY <2>1, <2>2 DEF TypeOK
  <2>5. /\ bucket' \in [Service -> Seq(Point)]
        /\ \A s \in Service : Len(bucket'[s]) <= 1
    BY <2>1
  <2>6. TypeOK'
    BY <2>1, <2>3, <2>4, <2>5 DEF TypeOK, Phase
  <2>7. NoOrphanState'
    <3>1. ASSUME NEW s \in Service, s \notin tracked
          PROVE  bucket'[s] = <<>> /\ series'[s] = <<>> /\ tsIndex'[s] = {}
      <4>1. bucket[s] = <<>> /\ series[s] = <<>> /\ tsIndex[s] = {}
        BY <3>1 DEF NoOrphanState
      <4>2. <<>> \o <<>> = <<>> /\ Ring(<<>>) = <<>> /\ Minutes(<<>>) = {}
        BY MaxLenAssumption DEF Ring, Minutes
      <4>3. QED
        BY <2>1, <4>1, <4>2
    <3>2. QED
      BY <2>1, <3>1 DEF NoOrphanState
  <2>8. IndexCoversSeries'
    <3>1. \A s \in Service : Minutes(series'[s]) \subseteq tsIndex'[s]
      BY <2>1, <2>2
    <3>2. QED
      BY <3>1 DEF IndexCoversSeries, Minutes
  <2>9. QED
    BY <2>1, <2>6, <2>7, <2>8 DEF CardinalityBounded, StartupMinutesDistinct
<1>10. CASE Restart
  <2>1. /\ phase' = "preload"
        /\ toLoad' \in {known, {}}
        /\ cursor' = [s \in Service |-> 0]
        /\ tracked' = {} /\ older' = {} /\ persisting' = {}
        /\ bucket' = [s \in Service |-> <<>>]
        /\ series' = [s \in Service |-> <<>>]
        /\ tsIndex' = [s \in Service |-> {}]
        /\ held' = [s \in Service |-> 0]
        /\ restarts' = restarts + 1
        /\ UNCHANGED <<redis, known, written, spans>>
    BY <1>10 DEF Restart, external
  <2>2. /\ <<>> \in Seq(Point) /\ Len(<<>>) = 0 /\ Minutes(<<>>) = {}
        /\ DistinctMinutes(<<>>)
    BY DEF Minutes, DistinctMinutes
  <2>3. TypeOK'
    BY <2>1, <2>2, MaxLenAssumption DEF TypeOK, Phase
  <2>4. CardinalityBounded'
    BY <2>1, FS_EmptySet, MaxServicesAssumption DEF CardinalityBounded
  <2>5. NoOrphanState'
    BY <2>1 DEF NoOrphanState
  <2>6. IndexCoversSeries'
    BY <2>1, <2>2 DEF IndexCoversSeries, Minutes
  <2>7. StartupMinutesDistinct'
    BY <2>1, <2>2 DEF StartupMinutesDistinct, DistinctMinutes
  <2>8. QED
    BY <2>3, <2>4, <2>5, <2>6, <2>7
<1>11. CASE UNCHANGED vars
  BY <1>11 DEF vars, memory, external, bounds, TypeOK, CardinalityBounded,
               NoOrphanState, IndexCoversSeries, StartupMinutesDistinct,
               DistinctMinutes, Minutes
<1>12. QED
  BY <1>1, <1>2, <1>3, <1>4, <1>5, <1>6, <1>7, <1>8, <1>9, <1>10, <1>11 DEF Next

-----------------------------------------------------------------------------
(* The theorems.                                                           *)

\* The inductive invariant holds in every behaviour of the store.
THEOREM InvariantHolds == Spec => []IInv
<1>1. QED
  BY InitIInv, NextIInv, PTL DEF Spec

\* Type correctness: in particular no ring grows beyond maxlen.
THEOREM TypeCorrect == Spec => []TypeOK
<1>1. IInv => TypeOK
  BY DEF IInv
<1>2. QED
  BY InvariantHolds, <1>1, PTL

\* The service limit holds on every path that touches a service.
THEOREM CardinalityIsBounded == Spec => []CardinalityBounded
<1>1. IInv => CardinalityBounded
  BY DEF IInv
<1>2. QED
  BY InvariantHolds, <1>1, PTL

\* An evicted service leaves no bucket, series or index behind.
THEOREM NothingIsOrphaned == Spec => []NoOrphanState
<1>1. IInv => NoOrphanState
  BY DEF IInv
<1>2. QED
  BY InvariantHolds, <1>1, PTL

\* The preload and the backfill together put no minute into a series twice.
THEOREM StartupIsDuplicateFree == Spec => []StartupMinutesDistinct
<1>1. IInv => StartupMinutesDistinct
  BY DEF IInv
<1>2. QED
  BY InvariantHolds, <1>1, PTL

\* The dedup index covers every point of a series.
THEOREM IndexIsComplete == Spec => []IndexCoversSeries
<1>1. IInv => IndexCoversSeries
  BY DEF IInv
<1>2. QED
  BY InvariantHolds, <1>1, PTL

-----------------------------------------------------------------------------
(* Recency.                                                                *)

\* Of two tracked services, one was touched before the other.
LruIsTotal ==
    \A u, v \in tracked : u # v => <<u, v>> \in older \/ <<v, u>> \in older

\* A touch of s puts s last, keeps the order total, and evicts only services
\* touched before all the others it leaves.
LEMMA TouchKeepsOrder ==
    ASSUME TypeOK, CardinalityBounded, LruIsTotal, NEW s \in Service,
           NEW evicted \in Evictions(s), Touch(s, evicted)
    PROVE  /\ LruIsTotal'
           /\ \A v \in tracked \ tracked', u \in tracked' \cap tracked :
                 <<v, u>> \in older
           /\ \A u \in tracked' \ {s} : <<u, s>> \in older'
<1>1. s \notin evicted
  BY EvictionProperties DEF TypeOK
<1>2. /\ tracked' = (tracked \cup {s}) \ evicted
      /\ older' = {pr \in TouchOrder(s) : {pr[1], pr[2]} \cap evicted = {}}
  BY DEF Touch
<1>3. \A u \in tracked \ {s} : <<u, s>> \in TouchOrder(s)
  BY DEF TouchOrder
<1>4. \A u, v \in tracked \ {s} : <<u, v>> \in older => <<u, v>> \in TouchOrder(s)
  BY DEF TouchOrder
<1>5. \A u, v : /\ <<u, v>> \in TouchOrder(s)
                /\ u \notin evicted /\ v \notin evicted
             => <<u, v>> \in older'
  BY <1>2
<1>6. \A u \in tracked' \ {s} : <<u, s>> \in older'
  BY <1>1, <1>2, <1>3, <1>5
<1>7. LruIsTotal'
  <2>1. ASSUME NEW u \in tracked', NEW v \in tracked', u # v
        PROVE  <<u, v>> \in older' \/ <<v, u>> \in older'
    <3>1. CASE u = s \/ v = s
      BY <1>6, <2>1, <3>1
    <3>2. CASE u # s /\ v # s
      <4>1. u \in tracked \ {s} /\ v \in tracked \ {s} /\ u \notin evicted /\ v \notin evicted
        BY <1>2, <3>2
      <4>2. <<u, v>> \in older \/ <<v, u>> \in older
        BY <2>1, <4>1 DEF LruIsTotal
      <4> QED
        BY <1>4, <1>5, <4>1, <4>2
    <3> QED
      BY <3>1, <3>2
  <2> QED
    BY <2>1 DEF LruIsTotal
<1>8. ASSUME NEW v \in tracked \ tracked', NEW u \in tracked' \cap tracked
      PROVE  <<v, u>> \in older
  <2>1. v \in evicted /\ v \in tracked /\ u \in tracked /\ u \notin evicted
    BY <1>2
  <2>2. s \notin tracked /\ v \in Oldest(tracked \cup {s}, TouchOrder(s))
    BY <2>1 DEF Evictions
  <2>3. <<u, v>> \notin TouchOrder(s)
    BY <2>1, <2>2 DEF Oldest
  <2>4. <<u, v>> \notin older
    BY <1>4, <2>1, <2>2, <2>3
  <2> QED
    BY <2>1, <2>4 DEF LruIsTotal
<1> QED
  BY <1>6, <1>7, <1>8

\* What the property asks of one step.
Recency ==
    /\ \A v \in tracked \ tracked', u \in tracked' \cap tracked : <<v, u>> \in older
    /\ \A s \in tracked' : \A u \in tracked' \ {s} :
          Len(bucket'[s]) > 0 /\ bucket'[s] # bucket[s] => <<u, s>> \in older'

\* A step that touches s, and writes no open bucket of another service.
LEMMA TouchIsRecency ==
    ASSUME TypeOK, CardinalityBounded, LruIsTotal, NEW s \in Service,
           NEW evicted \in Evictions(s), Touch(s, evicted),
           \A t \in Service \ {s} : bucket'[t] = bucket[t] \/ bucket'[t] = <<>>
    PROVE  LruIsTotal' /\ Recency
<1>1. /\ LruIsTotal'
      /\ \A v \in tracked \ tracked', u \in tracked' \cap tracked : <<v, u>> \in older
      /\ \A u \in tracked' \ {s} : <<u, s>> \in older'
  BY TouchKeepsOrder
<1>2. tracked' \subseteq Service
  BY DEF Touch, TypeOK
<1>3. Len(<<>>) = 0
  OBVIOUS
<1>4. ASSUME NEW t \in tracked', NEW u \in tracked' \ {t},
             Len(bucket'[t]) > 0, bucket'[t] # bucket[t]
      PROVE  <<u, t>> \in older'
  <2>1. t = s
    BY <1>2, <1>3, <1>4
  <2> QED
    BY <1>1, <2>1
<1> QED
  BY <1>1, <1>4 DEF Recency

\* A store of s leaves the buckets of the other services alone, or empties them.
LEMMA StoreSparesBuckets ==
    ASSUME TypeOK, NEW s \in Service, NEW evicted, NEW q, NEW b, NEW n,
           Store(s, evicted, q, b, n)
    PROVE  \A t \in Service \ {s} : bucket'[t] = bucket[t] \/ bucket'[t] = <<>>
<1>1. bucket' = [Forget(bucket, evicted, <<>>) EXCEPT ![s] = b]
  BY DEF Store
<1> QED
  BY <1>1 DEF Forget

\* Every step takes the least recently used, and keeps the order total.
LEMMA StepIsRecency ==
    IInv /\ LruIsTotal /\ [Next]_vars
        => LruIsTotal' /\ (restarts' = restarts => Recency)
<1> SUFFICES ASSUME IInv, LruIsTotal, [Next]_vars
             PROVE  LruIsTotal' /\ (restarts' = restarts => Recency)
  OBVIOUS
<1>1. TypeOK /\ CardinalityBounded
  BY DEF IInv
<1>2. ASSUME UNCHANGED <<tracked, older>>,
             \A t \in Service : bucket'[t] = bucket[t] \/ bucket'[t] = <<>>
      PROVE  LruIsTotal' /\ Recency
  <2>1. tracked' \subseteq Service /\ Len(<<>>) = 0
    BY <1>1, <1>2 DEF TypeOK
  <2> QED
    BY <1>2, <2>1 DEF LruIsTotal, Recency
<1>3. ASSUME NEW s \in Service, LoadService(s)
      PROVE  LruIsTotal' /\ Recency
  <2>1. PICK evicted \in Evictions(s),
             q \in [1..Cardinality(Loaded(redis[s], tsIndex[s])) -> Loaded(redis[s], tsIndex[s])] :
           /\ Touch(s, evicted)
           /\ Store(s, evicted, q, bucket[s], Weight(q))
    BY <1>3 DEF LoadService
  <2> QED
    BY <1>1, <2>1, StoreSparesBuckets, TouchIsRecency
<1>4. ASSUME NEW s \in Service, NEW p \in Point, IngestRed(s, p)
      PROVE  LruIsTotal' /\ Recency
  <2>1. PICK evicted \in Evictions(s) :
           /\ Touch(s, evicted)
           /\ \E q, n : Store(s, evicted, q, Forget(bucket, evicted, <<>>)[s], n)
    BY <1>4 DEF IngestRed
  <2> QED
    BY <1>1, <2>1, StoreSparesBuckets, TouchIsRecency
<1>5. ASSUME NEW s \in Service, NEW m \in Minute, Update(s, m)
      PROVE  LruIsTotal' /\ Recency
  <2>1. PICK evicted \in Evictions(s) :
           LET b == Forget(bucket, evicted, <<>>)[s]
           IN  /\ Touch(s, evicted)
               /\ Store(s, evicted, Closed(b, m), Opened(b, m), 1)
    BY <1>5 DEF Update
  <2> QED
    BY <1>1, <2>1, StoreSparesBuckets, TouchIsRecency
<1>6. CASE FlushOpenBuckets
  BY <1>2, <1>6 DEF FlushOpenBuckets
<1>7. CASE Restart
  <2>1. tracked' = {} /\ restarts' = restarts + 1 /\ restarts \in Nat
    BY <1>1, <1>7 DEF Restart, TypeOK
  <2> QED
    BY <2>1 DEF LruIsTotal
<1>8. CASE UNCHANGED <<tracked, older, bucket>>
  BY <1>2, <1>8
<1>9. \A s \in Service : LoadFails(s) => UNCHANGED <<tracked, older, bucket>>
  BY DEF LoadFails
<1>10. PreloadDone \/ BackfillDone => UNCHANGED <<tracked, older, bucket>>
  BY DEF PreloadDone, BackfillDone, memory
<1>11. \A t \in persisting : Persist(t) \/ PersistFails(t) => UNCHANGED <<tracked, older, bucket>>
  BY DEF Persist, PersistFails, memory
<1>12. CASE UNCHANGED vars
  BY <1>8, <1>12 DEF vars, memory
<1> QED
  BY <1>3, <1>4, <1>5, <1>6, <1>7, <1>8, <1>9, <1>10, <1>11, <1>12 DEF Next

\* The LRU is one: an eviction takes a service touched before every one it
\* leaves, and the service whose bucket is written becomes the last in line.
THEOREM EvictsTheOldest == Spec => LeastRecentlyUsedGoes
<1>1. Init => LruIsTotal
  BY DEF Init, LruIsTotal
<1>2. IInv /\ LruIsTotal /\ [Next]_vars => LruIsTotal'
  BY StepIsRecency
<1>3. Spec => []LruIsTotal
  BY InvariantHolds, <1>1, <1>2, PTL DEF Spec
<1>4. IInv /\ LruIsTotal /\ [Next]_vars
        => [ restarts' = restarts =>
               /\ \A v \in tracked \ tracked', u \in tracked' \cap tracked :
                     <<v, u>> \in older
               /\ \A s \in tracked' : \A u \in tracked' \ {s} :
                     Len(bucket'[s]) > 0 /\ bucket'[s] # bucket[s] =>
                         <<u, s>> \in older' ]_vars
  BY StepIsRecency DEF Recency
<1> QED
  BY InvariantHolds, <1>3, <1>4, PTL DEF Spec, LeastRecentlyUsedGoes

-----------------------------------------------------------------------------
(* What Redis keeps of the points written to it.                           *)

\* The order of a sorted set's members is strict and total.
LEMMA MembersAreOrdered ==
    /\ \A p \in Point : ~Before(p, p)
    /\ \A p, q \in Point : p # q => Before(p, q) \/ Before(q, p)
    /\ \A p, q, r \in Point : Before(p, q) /\ Before(q, r) => Before(p, r)
<1>1. ASSUME NEW p \in Point
      PROVE  p.minute \in Nat /\ p.count \in Nat
  <2>1. p.minute \in Minute /\ p.count \in 1 .. MaxCount
    BY DEF Point
  <2>2. MaxCount \in Nat
    BY BoundsAssumption
  <2>3. p.minute \in Nat
    BY <2>1, MinuteAssumption
  <2>4. p.count \in Nat
    BY <2>1, <2>2
  <2> QED
    BY <2>3, <2>4
<1>2. ASSUME NEW p \in Point, NEW q \in Point, p.minute = q.minute, p.count = q.count
      PROVE  p = q
  BY <1>2 DEF Point
<1>3. ASSUME NEW p \in Point
      PROVE  ~Before(p, p)
  BY <1>1 DEF Before
<1>4. ASSUME NEW p \in Point, NEW q \in Point, p # q
      PROVE  Before(p, q) \/ Before(q, p)
  <2>1. p.minute # q.minute \/ p.count # q.count
    BY <1>2, <1>4
  <2>. QED  BY <1>1, <2>1 DEF Before
<1>5. ASSUME NEW p \in Point, NEW q \in Point, NEW r \in Point, Before(p, q), Before(q, r)
      PROVE  Before(p, r)
  BY <1>1, <1>5 DEF Before
<1>. QED  BY <1>3, <1>4, <1>5

\* A set of points that is not empty has a lowest.
LEMMA LowestMember ==
    ASSUME NEW S \in SUBSET Point, IsFiniteSet(S), S # {}
    PROVE  \E m \in S : \A p \in S \ {m} : Before(m, p)
<1> DEFINE Below(p) == {q \in S : Before(q, p)}
<1>1. PICK m \in S : \A p \in S : Cardinality(Below(m)) <= Cardinality(Below(p))
  <2> DEFINE T == {Below(p) : p \in S}
  <2>1. T \subseteq SUBSET S /\ T # {}
    OBVIOUS
  <2>2. PICK b \in T : \A c \in T : Cardinality(b) <= Cardinality(c)
    <3> HIDE DEF T
    <3> QED
      BY <2>1, SmallestSubset
  <2>3. PICK m \in S : b = Below(m)
    OBVIOUS
  <2>4. \A p \in S : Below(p) \in T
    OBVIOUS
  <2> HIDE DEF T, Below
  <2> QED
    BY <2>2, <2>3, <2>4
<1>2. ASSUME NEW p \in S, p # m
      PROVE  Before(m, p)
  <2> SUFFICES ASSUME ~Before(m, p)
               PROVE  FALSE
    OBVIOUS
  <2>1. p \in Point /\ m \in Point
    OBVIOUS
  <2>2. Before(p, m)
    BY <1>2, <2>1, MembersAreOrdered
  <2>3. Below(p) \subseteq Below(m)
    BY <2>1, <2>2, MembersAreOrdered
  <2>4. p \in Below(m) /\ p \notin Below(p)
    BY <2>1, <2>2, MembersAreOrdered
  <2>5. IsFiniteSet(Below(m)) /\ IsFiniteSet(Below(p))
    BY FS_Subset
  <2> HIDE DEF Below
  <2>6. /\ Cardinality(Below(p)) < Cardinality(Below(m))
        /\ Cardinality(Below(p)) \in Nat /\ Cardinality(Below(m)) \in Nat
    BY <2>3, <2>4, <2>5, FS_Subset, FS_CardinalityType
  <2> QED
    BY <1>1, <2>6
<1> QED
  BY <1>2

\* The trim of a set that is at most one point too long: nothing goes, or the
\* lowest point does.
LEMMA TrimTakesLowest ==
    ASSUME NEW S \in SUBSET Point, IsFiniteSet(S)
    PROVE  /\ Cardinality(S) <= MaxLen => Newest(S) = S
           /\ Cardinality(S) = MaxLen + 1 =>
                 \E m \in S : /\ Newest(S) = S \ {m}
                              /\ \A p \in S \ {m} : Before(m, p)
<1> DEFINE Above(p) == {q \in S : Before(p, q)}
<1>1. Cardinality(S) \in Nat /\ MaxLen \in Nat \ {0}
  BY FS_CardinalityType, MaxLenAssumption
<1>2. \A p \in S : p \notin Above(p)
  BY MembersAreOrdered
<1>3. Newest(S) = {p \in S : Cardinality(Above(p)) < MaxLen}
  BY DEF Newest
<1>4. \A p \in S : IsFiniteSet(Above(p)) /\ Above(p) \subseteq S
  BY FS_Subset
<1>5. ASSUME Cardinality(S) <= MaxLen
      PROVE  Newest(S) = S
  <2>1. ASSUME NEW p \in S
        PROVE  Cardinality(Above(p)) < MaxLen
    <3>1. Above(p) \subseteq S /\ Above(p) # S
      BY <1>2
    <3> HIDE DEF Above
    <3>2. Cardinality(Above(p)) < Cardinality(S) /\ Cardinality(Above(p)) \in Nat
      BY <1>4, <3>1, FS_Subset, FS_CardinalityType
    <3> QED
      BY <1>1, <1>5, <3>2
  <2> HIDE DEF Above
  <2> QED
    BY <1>3, <2>1
<1>6. ASSUME Cardinality(S) = MaxLen + 1
      PROVE  \E m \in S : /\ Newest(S) = S \ {m}
                          /\ \A p \in S \ {m} : Before(m, p)
  <2>1. S # {}
    BY <1>1, <1>6, FS_EmptySet
  <2>2. PICK m \in S : \A p \in S \ {m} : Before(m, p)
    BY <2>1, LowestMember
  <2>3. /\ IsFiniteSet(S \ {m})
        /\ Cardinality(S \ {m}) = MaxLen
    BY <1>1, <1>6, FS_RemoveElement
  <2>4. Above(m) = S \ {m}
    BY <1>2, <2>2
  <2>5. ASSUME NEW p \in S, p # m
        PROVE  Cardinality(Above(p)) < MaxLen
    <3>1. Above(p) \subseteq S \ {m} /\ Above(p) # S \ {m}
      <4>1. ~Before(p, m)
        <5>1. p \in Point /\ m \in Point /\ Before(m, p)
          BY <2>2, <2>5
        <5> QED
          BY <5>1, MembersAreOrdered
      <4> QED
        BY <1>2, <2>5, <4>1
    <3> HIDE DEF Above
    <3> QED
      BY <2>3, <3>1, FS_Subset, FS_CardinalityType
  <2>6. m \notin Newest(S)
    BY <1>1, <1>3, <2>3, <2>4
  <2> HIDE DEF Above
  <2>7. Newest(S) = S \ {m}
    BY <1>3, <2>5, <2>6
  <2> QED
    BY <2>2, <2>7
<1> QED
  BY <1>5, <1>6

\* One sorted set and the points ever written to it.
HoldsNewest(R, W) ==
    /\ R \subseteq W
    /\ \/ R = W /\ Cardinality(R) <= MaxLen
       \/ Cardinality(R) = MaxLen
    /\ \A p \in W \ R : \A q \in R : Before(p, q)

\* Writing a point and trimming keeps the newest, whichever point it is.
LEMMA WriteKeepsNewest ==
    ASSUME NEW W \in SUBSET Point, NEW R, IsFiniteSet(R), NEW p \in Point,
           HoldsNewest(R, W)
    PROVE  HoldsNewest(Newest(R \cup {p}), W \cup {p})
<1> DEFINE S == R \cup {p}
<1>1. /\ S \in SUBSET Point /\ IsFiniteSet(S) /\ R \subseteq W
      /\ Cardinality(R) \in Nat /\ MaxLen \in Nat \ {0}
      /\ Cardinality(R) <= MaxLen
  BY FS_AddElement, FS_CardinalityType, MaxLenAssumption DEF HoldsNewest
<1>2. Cardinality(S) = IF p \in R THEN Cardinality(R) ELSE Cardinality(R) + 1
  BY FS_AddElement
<1>3. \A x \in W \ R : \A y \in R : Before(x, y)
  BY DEF HoldsNewest
<1> HIDE DEF S
<1>4. CASE Cardinality(S) <= MaxLen
  <2>1. Newest(S) = S
    BY <1>1, <1>4, TrimTakesLowest
  <2>2. CASE p \in R
    <3>1. S = R /\ W \cup {p} = W
      BY <1>1, <2>2 DEF S
    <3> QED
      BY <2>1, <3>1 DEF S
  <2>3. CASE p \notin R
    <3>1. Cardinality(R) # MaxLen
      BY <1>1, <1>2, <1>4, <2>3
    <3>2. R = W
      BY <3>1 DEF HoldsNewest
    <3>3. S = W \cup {p}
      BY <3>2 DEF S
    <3> QED
      BY <1>4, <2>1, <3>3 DEF HoldsNewest, S
  <2> QED
    BY <2>2, <2>3
<1>5. CASE ~(Cardinality(S) <= MaxLen)
  <2>1. p \notin R /\ Cardinality(R) = MaxLen /\ Cardinality(S) = MaxLen + 1
    BY <1>1, <1>2, <1>5
  <2>2. PICK m \in S : /\ Newest(S) = S \ {m}
                       /\ \A x \in S \ {m} : Before(m, x)
    BY <1>1, <2>1, TrimTakesLowest
  <2>3. Cardinality(Newest(S)) = MaxLen
    <3>1. Cardinality(S \ {m}) = Cardinality(S) - 1
      BY <1>1, FS_RemoveElement
    <3>2. (MaxLen + 1) - 1 = MaxLen
      BY <1>1
    <3>3. Newest(S) = S \ {m}
      BY <2>2
    <3> QED
      BY <2>1, <3>1, <3>2, <3>3
  <2>4. Newest(S) \subseteq W \cup {p}
    BY <1>1, <2>2 DEF S
  <2>5. ASSUME NEW x \in (W \cup {p}) \ Newest(S), NEW y \in Newest(S)
        PROVE  Before(x, y)
    <3>1. x \in Point /\ y \in Point /\ m \in Point /\ y \in S \ {m}
      BY <1>1, <2>2, <2>5
    <3>2. CASE x = m
      BY <2>2, <3>1, <3>2
    <3>3. CASE x # m
      <4>1. x \in W \ R
        BY <1>1, <2>2, <2>5, <3>3 DEF S
      <4>2. CASE y \in R
        BY <1>3, <4>1, <4>2
      <4>3. CASE y \notin R
        <5>1. m \in R
          BY <2>2, <3>1, <4>3 DEF S
        <5>2. Before(x, m) /\ Before(m, y)
          BY <1>3, <2>2, <3>1, <4>1, <5>1
        <5> QED
          BY <3>1, <5>2, MembersAreOrdered
      <4> QED
        BY <4>2, <4>3
    <3> QED
      BY <3>2, <3>3
  <2>6. HoldsNewest(Newest(S), W \cup {p})
    BY <2>3, <2>4, <2>5 DEF HoldsNewest
  <2> QED
    BY <2>6 DEF S
<1> QED
  BY <1>4, <1>5

\* Every step keeps the newest points in Redis.
LEMMA StepKeepsNewest == IInv /\ RedisHoldsNewest /\ [Next]_vars => RedisHoldsNewest'
<1> SUFFICES ASSUME IInv, RedisHoldsNewest, [Next]_vars
             PROVE  RedisHoldsNewest'
  OBVIOUS
<1>1. \A s \in Service : HoldsNewest(redis[s], written[s])
  BY DEF RedisHoldsNewest, HoldsNewest
<1>2. /\ redis \in [Service -> SUBSET Point]
      /\ \A s \in Service : IsFiniteSet(redis[s])
      /\ written \in [Service -> SUBSET Point]
      /\ persisting \subseteq Service \X Point
  BY DEF IInv, TypeOK
<1>3. CASE UNCHANGED <<redis, written>>
  BY <1>3 DEF RedisHoldsNewest
<1>4. ASSUME NEW t \in persisting, Persist(t)
      PROVE  RedisHoldsNewest'
  <2> DEFINE s == t[1]
             p == t[2]
  <2>1. /\ s \in Service /\ p \in Point
        /\ redis' = [redis EXCEPT ![s] = Newest(@ \cup {p})]
        /\ written' = [written EXCEPT ![s] = @ \cup {p}]
    BY <1>2, <1>4 DEF Persist
  <2> HIDE DEF s, p
  <2>2. HoldsNewest(Newest(redis[s] \cup {p}), written[s] \cup {p})
    BY <1>1, <1>2, <2>1, WriteKeepsNewest
  <2>3. ASSUME NEW x \in Service
        PROVE  HoldsNewest(redis'[x], written'[x])
    <3>1. CASE x = s
      <4>1. redis'[x] = Newest(redis[s] \cup {p}) /\ written'[x] = written[s] \cup {p}
        BY <1>2, <2>1, <3>1
      <4> QED
        BY <2>2, <4>1
    <3>2. CASE x # s
      <4>1. redis'[x] = redis[x] /\ written'[x] = written[x]
        BY <1>2, <2>1, <3>2
      <4> QED
        BY <1>1, <4>1
    <3> QED
      BY <3>1, <3>2
  <2> QED
    BY <2>3 DEF RedisHoldsNewest, HoldsNewest
<1>5. CASE Next
  <2>1. \A s \in Service : LoadService(s) \/ LoadFails(s) => UNCHANGED <<redis, written>>
    BY DEF LoadService, LoadFails, external
  <2>2. \A s \in Service, p \in Point : IngestRed(s, p) => UNCHANGED <<redis, written>>
    BY DEF IngestRed, external
  <2>3. \A s \in Service, m \in Minute : Update(s, m) => UNCHANGED <<redis, written>>
    BY DEF Update, external
  <2>4. \A t \in persisting : PersistFails(t) => UNCHANGED <<redis, written>>
    BY DEF PersistFails, external
  <2>5. PreloadDone \/ BackfillDone \/ FlushOpenBuckets \/ Restart => UNCHANGED <<redis, written>>
    BY DEF PreloadDone, BackfillDone, FlushOpenBuckets, Restart, external
  <2> QED
    BY <1>3, <1>4, <1>5, <2>1, <2>2, <2>3, <2>4, <2>5 DEF Next
<1>6. CASE UNCHANGED vars
  BY <1>3, <1>6 DEF vars, external
<1> QED
  BY <1>5, <1>6

\* Each sorted set holds exactly the newest maxlen of the points ever written to
\* it, in whatever order the writes arrive and whichever of them fail.
THEOREM NewestInRedis == Spec => []RedisHoldsNewest
<1>1. Init => RedisHoldsNewest
  <2>1. Cardinality({}) = 0 /\ 0 <= MaxLen
    BY FS_EmptySet, MaxLenAssumption
  <2> QED
    BY <2>1 DEF Init, RedisHoldsNewest
<1> QED
  BY InvariantHolds, <1>1, StepKeepsNewest, PTL DEF Spec

-----------------------------------------------------------------------------
(* The preload.                                                            *)

\* While the preload runs no write is under way, no service is read twice, and
\* what was read of a service is in its series.
Preloading ==
    phase = "preload" =>
        /\ persisting = {}
        /\ toLoad \cap tracked = {}
        /\ PreloadMirrorsRedis

\* Of the members of one minute, the load keeps one.
LEMMA EveryMinuteIsLoaded ==
    ASSUME NEW S \in SUBSET Point, IsFiniteSet(S)
    PROVE  {p.minute : p \in Loaded(S, {})} = {p.minute : p \in S}
<1>1. Loaded(S, {}) = {p \in S : \A q \in S : q.minute = p.minute => ~Before(q, p)}
  BY DEF Loaded
<1>2. ASSUME NEW p \in S
      PROVE  \E m \in Loaded(S, {}) : m.minute = p.minute
  <2> DEFINE M == {q \in S : q.minute = p.minute}
  <2>1. M \in SUBSET Point /\ IsFiniteSet(M) /\ M # {}
    BY FS_Subset
  <2>2. PICK m \in M : \A q \in M \ {m} : Before(m, q)
    <3> HIDE DEF M
    <3> QED
      BY <2>1, LowestMember
  <2>3. ASSUME NEW q \in S, q.minute = m.minute
        PROVE  ~Before(q, m)
    <3>1. q \in M /\ q \in Point /\ m \in Point
      BY <2>3
    <3>2. CASE q = m
      BY <3>1, <3>2, MembersAreOrdered
    <3>3. CASE q # m
      <4>1. Before(m, q)
        BY <2>2, <3>1, <3>3
      <4> QED
        BY <3>1, <4>1, MembersAreOrdered
    <3> QED
      BY <3>2, <3>3
  <2> QED
    BY <1>1, <2>3
<1> QED
  BY <1>1, <1>2

\* A listing of a finite set in order leaves no element out.
LEMMA ListingIsComplete ==
    ASSUME NEW P \in SUBSET Point, IsFiniteSet(P),
           NEW q \in [1..Cardinality(P) -> P],
           \A i, j \in DOMAIN q : i < j => Before(q[i], q[j])
    PROVE  Minutes(q) = {p.minute : p \in P}
<1> DEFINE n == Cardinality(P)
<1>1. n \in Nat /\ IsFiniteSet(1..n) /\ Cardinality(1..n) = n
  BY FS_CardinalityType, FirstN
<1>2. DOMAIN q = 1..n
  OBVIOUS
<1>3. ASSUME NEW i \in 1..n, NEW j \in 1..n, q[i] = q[j]
      PROVE  i = j
  <2>1. q[i] \in Point /\ q[j] \in Point
    OBVIOUS
  <2>2. ~Before(q[i], q[j]) /\ ~Before(q[j], q[i])
    BY <1>3, <2>1, MembersAreOrdered
  <2>3. ~(i < j) /\ ~(j < i)
    BY <1>2, <2>2
  <2> QED
    BY <1>1, <2>3
<1>4. q \in Injection(1..n, P)
  BY <1>2, <1>3 DEF Injection, IsInjective
<1>5. q \in Surjection(1..n, P)
  <2> HIDE DEF n
  <2>1. Cardinality(1..n) = Cardinality(P)
    BY <1>1 DEF n
  <2> QED
    BY <1>4, <2>1, FS_Injection
<1>6. \A p \in P : \E i \in 1..n : q[i] = p
  BY <1>5 DEF Surjection
<1> QED
  BY <1>2, <1>6 DEF Minutes

\* Reading a service that is not in memory brings back its minutes in Redis.
LEMMA LoadMirrors ==
    ASSUME IInv, RedisHoldsNewest, NEW s \in Service, s \notin tracked,
           NEW evicted \in Evictions(s),
           NEW q \in [1..Cardinality(Loaded(redis[s], tsIndex[s]))
                          -> Loaded(redis[s], tsIndex[s])],
           \A i, j \in DOMAIN q : i < j => Before(q[i], q[j]),
           NEW b, NEW n,
           Store(s, evicted, q, b, n)
    PROVE  /\ Minutes(series'[s]) = {p.minute : p \in redis[s]}
           /\ \A t \in Service : t # s /\ t \notin evicted => series'[t] = series[t]
<1> DEFINE P == Loaded(redis[s], tsIndex[s])
<1>1. /\ TypeOK /\ tsIndex[s] = {} /\ series[s] = <<>>
      /\ redis[s] \in SUBSET Point /\ IsFiniteSet(redis[s])
  BY DEF IInv, NoOrphanState, TypeOK
<1>2. Cardinality(redis[s]) <= MaxLen /\ Cardinality(redis[s]) \in Nat /\ MaxLen \in Nat
  BY <1>1, FS_CardinalityType, MaxLenAssumption DEF RedisHoldsNewest
<1>3. P \subseteq redis[s] /\ IsFiniteSet(P) /\ P \in SUBSET Point
  BY <1>1, FS_Subset DEF Loaded
<1>4. Cardinality(P) \in Nat /\ Cardinality(P) <= MaxLen
  BY <1>1, <1>2, <1>3, FS_Subset, FS_CardinalityType
<1>5. Minutes(q) = {p.minute : p \in redis[s]}
  <2>1. {p.minute : p \in P} = {p.minute : p \in redis[s]}
    BY <1>1, EveryMinuteIsLoaded
  <2>2. Minutes(q) = {p.minute : p \in P}
    BY <1>3, ListingIsComplete
  <2> QED
    BY <2>1, <2>2
<1>6. q \in Seq(Point) /\ Len(q) = Cardinality(P)
  <2>1. q \in Seq(Point)
    BY <1>1, LoadedProperties
  <2>2. DOMAIN q = 1..Cardinality(P)
    OBVIOUS
  <2> QED
    BY <1>4, <2>1, <2>2, LenProperties
<1>7. /\ <<>> \o q = q
      /\ Ring(q) = q
  BY <1>4, <1>6 DEF Ring
<1>8. Forget(series, evicted, <<>>)[s] = <<>>
  BY <1>1 DEF Forget
<1>9. series' = [Forget(series, evicted, <<>>) EXCEPT ![s] = q]
  BY <1>7, <1>8 DEF Store
<1>10. series'[s] = q
  BY <1>9 DEF Forget
<1>11. \A t \in Service : t # s /\ t \notin evicted => series'[t] = series[t]
  BY <1>9 DEF Forget
<1> QED
  BY <1>5, <1>10, <1>11

\* Every step of the preload keeps it so.
LEMMA StepKeepsPreloading ==
    IInv /\ RedisHoldsNewest /\ Preloading /\ [Next]_vars => Preloading'
<1> SUFFICES ASSUME IInv, RedisHoldsNewest, Preloading, [Next]_vars, phase' = "preload"
             PROVE  /\ persisting' = {}
                    /\ toLoad' \cap tracked' = {}
                    /\ PreloadMirrorsRedis'
  BY DEF Preloading
<1>1. ASSUME phase = "preload", toLoad' \subseteq toLoad,
             UNCHANGED <<tracked, series, persisting, redis>>
      PROVE  /\ persisting' = {}
             /\ toLoad' \cap tracked' = {}
             /\ PreloadMirrorsRedis'
  <2>1. \A s \in tracked : Minutes(series[s]) = {p.minute : p \in redis[s]}
    BY <1>1 DEF Preloading, PreloadMirrorsRedis
  <2>2. \A s \in tracked' : Minutes(series'[s]) = {p.minute : p \in redis'[s]}
    BY <1>1, <2>1
  <2>3. PreloadMirrorsRedis'
    BY <2>2 DEF PreloadMirrorsRedis, Minutes
  <2> QED
    BY <1>1, <2>3 DEF Preloading
<1>2. ASSUME NEW s \in Service, LoadService(s)
      PROVE  /\ persisting' = {}
             /\ toLoad' \cap tracked' = {}
             /\ PreloadMirrorsRedis'
  <2> DEFINE points == Loaded(redis[s], tsIndex[s])
  <2>1. PICK evicted \in Evictions(s), q \in [1..Cardinality(points) -> points] :
           /\ \A i, j \in DOMAIN q : i < j => Before(q[i], q[j])
           /\ Touch(s, evicted)
           /\ Store(s, evicted, q, bucket[s], Weight(q))
    BY <1>2 DEF LoadService
  <2>2. /\ phase = "preload" /\ s \in toLoad
        /\ toLoad' = toLoad \ {s}
        /\ UNCHANGED <<persisting, redis>>
    BY <1>2 DEF LoadService, external
  <2>3. /\ persisting = {} /\ toLoad \cap tracked = {}
        /\ \A t \in tracked : Minutes(series[t]) = {p.minute : p \in redis[t]}
    BY <2>2 DEF Preloading, PreloadMirrorsRedis
  <2>4. s \notin tracked /\ tracked \subseteq Service
    BY <2>2, <2>3 DEF IInv, TypeOK
  <2>5. /\ Minutes(series'[s]) = {p.minute : p \in redis[s]}
        /\ \A t \in Service : t # s /\ t \notin evicted => series'[t] = series[t]
    BY <2>1, <2>4, LoadMirrors
  <2>6. tracked' = (tracked \cup {s}) \ evicted
    BY <2>1 DEF Touch
  <2>7. ASSUME NEW t \in tracked'
        PROVE  Minutes(series'[t]) = {p.minute : p \in redis'[t]}
    <3>1. CASE t = s
      BY <2>2, <2>5, <3>1
    <3>2. CASE t # s
      <4>1. t \in tracked /\ t \notin evicted
        BY <2>6, <3>2
      <4>2. series'[t] = series[t] /\ redis'[t] = redis[t]
        BY <2>2, <2>4, <2>5, <3>2, <4>1
      <4> QED
        BY <2>3, <4>1, <4>2
    <3> QED
      BY <3>1, <3>2
  <2>8. PreloadMirrorsRedis'
    BY <2>7 DEF PreloadMirrorsRedis, Minutes
  <2> QED
    BY <2>2, <2>3, <2>6, <2>8
<1>3. ASSUME NEW s \in Service, LoadFails(s)
      PROVE  /\ persisting' = {}
             /\ toLoad' \cap tracked' = {}
             /\ PreloadMirrorsRedis'
  BY <1>1, <1>3 DEF LoadFails, external
<1>4. CASE Restart
  BY <1>4 DEF Restart, PreloadMirrorsRedis
<1>5. ASSUME NEW t \in persisting, Persist(t) \/ PersistFails(t)
      PROVE  FALSE
  BY <1>5 DEF Persist, PersistFails, Preloading
<1>6. CASE UNCHANGED vars
  BY <1>1, <1>6 DEF vars, memory, external
<1>7. /\ ~PreloadDone /\ ~BackfillDone /\ ~FlushOpenBuckets
      /\ \A s \in Service, p \in Point : ~IngestRed(s, p)
      /\ \A s \in Service, m \in Minute : ~Update(s, m)
  BY DEF PreloadDone, BackfillDone, FlushOpenBuckets, IngestRed, Update
<1> QED
  BY <1>2, <1>3, <1>4, <1>5, <1>6, <1>7 DEF Next

\* A restart loses no minute Redis holds of a service it read and kept.
THEOREM PreloadIsFaithful == Spec => []PreloadMirrorsRedis
<1>1. Init => Preloading
  BY DEF Init, Preloading, PreloadMirrorsRedis
<1>2. Preloading => PreloadMirrorsRedis
  BY DEF Preloading, PreloadMirrorsRedis
<1> QED
  BY InvariantHolds, NewestInRedis, <1>1, <1>2, StepKeepsPreloading, PTL DEF Spec


-----------------------------------------------------------------------------
(* Spans.                                                                  *)

\* f sums up the spans of q point by point.
Sums(f, q) ==
    /\ f \in [0..Len(q) -> Int]
    /\ f[0] = 0
    /\ \A k \in 1..Len(q) : f[k] = f[k - 1] + q[k].count

\* The fold that Weight is takes the points in some order; the sum is that of
\* the order they are in.
LEMMA WeightIsSum ==
    ASSUME NEW q \in Seq(Point)
    PROVE  \E f : Sums(f, q) /\ Weight(q) = f[Len(q)]
<1> DEFINE n == Len(q)
           D == 1..n
           w == [i \in D |-> q[i].count]
           I == CHOOSE it : it = [s \in SUBSET D |->
                    IF s = {} THEN 0
                    ELSE q[CHOOSE x \in s : TRUE].count + it[s \ {CHOOSE x \in s : TRUE}]]
<1>1. n \in Nat /\ DOMAIN q = D /\ IsFiniteSet(D)
  BY LenProperties, FirstN
<1>2. \A i \in D : q[i].count \in Int
  <2>1. \A i \in D : q[i] \in Point
    BY <1>1, ElementOfSeq
  <2>2. \A i \in D : q[i].count \in 1..MaxCount
    BY <2>1 DEF Point
  <2>3. MaxCount \in Nat
    BY BoundsAssumption
  <2> QED
    BY <2>2, <2>3
<1>3. w \in [D -> Int] /\ \A i \in D : w[i] = q[i].count
  BY <1>2
<1>4. Weight(q) = I[D]
  <2>1. DOMAIN q = D
    BY <1>1
  <2> HIDE DEF D
  <2> QED
    BY <2>1 DEF Weight, FoldSeq, FoldFunction, FoldFunctionOnSet, MapThenFoldSet
<1> HIDE DEF n, D, w
<1> DEFINE ch == [s \in SUBSET D |-> CHOOSE x \in s : TRUE]
<1>5. \A s \in SUBSET D : ch[s] = CHOOSE x \in s : TRUE
  OBVIOUS
<1> HIDE DEF ch
<1>6. Picks(ch, D)
  <2>1. \A s \in SUBSET D : s # {} => ch[s] \in s
    BY <1>5
  <2> QED
    BY <2>1 DEF Picks
<1>7. SumsUp(I, D, w, ch)
  <2>1. PICK it \in [SUBSET D -> Int] : SumsUp(it, D, w, ch)
    BY <1>1, <1>3, <1>6, SumExists
  <2> DEFINE Rec(i) == [s \in SUBSET D |->
                IF s = {} THEN 0
                ELSE q[CHOOSE x \in s : TRUE].count + i[s \ {CHOOSE x \in s : TRUE}]]
  <2>2. ASSUME NEW i, NEW s \in SUBSET D
        PROVE  Rec(i)[s] = IF s = {} THEN 0 ELSE w[ch[s]] + i[s \ {ch[s]}]
    <3>1. s # {} => ch[s] \in D
      BY <1>6 DEF Picks
    <3>2. Rec(i)[s] = IF s = {} THEN 0 ELSE q[ch[s]].count + i[s \ {ch[s]}]
      BY <1>5
    <3> HIDE DEF Rec
    <3> QED
      BY <1>3, <3>1, <3>2
  <2>3. DOMAIN Rec(it) = SUBSET D /\ \A s \in SUBSET D : it[s] = Rec(it)[s]
    <3>1. DOMAIN Rec(it) = SUBSET D
      OBVIOUS
    <3> HIDE DEF Rec
    <3> QED
      BY <2>1, <2>2, <3>1 DEF SumsUp
  <2>4. it = Rec(it)
    <3>1. Rec(it) = [s \in SUBSET D |-> Rec(it)[s]]
      OBVIOUS
    <3>2. it = [s \in SUBSET D |-> it[s]]
      OBVIOUS
    <3> HIDE DEF Rec
    <3> QED
      BY <2>3, <3>1, <3>2
  <2>5. I = Rec(I)
    BY <2>4 DEF I
  <2> HIDE DEF Rec
  <2> QED
    BY <2>2, <2>5 DEF SumsUp
<1> HIDE DEF I
<1>8. \A s \in SUBSET D : I[s] \in Int /\ \A x \in s : I[s] = w[x] + I[s \ {x}]
  <2>1. SumsUpAnyhow(I, D, w)
    BY <1>1, <1>3, <1>6, <1>7, SumAnyOrder
  <2> QED
    BY <2>1 DEF SumsUpAnyhow
<1> DEFINE f == [k \in 0..n |-> I[1..k]]
<1>9. \A k \in 0..n : (1..k) \in SUBSET D
  BY <1>1 DEF D
<1>10. f \in [0..n -> Int]
  BY <1>8, <1>9
<1>11. f[0] = 0
  <2>1. 1..0 = {}
    OBVIOUS
  <2>2. I[{}] = 0
    BY <1>7 DEF SumsUp
  <2> QED
    BY <1>1, <2>1, <2>2
<1>12. ASSUME NEW k \in 1..n
       PROVE  f[k] = f[k - 1] + q[k].count
  <2>1. k \in 1..k /\ (1..k) \ {k} = 1..(k - 1) /\ k - 1 \in 0..n /\ k \in 0..n /\ k \in D
    BY <1>1 DEF D
  <2>2. I[1..k] = w[k] + I[1..(k - 1)]
    BY <1>8, <1>9, <2>1
  <2>3. f[k] = I[1..k] /\ f[k - 1] = I[1..(k - 1)]
    BY <2>1
  <2>4. w[k] = q[k].count /\ w[k] \in Int /\ I[1..(k - 1)] \in Int
    BY <1>2, <1>3, <1>8, <1>9, <2>1
  <2> HIDE DEF f
  <2> QED
    BY <2>2, <2>3, <2>4
<1>13. f[n] = I[D]
  BY <1>1 DEF D
<1> HIDE DEF f
<1> QED
  BY <1>4, <1>10, <1>11, <1>12, <1>13 DEF Sums, n

\* The spans of a series are an integer; those of two series add up.
LEMMA WeightAddsUp ==
    ASSUME NEW p \in Seq(Point), NEW q \in Seq(Point)
    PROVE  /\ Weight(p) \in Int
           /\ Weight(p \o q) = Weight(p) + Weight(q)
<1> DEFINE n == Len(p)
           m == Len(q)
           r == p \o q
<1>1. /\ n \in Nat /\ m \in Nat
      /\ r \in Seq(Point)
      /\ Len(r) = n + m
      /\ \A i \in 1 .. n + m : r[i] = IF i <= n THEN p[i] ELSE q[i - n]
  BY ConcatProperties, LenProperties
<1>2. PICK f : Sums(f, p) /\ Weight(p) = f[n]
  BY WeightIsSum
<1>3. PICK g : Sums(g, q) /\ Weight(q) = g[m]
  BY WeightIsSum
<1>4. PICK h : Sums(h, r) /\ Weight(r) = h[n + m]
  BY <1>1, WeightIsSum
<1>5. /\ f \in [0..n -> Int] /\ f[0] = 0
      /\ \A k \in 1..n : f[k] = f[k - 1] + p[k].count
      /\ g \in [0..m -> Int] /\ g[0] = 0
      /\ \A k \in 1..m : g[k] = g[k - 1] + q[k].count
      /\ h \in [0..(n + m) -> Int] /\ h[0] = 0
      /\ \A k \in 1..(n + m) : h[k] = h[k - 1] + r[k].count
  BY <1>1, <1>2, <1>3, <1>4 DEF Sums
<1> HIDE DEF n, m, r
<1>6. \A k \in 0..n : h[k] = f[k]
  <2> DEFINE T == {k \in 0..n : h[k] = f[k]}
  <2>1. 0 \in T
    BY <1>1, <1>5
  <2>2. ASSUME NEW k \in 1..n, k - 1 \in T
        PROVE  k \in T
    <3>1. k \in 1..(n + m) /\ r[k] = p[k] /\ k \in 0..n
      BY <1>1
    <3>2. h[k - 1] = f[k - 1]
      BY <2>2
    <3>3. h[k] = f[k]
      BY <1>5, <3>1, <3>2
    <3> QED
      BY <3>1, <3>3
  <2>3. \A k \in 0..n : k \in T
    <3> HIDE DEF T
    <3> QED
      BY <1>1, <2>1, <2>2, UpTo
  <2> QED
    BY <2>3
<1>7. \A k \in 0..m : h[n + k] = f[n] + g[k]
  <2> DEFINE T == {k \in 0..m : h[n + k] = f[n] + g[k]}
  <2>1. 0 \in T
    <3>1. h[n + 0] = f[n] /\ f[n] \in Int /\ g[0] = 0
      BY <1>1, <1>5, <1>6
    <3> QED
      BY <1>1, <3>1
  <2>2. ASSUME NEW k \in 1..m, k - 1 \in T
        PROVE  k \in T
    <3>1. /\ n + k \in 1..(n + m) /\ ~(n + k <= n) /\ (n + k) - n = k
          /\ (n + k) - 1 = n + (k - 1)
          /\ k \in 0..m /\ k - 1 \in 0..m
      BY <1>1
    <3>2. h[n + (k - 1)] = f[n] + g[k - 1]
      BY <2>2
    <3>3. r[n + k] = q[k]
      BY <1>1, <3>1
    <3>4. h[n + k] = (f[n] + g[k - 1]) + q[k].count
      BY <1>5, <3>1, <3>2, <3>3
    <3>5. g[k] = g[k - 1] + q[k].count
      BY <1>5
    <3>6. f[n] \in Int /\ g[k - 1] \in Int /\ q[k].count \in Int
      <4>1. q[k] \in Point
        BY <1>1, ElementOfSeq DEF m
      <4>2. q[k].count \in 1..MaxCount
        BY <4>1 DEF Point
      <4>3. q[k].count \in Int
        BY <4>2, BoundsAssumption
      <4> QED
        BY <1>1, <1>5, <3>1, <4>3
    <3>7. h[n + k] = f[n] + g[k]
      BY <3>4, <3>5, <3>6
    <3> QED
      BY <3>1, <3>7
  <2>3. \A k \in 0..m : k \in T
    <3> HIDE DEF T
    <3> QED
      BY <1>1, <2>1, <2>2, UpTo
  <2> QED
    BY <2>3
<1>8. f[n] \in Int /\ h[n + m] = f[n] + g[m]
  BY <1>1, <1>5, <1>7
<1> QED
  BY <1>2, <1>3, <1>4, <1>8 DEF r

\* The spans of no point and of one point.
LEMMA WeightOfOne ==
    /\ Weight(<<>>) = 0
    /\ \A p \in Point : Weight(<<p>>) = p.count
<1>1. Weight(<<>>) = 0
  <2>1. <<>> \in Seq(Point) /\ Len(<<>>) = 0
    OBVIOUS
  <2>2. PICK f : Sums(f, <<>>) /\ Weight(<<>>) = f[0]
    BY <2>1, WeightIsSum
  <2> QED
    BY <2>2 DEF Sums
<1>2. ASSUME NEW p \in Point
      PROVE  Weight(<<p>>) = p.count
  <2>1. <<p>> \in Seq(Point) /\ Len(<<p>>) = 1 /\ <<p>>[1] = p
    OBVIOUS
  <2>2. PICK f : Sums(f, <<p>>) /\ Weight(<<p>>) = f[1]
    BY <2>1, WeightIsSum
  <2>3. f[1] = f[0] + p.count /\ f[0] = 0
    BY <2>1, <2>2 DEF Sums
  <2>4. p.count \in 1..MaxCount
    BY DEF Point
  <2>5. p.count \in Int
    BY <2>4, BoundsAssumption
  <2> QED
    BY <2>2, <2>3, <2>5
<1> QED
  BY <1>1, <1>2

\* The buckets a span closes and opens hold one span more than before.
LEMMA SpanIsAdded ==
    ASSUME NEW b \in Seq(Point), Len(b) <= 1, NEW m \in Minute,
           m \in Minutes(b) => b[1].count < MaxCount
    PROVE  /\ Weight(Opened(b, m)) + Weight(Closed(b, m)) = Weight(b) + 1
           /\ Weight(Opened(b, m)) \in Int
<1>1. CASE m \in Minutes(b)
  <2>1. PICK i \in DOMAIN b : b[i].minute = m
    BY <1>1 DEF Minutes
  <2>2. DOMAIN b = 1 .. Len(b) /\ Len(b) \in Nat
    BY LenProperties
  <2>3. Len(b) = 1 /\ 1 \in 1 .. Len(b)
    BY <2>1, <2>2
  <2>4. b[1] \in Point
    BY <2>3, ElementOfSeq
  <2>5. b = <<b[1]>>
    BY <2>3
  <2>6. Weight(b) = b[1].count
    BY <2>4, <2>5, WeightOfOne
  <2>7. Weight(Closed(b, m)) = 0
    BY <1>1, WeightOfOne DEF Closed
  <2> DEFINE p == [b[1] EXCEPT !.count = @ + 1]
  <2>8. b[1].count \in 1..MaxCount /\ MaxCount \in Nat
    BY <2>4, BoundsAssumption DEF Point
  <2>9. Weight(<<p>>) = b[1].count + 1
    <3>1. p \in Point /\ p.count = b[1].count + 1
      BY <1>1, <2>4, <2>8 DEF Point
    <3> QED
      BY <3>1, WeightOfOne
  <2>10. Weight(Opened(b, m)) = b[1].count + 1
    BY <1>1, <2>9 DEF Opened
  <2> QED
    BY <2>6, <2>7, <2>8, <2>10
<1>2. CASE m \notin Minutes(b)
  <2>1. Closed(b, m) = b
    BY <1>2 DEF Closed
  <2>2. [minute |-> m, count |-> 1] \in Point
    BY BoundsAssumption DEF Point
  <2>3. Weight(<<[minute |-> m, count |-> 1]>>) = 1
    BY <2>2, WeightOfOne
  <2>4. Weight(Opened(b, m)) = 1
    BY <1>2, <2>3 DEF Opened
  <2>5. Weight(b) \in Int
    BY WeightAddsUp
  <2> QED
    BY <2>1, <2>4, <2>5
<1> QED
  BY <1>1, <1>2

\* What Store writes accounts for the spans, if the points and the bucket it is
\* given hold the n spans more.
LEMMA StoreAccounts ==
    ASSUME IInv, SpansAccounted, NEW s \in Service, NEW evicted \in Evictions(s),
           NEW q \in Seq(Point), NEW b, NEW n \in Int, Weight(b) \in Int,
           Weight(b) + Weight(q) = Weight(bucket[s]) + n,
           Store(s, evicted, q, b, n)
    PROVE  SpansAccounted'
<1>1. s \notin evicted
  BY EvictionProperties DEF IInv, TypeOK
<1>2. /\ series[s] \in Seq(Point) /\ bucket[s] \in Seq(Point)
      /\ held[s] = Weight(bucket[s]) + Weight(series[s])
      /\ bucket \in [Service -> Seq(Point)] /\ series \in [Service -> Seq(Point)]
      /\ DOMAIN held = Service
  BY DEF IInv, TypeOK, SpansAccounted
<1> DEFINE all == series[s] \o q
<1>3. /\ Forget(series, evicted, <<>>)[s] = series[s]
      /\ Forget(held, evicted, 0)[s] = held[s]
  BY <1>1 DEF Forget
<1>4. /\ series' = [Forget(series, evicted, <<>>) EXCEPT ![s] = Ring(all)]
      /\ bucket' = [Forget(bucket, evicted, <<>>) EXCEPT ![s] = b]
      /\ held' = [Forget(held, evicted, 0) EXCEPT
                     ![s] = (held[s] + n + Weight(Ring(all))) - Weight(all)]
  BY <1>3 DEF Store
<1>5. /\ all \in Seq(Point)
      /\ Weight(all) = Weight(series[s]) + Weight(q)
      /\ Weight(series[s]) \in Int /\ Weight(q) \in Int /\ Weight(bucket[s]) \in Int
      /\ Weight(Ring(all)) \in Int
  BY <1>2, WeightAddsUp, RingProperties, ConcatMinutes
<1> HIDE DEF all
<1>6. held'[s] = Weight(bucket'[s]) + Weight(series'[s])
  <2>1. /\ held'[s] = (held[s] + n + Weight(Ring(all))) - Weight(all)
        /\ bucket'[s] = b /\ series'[s] = Ring(all)
    BY <1>4 DEF Forget
  <2>2. (held[s] + n + Weight(Ring(all))) - Weight(all) = Weight(b) + Weight(Ring(all))
    <3>1. /\ Weight(b) + Weight(q) = Weight(bucket[s]) + n
          /\ Weight(b) \in Int /\ n \in Int
      OBVIOUS
    <3>2. PICK i \in Int, j \in Int, k \in Int, l \in Int, r \in Int :
             /\ i = Weight(b) /\ j = Weight(q) /\ k = Weight(bucket[s])
             /\ l = Weight(series[s]) /\ r = Weight(Ring(all))
      BY <1>5, <3>1
    <3>3. held[s] = k + l /\ Weight(all) = l + j /\ i + j = k + n
      BY <1>2, <1>5, <3>1, <3>2
    <3>4. ((k + l) + n + r) - (l + j) = i + r
      BY ONLY <3>3, n \in Int, i \in Int, j \in Int, k \in Int, l \in Int, r \in Int
    <3> QED
      BY <3>2, <3>3, <3>4
  <2> QED
    BY <2>1, <2>2
<1>7. ASSUME NEW t \in Service, t # s
      PROVE  held'[t] = Weight(bucket'[t]) + Weight(series'[t])
  <2>1. CASE t \in evicted
    <3>1. held'[t] = 0 /\ bucket'[t] = <<>> /\ series'[t] = <<>>
      BY <1>4, <1>7, <2>1 DEF Forget
    <3> QED
      BY <3>1, WeightOfOne
  <2>2. CASE t \notin evicted
    <3>1. held'[t] = held[t] /\ bucket'[t] = bucket[t] /\ series'[t] = series[t]
      BY <1>4, <1>7, <2>2 DEF Forget
    <3> QED
      BY <3>1 DEF SpansAccounted
  <2> QED
    BY <2>1, <2>2
<1>8. \A t \in Service : held'[t] = Weight(bucket'[t]) + Weight(series'[t])
  BY <1>6, <1>7
<1> QED
  BY <1>8 DEF SpansAccounted, Weight, FoldSeq, FoldFunction, FoldFunctionOnSet, MapThenFoldSet

\* Every step accounts for the spans.
LEMMA StepAccounts == IInv /\ SpansAccounted /\ [Next]_vars => SpansAccounted'
<1> SUFFICES ASSUME IInv, SpansAccounted, [Next]_vars
             PROVE  SpansAccounted'
  OBVIOUS
<1>1. TypeOK /\ CardinalityBounded
  BY DEF IInv
<1>2. ASSUME NEW s \in Service
      PROVE  bucket[s] \in Seq(Point) /\ Weight(bucket[s]) \in Int
  BY <1>1, WeightAddsUp DEF TypeOK
<1>3. <<>> \in Seq(Point) /\ Weight(<<>>) = 0
  BY WeightOfOne
<1>4. ASSUME NEW s \in Service, LoadService(s)
      PROVE  SpansAccounted'
  <2> DEFINE points == Loaded(redis[s], tsIndex[s])
  <2>1. PICK evicted \in Evictions(s), q \in [1..Cardinality(points) -> points] :
           /\ \A i, j \in DOMAIN q : i < j => Before(q[i], q[j])
           /\ Touch(s, evicted)
           /\ Store(s, evicted, q, bucket[s], Weight(q))
    BY <1>4 DEF LoadService
  <2>2. q \in Seq(Point)
    BY <1>1, <2>1, LoadedProperties
  <2> HIDE DEF points
  <2>3. Weight(q) \in Int
    BY <2>2, WeightAddsUp
  <2> QED
    BY <1>2, <2>1, <2>2, <2>3, StoreAccounts
<1>5. ASSUME NEW s \in Service, NEW p \in Point, IngestRed(s, p)
      PROVE  SpansAccounted'
  <2>1. PICK evicted \in Evictions(s) :
           \/ Store(s, evicted, <<>>, Forget(bucket, evicted, <<>>)[s], 0)
           \/ Store(s, evicted, <<p>>, Forget(bucket, evicted, <<>>)[s], p.count)
    BY <1>5 DEF IngestRed
  <2>2. Forget(bucket, evicted, <<>>)[s] = bucket[s]
    BY <1>1, EvictionProperties DEF Forget, TypeOK
  <2>3. <<p>> \in Seq(Point) /\ Weight(<<p>>) = p.count
    BY WeightOfOne
  <2>4. p.count \in Int
    BY <2>3, WeightAddsUp
  <2>5. CASE Store(s, evicted, <<>>, Forget(bucket, evicted, <<>>)[s], 0)
    <3>1. Store(s, evicted, <<>>, bucket[s], 0)
      BY <2>2, <2>5
    <3>2. Weight(bucket[s]) + Weight(<<>>) = Weight(bucket[s]) + 0 /\ 0 \in Int
      BY <1>2, <1>3
    <3> QED
      BY <1>2, <1>3, <3>1, <3>2, StoreAccounts
  <2>6. CASE Store(s, evicted, <<p>>, Forget(bucket, evicted, <<>>)[s], p.count)
    <3>1. Store(s, evicted, <<p>>, bucket[s], p.count)
      BY <2>2, <2>6
    <3> QED
      BY <1>2, <2>3, <2>4, <3>1, StoreAccounts
  <2> QED
    BY <2>1, <2>5, <2>6
<1>6. ASSUME NEW s \in Service, NEW m \in Minute, Update(s, m)
      PROVE  SpansAccounted'
  <2>1. PICK evicted \in Evictions(s) :
           LET b == Forget(bucket, evicted, <<>>)[s]
           IN  /\ m \in Minutes(b) => b[1].count < MaxCount
               /\ Store(s, evicted, Closed(b, m), Opened(b, m), 1)
    BY <1>6 DEF Update
  <2> DEFINE b == bucket[s]
  <2>2. Forget(bucket, evicted, <<>>)[s] = b
    BY <1>1, EvictionProperties DEF Forget, TypeOK
  <2>3. /\ m \in Minutes(b) => b[1].count < MaxCount
        /\ Store(s, evicted, Closed(b, m), Opened(b, m), 1)
    BY <2>1, <2>2
  <2>4. b \in Seq(Point) /\ Len(b) <= 1 /\ Weight(b) \in Int
    BY <1>1, <1>2 DEF TypeOK
  <2>5. Closed(b, m) \in Seq(Point)
    BY <2>4 DEF Closed
  <2>6. /\ Weight(Opened(b, m)) + Weight(Closed(b, m)) = Weight(b) + 1
        /\ Weight(Opened(b, m)) \in Int
    BY <2>3, <2>4, SpanIsAdded
  <2> QED
    BY <2>3, <2>5, <2>6, StoreAccounts
<1>7. CASE FlushOpenBuckets
  <2>1. /\ series' = [s \in Service |-> Ring(series[s] \o bucket[s])]
        /\ bucket' = [s \in Service |-> <<>>]
        /\ held' = [s \in Service |->
                       (held[s] + Weight(Ring(series[s] \o bucket[s])))
                           - Weight(series[s] \o bucket[s])]
    BY <1>7 DEF FlushOpenBuckets
  <2>2. ASSUME NEW s \in Service
        PROVE  held'[s] = Weight(bucket'[s]) + Weight(series'[s])
    <3> DEFINE all == series[s] \o bucket[s]
    <3>1. /\ series[s] \in Seq(Point) /\ bucket[s] \in Seq(Point)
          /\ held[s] = Weight(bucket[s]) + Weight(series[s])
      BY <1>1 DEF TypeOK, SpansAccounted
    <3>2. /\ Weight(all) = Weight(series[s]) + Weight(bucket[s])
          /\ Weight(series[s]) \in Int /\ Weight(bucket[s]) \in Int
          /\ Weight(Ring(all)) \in Int
      BY <3>1, WeightAddsUp, RingProperties, ConcatMinutes
    <3>3. held'[s] = (held[s] + Weight(Ring(all))) - Weight(all)
      BY <2>1
    <3>4. Weight(bucket'[s]) = 0 /\ series'[s] = Ring(all)
      BY <1>3, <2>1
    <3> HIDE DEF all
    <3> QED
      BY <3>1, <3>2, <3>3, <3>4
  <2> QED
    BY <2>2 DEF SpansAccounted, Weight, FoldSeq, FoldFunction, FoldFunctionOnSet, MapThenFoldSet
<1>8. CASE Restart
  <2>1. \A s \in Service : held'[s] = 0 /\ bucket'[s] = <<>> /\ series'[s] = <<>>
    BY <1>8 DEF Restart
  <2>2. \A s \in Service : held'[s] = Weight(bucket'[s]) + Weight(series'[s])
    BY <1>3, <2>1
  <2> QED
    BY <2>2 DEF SpansAccounted, Weight, FoldSeq, FoldFunction, FoldFunctionOnSet, MapThenFoldSet
<1>9. CASE UNCHANGED <<held, bucket, series>>
  <2>1. \A s \in Service : held'[s] = Weight(bucket'[s]) + Weight(series'[s])
    BY <1>9 DEF SpansAccounted
  <2> QED
    BY <2>1 DEF SpansAccounted, Weight, FoldSeq, FoldFunction, FoldFunctionOnSet, MapThenFoldSet
<1>10. \A s \in Service : LoadFails(s) => UNCHANGED <<held, bucket, series>>
  BY DEF LoadFails
<1>11. PreloadDone \/ BackfillDone => UNCHANGED <<held, bucket, series>>
  BY DEF PreloadDone, BackfillDone, memory
<1>12. \A t \in persisting : Persist(t) \/ PersistFails(t) => UNCHANGED <<held, bucket, series>>
  BY DEF Persist, PersistFails, memory
<1>13. CASE UNCHANGED vars
  BY <1>9, <1>13 DEF vars, memory
<1> QED
  BY <1>4, <1>5, <1>6, <1>7, <1>8, <1>9, <1>10, <1>11, <1>12, <1>13 DEF Next

\* No span is counted twice or dropped between bucket and series.
THEOREM SpansAreAccounted == Spec => []SpansAccounted
<1>1. Init => SpansAccounted
  BY WeightOfOne DEF Init, SpansAccounted
<1> QED
  BY InvariantHolds, <1>1, StepAccounts, PTL DEF Spec
=============================================================================
