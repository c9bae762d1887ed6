---------------------------- MODULE IngestProofs ----------------------------
(***************************************************************************)
(* Proofs about ingestion, from KafkaConsumer up.  The poll loop           *)
(* implements AtLeastOnce and its commits never go back, for logs of any   *)
(* length and any number of stops, reassignments and failed polls.  With   *)
(* contents, stores, requests and readers beside it (Ingest) the consumer  *)
(* still is that one, and what reaches a handler of a message is a prefix  *)
(* of it without a malformed item.                                         *)
(*                                                                         *)
(* The stores are folds over the items of a message.  Kept says what they  *)
(* hold of the history of events: one lemma for each store says that a     *)
(* single item keeps it, ItemsKeep goes along the items of a message, and  *)
(* IngestTyped is the invariant of the whole.  Four theorems follow from   *)
(* it: the call graph that is shown needs nothing else; prefixes (Applied),*)
(* logs (LogInv) and catching up (Replay) each have an invariant of their  *)
(* own.                                                                    *)
(***************************************************************************)
EXTENDS Ingest, FoldLemmas, SequenceTheorems

-----------------------------------------------------------------------------
(* The consumer.                                                           *)

\* What the consumer has read or the group has acknowledged was handed over
\* or forgone, and a running consumer is not behind its group.
ReadIsAccountedFor ==
    /\ 1 .. committed \subseteq dispatched \cup forgone
    /\ Consuming => /\ 1 .. position \subseteq dispatched \cup forgone
                    /\ committed <= position

IInv == TypeOK /\ ReadIsAccountedFor

-----------------------------------------------------------------------------

\* Where an assigned consumer reads from: everything before is accounted for.
LEMMA AssignedProperties ==
    ASSUME IInv, Assigned
    PROVE  /\ position' \in 0 .. Len(log)
           /\ committed <= position'
           /\ forgone \subseteq forgone'
           /\ forgone' \subseteq Offsets
           /\ 1 .. position' \subseteq dispatched \cup forgone'
           /\ \/ forgone' = forgone
              \/ committed = 0 /\ forgone' = Offsets
<1>1. Len(log) \in Nat /\ committed \in Nat /\ committed <= Len(log)
  BY BoundsAssumption DEF IInv, TypeOK
<1>2. CASE committed = 0
  <2>1. position' = Len(log) /\ forgone' = Offsets
    BY <1>2 DEF Assigned, FetchPosition
  <2>2. QED
    BY <1>1, <1>2, <2>1 DEF IInv, TypeOK, Offsets
<1>3. CASE committed # 0
  <2>1. position' = committed /\ forgone' = forgone
    BY <1>3 DEF Assigned, FetchPosition
  <2>2. QED
    BY <1>1, <2>1 DEF IInv, TypeOK, ReadIsAccountedFor
<1>4. QED
  BY <1>2, <1>3

\* The offset a commit sends, wherever the position is.
LEMMA CommitProperties ==
    ASSUME IInv, phase = "committing"
    PROVE  /\ CommitOffset \in 0 .. Len(log)
           /\ CommitOffset >= committed
           /\ 1 .. CommitOffset \subseteq dispatched \cup forgone
BY DEF IInv, TypeOK, ReadIsAccountedFor, CommitOffset, Consuming

-----------------------------------------------------------------------------

\* The invariant of the consumer holds at the start,
THEOREM InitIInv == Init => IInv
<1> SUFFICES ASSUME Init PROVE IInv
  OBVIOUS
<1>1. log \in Seq(Ending)
  <2>1. <<>> \in Seq(Ending)
    OBVIOUS
  <2>2. "returns" \in Ending
    BY DEF Ending
  <2>3. <<"returns">> \in Seq(Ending)
    BY <2>2
  <2>4. QED
    BY <2>1, <2>3 DEF Init
<1>2. Len(log) \in Nat
  BY <1>1
<1>3. TypeOK
  BY <1>1, <1>2, BoundsAssumption DEF Init, TypeOK
<1>4. ReadIsAccountedFor
  BY DEF Init, ReadIsAccountedFor, Consuming
<1>5. QED
  BY <1>3, <1>4 DEF IInv

\* and every step of the consumer keeps it.
THEOREM NextIInv == IInv /\ [Next]_vars => IInv'
<1> SUFFICES ASSUME IInv, [Next]_vars
             PROVE  IInv'
  OBVIOUS
<1>0. Len(log) \in Nat /\ MaxLog \in Nat /\ MaxStops \in Nat
  BY BoundsAssumption DEF IInv, TypeOK
<1>1. CASE Publish
  <2>1. PICK m \in Ending : log' = Append(log, m)
    BY <1>1 DEF Publish
  <2>2. log' \in Seq(Ending) /\ Len(log') = Len(log) + 1
    BY <2>1 DEF IInv, TypeOK
  <2>3. QED
    BY <1>0, <1>1, <2>2
       DEF Publish, IInv, TypeOK, ReadIsAccountedFor, Consuming, Offsets
<1>2. CASE Start
  <2>1. Assigned
    BY <1>2 DEF Start
  <2>2. QED
    BY <1>0, <1>2, <2>1, AssignedProperties
       DEF Start, IInv, TypeOK, ReadIsAccountedFor, Consuming, Offsets
<1>3. CASE Dispatch
  <2>1. /\ position' = position + 1
        /\ position < Len(log)
        /\ dispatched' = dispatched \cup {position + 1}
        /\ phase' \in {"backoff", "committing"}
        /\ phase = "polling"
        /\ UNCHANGED <<log, committed, forgone, since, stops>>
    BY <1>3 DEF Dispatch, Advance
  <2>2. position + 1 \in Offsets
    BY <1>0, <2>1 DEF IInv, TypeOK, Offsets
  <2>3. 1 .. position' \subseteq dispatched' \cup forgone'
    BY <1>0, <2>1 DEF IInv, TypeOK, ReadIsAccountedFor, Consuming
  <2>4. QED
    BY <1>0, <2>1, <2>2, <2>3 DEF IInv, TypeOK, ReadIsAccountedFor, Consuming, Offsets
<1>4. CASE Commit
  <2>1. /\ committed' = CommitOffset
        /\ CommitOffset = position
        /\ phase = "committing"
        /\ phase' = "polling"
        /\ UNCHANGED <<log, position, dispatched, forgone, since, stops>>
    BY <1>4 DEF Commit, CommitOffset
  <2>2. QED
    BY <1>0, <2>1, CommitProperties DEF IInv, TypeOK, ReadIsAccountedFor, Consuming, Offsets
<1>5. CASE CommitFails \/ BackoffOver \/ StartFails
  BY <1>5 DEF CommitFails, StartFails, BackoffOver, IInv, TypeOK, ReadIsAccountedFor, Consuming, Offsets
<1>6. CASE PollFails
  BY <1>0, <1>6 DEF PollFails, IInv, TypeOK, ReadIsAccountedFor, Consuming, Offsets
<1>7. CASE Stop
  <2>1. /\ stops' \in 0 .. MaxStops
        /\ phase' = "stopped"
        /\ UNCHANGED <<log, position, dispatched, forgone, since>>
    BY <1>0, <1>7 DEF Stop, IInv, TypeOK
  <2>2. /\ committed' \in 0 .. Len(log)
        /\ 1 .. committed' \subseteq dispatched \cup forgone
    BY <1>7, CommitProperties DEF Stop, IInv, TypeOK, ReadIsAccountedFor, Consuming
  <2>3. QED
    BY <2>1, <2>2 DEF IInv, TypeOK, ReadIsAccountedFor, Consuming, Offsets
<1>8. CASE Reassign
  <2>1. Assigned /\ stops' \in 0 .. MaxStops
    BY <1>0, <1>8 DEF Reassign, IInv, TypeOK
  <2>2. QED
    BY <1>0, <1>8, <2>1, AssignedProperties
       DEF Reassign, IInv, TypeOK, ReadIsAccountedFor, Consuming, Offsets
<1>9. CASE UNCHANGED vars
  BY <1>9 DEF vars, IInv, TypeOK, ReadIsAccountedFor, Consuming, Offsets
<1>10. QED
  BY <1>1, <1>2, <1>3, <1>4, <1>5, <1>6, <1>7, <1>8, <1>9 DEF Next

\* The inductive invariant holds in every reachable state.
THEOREM InvariantHolds == Spec => []IInv
  BY InitIInv, NextIInv, PTL DEF Spec

\* Type correctness, the committed offset and the position within the log.
THEOREM TypeCorrect == Spec => []TypeOK
<1>1. IInv => TypeOK
  BY DEF IInv
<1>2. QED
  BY <1>1, InvariantHolds, PTL

-----------------------------------------------------------------------------

\* A step of the poll loop is a step of the promise, or none.
THEOREM StepRefines == IInv /\ [Next]_vars => [Promise!Next]_(Promise!vars)
<1> SUFFICES ASSUME IInv, [Next]_vars
             PROVE  [Promise!Next]_(Promise!vars)
  OBVIOUS
<1>0. Len(log) \in Nat /\ committed \in 0 .. Len(log)
  BY DEF IInv, TypeOK
<1> USE DEF Promise!vars
<1>1. CASE Publish
  <2>1. Len(log') = Len(log) + 1
    BY <1>1 DEF Publish, IInv, TypeOK
  <2>2. Promise!Publish
    BY <1>1, <2>1 DEF Publish, Promise!Publish
  <2>3. QED
    BY <2>2 DEF Promise!Next
<1>2. CASE Start \/ Reassign
  <2>1. Assigned /\ UNCHANGED <<log, committed, dispatched>>
    BY <1>2 DEF Start, Reassign
  <2>2. \/ forgone' = forgone
        \/ committed = 0 /\ forgone' = Offsets
    BY <2>1, AssignedProperties
  <2>3. CASE forgone' = forgone
    BY <2>1, <2>3
  <2>4. CASE committed = 0 /\ forgone' = Offsets
    BY <2>1, <2>4 DEF Promise!Next, Promise!Forgo, Offsets
  <2>5. QED
    BY <2>2, <2>3, <2>4
<1>3. CASE Dispatch
  <2>1. /\ position \in 0 .. Len(log)
        /\ position < Len(log)
        /\ committed <= position
        /\ dispatched' = dispatched \cup {position + 1}
        /\ UNCHANGED <<log, committed, forgone>>
    BY <1>3 DEF Dispatch, IInv, TypeOK, ReadIsAccountedFor, Consuming
  <2>2. position + 1 \in committed + 1 .. Len(log) /\ position + 1 \in 1 .. Len(log)
    BY <1>0, <2>1
  <2>3. Promise!Deliver(position + 1)
    BY <2>1, <2>2 DEF Promise!Deliver
  <2>4. QED
    BY <2>2, <2>3 DEF Promise!Next
<1>4. CASE Commit \/ (Stop /\ committed' = CommitOffset /\ phase = "committing")
  <2>1. /\ phase = "committing"
        /\ committed' = CommitOffset
        /\ UNCHANGED <<log, dispatched, forgone>>
    BY <1>4 DEF Commit, Stop
  <2>2. /\ committed' \in 0 .. Len(log)
        /\ committed' >= committed
        /\ 1 .. committed' \subseteq dispatched \cup forgone
    BY <2>1, CommitProperties
  <2>3. CASE committed' = committed
    BY <2>1, <2>3
  <2>4. CASE committed' # committed
    <3>1. /\ committed' \in committed + 1 .. Len(log)
          /\ committed' \in 1 .. Len(log)
          /\ committed + 1 .. committed' \subseteq dispatched \cup forgone
      BY <1>0, <2>2, <2>4
    <3>2. Promise!Acknowledge(committed')
      BY <2>1, <3>1 DEF Promise!Acknowledge
    <3>3. QED
      BY <3>1, <3>2 DEF Promise!Next
  <2>5. QED
    BY <2>3, <2>4
<1>5. CASE CommitFails \/ PollFails \/ BackoffOver \/ StartFails \/ (Stop /\ UNCHANGED committed)
  BY <1>5 DEF CommitFails, StartFails, PollFails, BackoffOver, Stop
<1>6. CASE UNCHANGED vars
  BY <1>6 DEF vars
<1>7. QED
  BY <1>1, <1>2, <1>3, <1>4, <1>5, <1>6 DEF Next, Stop

\* The consumer's poll loop implements at-least-once delivery
\* (_consume_loop, kafka_consumer.py:253).
THEOREM Implements == Spec => AcknowledgesOnlyDelivered
<1>1. Init => Promise!Init
  <2> SUFFICES ASSUME Init PROVE Promise!Init
    OBVIOUS
  <2>1. Len(log) \in Nat
    BY InitIInv DEF IInv, TypeOK
  <2>2. QED
    BY <2>1 DEF Init, Promise!Init
<1>2. QED
  BY <1>1, StepRefines, InvariantHolds, PTL
     DEF Spec, Promise!Spec, AcknowledgesOnlyDelivered

\* A commit never takes the group back.
THEOREM NeverGoesBack == Spec => CommitsMonotone
<1>1. IInv /\ [Next]_vars => [committed' >= committed]_vars
  <2> SUFFICES ASSUME IInv, Next
               PROVE  committed' >= committed
    OBVIOUS
  <2>0. committed \in Nat
    BY DEF IInv, TypeOK
  <2>1. CASE UNCHANGED committed
    BY <2>0, <2>1
  <2>2. CASE phase = "committing" /\ committed' = CommitOffset
    BY <2>2, CommitProperties
  <2>3. QED
    BY <2>1, <2>2
       DEF Next, Publish, Start, StartFails, Dispatch, Commit, CommitFails, PollFails,
           BackoffOver, Stop, Reassign
<1>2. QED
  BY <1>1, InvariantHolds, PTL DEF Spec, CommitsMonotone

\* What at-least-once is for: no acknowledged record is lost, it was handed over
\* or the group had chosen to start behind it (kafka_consumer.py:253).
THEOREM NothingIsLost == Spec => []Promise!NothingLost
<1>1. IInv => Promise!NothingLost
  BY DEF IInv, ReadIsAccountedFor, Promise!NothingLost
<1>2. QED
  BY <1>1, InvariantHolds, PTL

-----------------------------------------------------------------------------
(* Contents, handlers and stores.                                          *)

\* Whatever a message holds, the items handed to its handler are its first ones,
\* and none is malformed (kafka_consumer.py:265-293): a list is cut at the first
\* malformed item, another message dropped whole.
THEOREM HandlersSeeAValidPrefix ==
    ASSUME NEW m, NEW S, m.items \in Seq(S)
    PROVE  /\ \E n \in 0 .. Len(m.items) :
                 Len(Decoded(m)) = n /\ \A i \in 1 .. n : Decoded(m)[i] = m.items[i]
           /\ \A i \in 1 .. Len(Decoded(m)) : Decoded(m)[i].kind # "malformed"
  <1>1. Malformed(m) \subseteq 1 .. Len(m.items)
    BY DEF Malformed
  <1>2. \A i \in 1 .. Len(m.items) : i \notin Malformed(m) => m.items[i].kind # "malformed"
    BY DEF Malformed
  <1>3. CASE Decoded(m) = <<>>
    BY <1>3
  <1>4. CASE Decoded(m) = m.items /\ Malformed(m) = {}
    BY <1>2, <1>4
  <1>5. CASE /\ Malformed(m) # {}
             /\ Decoded(m) = SubSeq(m.items, 1, (CHOOSE i \in Malformed(m) : \A j \in Malformed(m) : i <= j) - 1)
    <2>. DEFINE first == CHOOSE i \in Malformed(m) : \A j \in Malformed(m) : i <= j
    <2>1. first \in Malformed(m) /\ \A j \in Malformed(m) : first <= j
      <3>1. Malformed(m) \subseteq Nat
        BY <1>1
      <3>. QED  BY <1>5, <3>1, FirstPosition
    <2>. HIDE DEF first
    <2>2. first \in 1 .. Len(m.items)
      BY <1>1, <2>1
    <2>3. /\ Len(SubSeq(m.items, 1, first - 1)) = first - 1
          /\ \A i \in 1 .. first - 1 : SubSeq(m.items, 1, first - 1)[i] = m.items[i]
      BY <2>2
    <2>4. \A i \in 1 .. first - 1 : i \notin Malformed(m)
      BY <2>1, <2>2
    <2>5. Decoded(m) = SubSeq(m.items, 1, first - 1)
      BY <1>5 DEF first
    <2>. QED  BY <1>2, <2>2, <2>3, <2>4, <2>5
  <1>6. \/ Decoded(m) = <<>>
        \/ Decoded(m) = m.items /\ Malformed(m) = {}
        \/ Decoded(m) = SubSeq(m.items, 1, Len(m.items)) /\ Malformed(m) = {}
        \/ /\ Malformed(m) # {}
           /\ Decoded(m) = SubSeq(m.items, 1, (CHOOSE i \in Malformed(m) : \A j \in Malformed(m) : i <= j) - 1)
    BY DEF Decoded
  <1>7. SubSeq(m.items, 1, Len(m.items)) = m.items
    OBVIOUS
  <1>. QED  BY <1>3, <1>4, <1>5, <1>6, <1>7

-----------------------------------------------------------------------------

\* A step of ingestion is one of the consumer, or none.
LEMMA ConsumerSteps == [IngestNext]_<<stores, vars>> => [Next]_vars
  <1>. SUFFICES ASSUME [IngestNext]_<<stores, vars>> PROVE [Next]_vars
    OBVIOUS
  <1>1. CASE IngestPublish \/ IngestDispatch \/ IngestStop \/ ConsumerStep
    BY <1>1 DEF IngestPublish, IngestDispatch, IngestStop, ConsumerStep, Next
  <1>2. CASE PostBody \/ GetTopology \/ Tick
    BY <1>2 DEF PostBody, GetTopology, Tick
  <1>. QED  BY <1>1, <1>2 DEF IngestNext

\* With everything that happens beside it, the consumer takes the steps of
\* KafkaConsumer and no others (kafka_consumer.py:230-263).
THEOREM ConsumerIsImplemented == IngestSpec => Spec
  <1>1. IngestInit => Init
    BY DEF IngestInit
  <1>. QED  BY <1>1, ConsumerSteps, PTL DEF IngestSpec, Spec

\* So the stores' records are handed over before they are acknowledged.
THEOREM IngestAcknowledgesOnlyDelivered == IngestSpec => AcknowledgesOnlyDelivered
  BY Implements, ConsumerIsImplemented, PTL

-----------------------------------------------------------------------------
(* What the stores hold, before and after each item.                       *)

Attributes == UNION {DOMAIN i.attrs : i \in Items}
Values == UNION {{i.attrs[a] : a \in DOMAIN i.attrs} : i \in Items}
Metadata == UNION {[D -> Values] : D \in SUBSET Attributes}
Indexes ==
    UNION {[D -> [service : Service, expires : Nat]] : D \in {E \in SUBSET Ids : IsFiniteSet(E)}}
Edges == UNION {[D -> [calls : Nat, errors : Nat, seen : Nat]] : D \in SUBSET (Service \X Service)}
Rows == [id : Ids, service : Service, time : Nat]
Points == [id : Ids, time : Nat]

\* The states of the stores.
Stores ==
    [topology : [index : Indexes, edges : Edges],
     counted : [Ids -> Nat],
     registry : [Service -> Metadata],
     all : Seq(Rows),
     by : [Service -> Seq(Rows)],
     metrics : [Service -> Seq(Points)],
     logs : Seq(Rows)]

\* The fields of an item, by its assumption.
LEMMA ItemTypes ==
    ASSUME NEW i \in Items
    PROVE  /\ i.id \in Ids /\ i.service \in Service /\ i.time \in Nat /\ i.error \in BOOLEAN
           /\ i.attrs \in Metadata
  <1>1. i.id \in Ids /\ i.service \in Service /\ i.time \in Nat /\ i.error \in BOOLEAN
    BY MessageAssumption DEF Ids
  <1>2. i.attrs \in Metadata
    <2>1. i.attrs = [a \in DOMAIN i.attrs |-> i.attrs[a]]
      BY MessageAssumption
    <2>2. DOMAIN i.attrs \in SUBSET Attributes
      BY DEF Attributes
    <2>3. \A a \in DOMAIN i.attrs : i.attrs[a] \in Values
      BY DEF Values
    <2>4. i.attrs \in [DOMAIN i.attrs -> Values]
      BY <2>1, <2>3
    <2>. QED  BY <2>2, <2>4 DEF Metadata
  <1>. QED  BY <1>1, <1>2

\* A ring with one more element.
LEMMA PushedProperties ==
    ASSUME NEW S, NEW ring \in Seq(S), NEW x \in S, NEW n \in Nat \ {0}
    PROVE  /\ Pushed(ring, x, n) \in Seq(S)
           /\ Pushed(ring, x, n) # << >>
           /\ Len(ring) <= n => Len(Pushed(ring, x, n)) <= n
           /\ Last(Pushed(ring, x, n)) = x
           /\ ToSet(Pushed(ring, x, n)) \subseteq ToSet(ring) \cup {x}
  <1>1. CASE Len(ring) < n
    <2>1. Pushed(ring, x, n) = Append(ring, x)
      BY <1>1 DEF Pushed
    <2>2. Append(ring, x) \in Seq(S) /\ Len(Append(ring, x)) = Len(ring) + 1
          /\ \A i \in 1 .. Len(ring) : Append(ring, x)[i] = ring[i]
          /\ Append(ring, x)[Len(ring) + 1] = x
      BY AppendProperties
    <2>. QED  BY <1>1, <2>1, <2>2 DEF Last, ToSet
  <1>2. CASE ~ (Len(ring) < n)
    <2>1. Pushed(ring, x, n) = Append(Tail(ring), x) /\ ring # << >>
      BY <1>2 DEF Pushed
    <2>2. /\ Tail(ring) \in Seq(S) /\ Len(Tail(ring)) = Len(ring) - 1
          /\ \A i \in 1 .. Len(Tail(ring)) : Tail(ring)[i] = ring[i + 1]
      BY <2>1, HeadTailProperties
    <2>3. /\ Append(Tail(ring), x) \in Seq(S) /\ Len(Append(Tail(ring), x)) = Len(Tail(ring)) + 1
          /\ \A i \in 1 .. Len(Tail(ring)) : Append(Tail(ring), x)[i] = Tail(ring)[i]
          /\ Append(Tail(ring), x)[Len(Tail(ring)) + 1] = x
      BY <2>2, AppendProperties
    <2>. DEFINE new == Append(Tail(ring), x)
    <2>4. \A i \in 1 .. Len(new) : new[i] = x \/ (i + 1 \in 1 .. Len(ring) /\ new[i] = ring[i + 1])
      <3>1. \A i \in 1 .. Len(new) : i = Len(Tail(ring)) + 1 \/ i \in 1 .. Len(Tail(ring))
        <4>1. Len(Tail(ring)) \in Nat /\ Len(new) = Len(Tail(ring)) + 1
          BY <2>2, <2>3, LenProperties
        <4>. HIDE DEF new
        <4>. QED  BY <4>1
      <3>2. \A i \in 1 .. Len(Tail(ring)) : i + 1 \in 1 .. Len(ring) /\ new[i] = ring[i + 1]
        BY <2>2, <2>3
      <3>. HIDE DEF new
      <3>. QED  BY <2>3, <3>1, <3>2 DEF new
    <2>. HIDE DEF new
    <2>5. ToSet(new) \subseteq ToSet(ring) \cup {x}
      BY <2>3, <2>4 DEF ToSet, new
    <2>. QED  BY <1>2, <2>1, <2>2, <2>3, <2>5 DEF Last, new
  <1>. QED  BY <1>1, <1>2

\* What an index becomes with one more span.
LEMMA RegisteredProperties ==
    ASSUME NEW index \in Indexes, NEW span \in Items, NEW at \in Nat
    PROVE  /\ Evicted(index, at) \in Indexes
           /\ Registered(index, span, at) \in Indexes
           /\ DOMAIN Evicted(index, at) \subseteq DOMAIN index
           /\ \A i \in DOMAIN Evicted(index, at) : Evicted(index, at)[i] = index[i]
           /\ \A i \in DOMAIN index : index[i].expires > at => i \in DOMAIN Evicted(index, at)
           /\ Cardinality(DOMAIN index) >= MaxIndex =>
                 \A i \in DOMAIN Evicted(index, at) : index[i].expires > at
           /\ Cardinality(DOMAIN index) < MaxIndex => Evicted(index, at) = index
           /\ DOMAIN Registered(index, span, at) = DOMAIN Evicted(index, at) \cup {span.id}
           /\ Registered(index, span, at)[span.id] = [service |-> span.service, expires |-> at + SpanTtl]
           /\ \A i \in DOMAIN Evicted(index, at) : i # span.id => Registered(index, span, at)[i] = index[i]
  <1>. DEFINE old == Evicted(index, at)
              V == [service : Service, expires : Nat]
              entry == [service |-> span.service, expires |-> at + SpanTtl]
              live == [x \in {y \in DOMAIN index : index[y].expires > at} |-> index[x]]
  <1>1. PICK D \in SUBSET Ids : IsFiniteSet(D) /\ index \in [D -> V]
    BY DEF Indexes
  <1>2. old = IF Cardinality(DOMAIN index) >= MaxIndex THEN live ELSE index
    BY DEF Evicted, Keep
  <1>3. /\ DOMAIN live = {y \in D : index[y].expires > at}
        /\ \A x \in DOMAIN live : live[x] = index[x]
        /\ live \in [DOMAIN live -> V]
    BY <1>1
  <1>4. PICK E \in SUBSET Ids : IsFiniteSet(E) /\ old \in [E -> V]
    <2>1. IsFiniteSet(DOMAIN live)
      BY <1>1, <1>3, FS_Subset
    <2>. HIDE DEF live, old
    <2>. QED  BY <1>1, <1>2, <1>3, <2>1
  <1>5. entry \in V /\ span.id \in Ids
    BY ItemTypes, TopologyAssumption
  <1>. DEFINE new == [i \in {span.id} |-> entry]
  <1>6. Registered(index, span, at) = Updated(old, new)
    BY DEF Registered
  <1>7. Cardinality(DOMAIN index) < MaxIndex => ~ (Cardinality(DOMAIN index) >= MaxIndex)
    <2>1. MaxIndex \in Nat
      BY TopologyAssumption
    <2>2. Cardinality(DOMAIN index) \in Nat
      BY <1>1, FS_CardinalityType
    <2>. QED  BY <2>1, <2>2
  <1>. HIDE DEF old, V, entry, live
  <1>8. new \in [{span.id} -> V] /\ new[span.id] = entry
    BY <1>5
  <1>. HIDE DEF new
  <1>9. /\ Registered(index, span, at) \in [E \cup {span.id} -> V]
        /\ \A x \in E \cup {span.id} :
              Registered(index, span, at)[x] = IF x = span.id THEN entry ELSE old[x]
    <2>1. /\ Updated(old, new) \in [E \cup {span.id} -> V]
          /\ \A x \in E \cup {span.id} : Updated(old, new)[x] = IF x \in {span.id} THEN new[x] ELSE old[x]
      BY <1>4, <1>8 DEF Updated
    <2>. QED  BY <1>6, <1>8, <2>1
  <1>10. old \in Indexes /\ Registered(index, span, at) \in Indexes
    <2>1. IsFiniteSet(E \cup {span.id}) /\ E \cup {span.id} \in SUBSET Ids
      BY <1>4, <1>5, FS_AddElement
    <2>. QED  BY <1>4, <1>9, <2>1 DEF Indexes, V
  <1>11. E = DOMAIN old /\ D = DOMAIN index /\ DOMAIN Registered(index, span, at) = E \cup {span.id}
    BY <1>1, <1>4, <1>9
  <1>12. /\ DOMAIN old \subseteq DOMAIN index
         /\ \A i \in DOMAIN old : old[i] = index[i]
         /\ \A i \in DOMAIN index : index[i].expires > at => i \in DOMAIN old
         /\ Cardinality(DOMAIN index) >= MaxIndex => \A i \in DOMAIN old : index[i].expires > at
    BY <1>1, <1>2, <1>3
  <1>13. Cardinality(DOMAIN index) < MaxIndex => old = index
    BY <1>2, <1>7
  <1>. QED  BY <1>9, <1>10, <1>11, <1>12, <1>13 DEF old, entry

\* more is the edges with one more call over key.
CallAdded(more, edges, key, at) ==
    /\ more \in Edges
    /\ DOMAIN more = DOMAIN edges \cup {key}
    /\ \A k \in DOMAIN edges : k # key => more[k] = edges[k]
    /\ more[key].seen = at
    /\ key \notin DOMAIN edges => more[key].calls = 1 /\ more[key].errors <= 1
    /\ key \in DOMAIN edges =>
          /\ more[key].calls = edges[key].calls + 1
          /\ more[key].errors <= edges[key].errors + 1

\* An edge with one more call, and the others as they were.
LEMMA CalledProperties ==
    ASSUME NEW edges \in Edges, NEW key \in Service \X Service, NEW item \in Items, NEW at \in Nat
    PROVE  CallAdded(Called(edges, key, item.error, at), edges, key, at)
  <1>. DEFINE more == Called(edges, key, item.error, at)
  <1>. DEFINE V == [calls : Nat, errors : Nat, seen : Nat]
              old == IF key \in DOMAIN edges THEN edges[key] ELSE [calls |-> 0, errors |-> 0]
              edge == [calls |-> old.calls + 1, errors |-> old.errors + IF item.error THEN 1 ELSE 0, seen |-> at]
  <1>1. PICK D \in SUBSET (Service \X Service) : edges \in [D -> V]
    BY DEF Edges
  <1>2. old.calls \in Nat /\ old.errors \in Nat
    <2>1. key \in DOMAIN edges => edges[key] \in V
      BY <1>1
    <2>. QED  BY <2>1
  <1>3. edge \in V /\ edge.seen = at /\ edge.calls = old.calls + 1 /\ edge.errors <= old.errors + 1
    BY <1>2
  <1>. DEFINE new == [k \in {key} |-> edge]
  <1>4. more = Updated(edges, new)
    BY DEF Called
  <1>5. /\ key \notin DOMAIN edges => old.calls = 0 /\ old.errors = 0
        /\ key \in DOMAIN edges => old.calls = edges[key].calls /\ old.errors = edges[key].errors
    OBVIOUS
  <1>. HIDE DEF old, V, edge, more
  <1>6. new \in [{key} -> V] /\ new[key] = edge
    BY <1>3
  <1>. HIDE DEF new
  <1>7. /\ more \in [D \cup {key} -> V]
        /\ \A x \in D \cup {key} : more[x] = IF x = key THEN edge ELSE edges[x]
    <2>1. /\ Updated(edges, new) \in [D \cup {key} -> V]
          /\ \A x \in D \cup {key} : Updated(edges, new)[x] = IF x \in {key} THEN new[x] ELSE edges[x]
      BY <1>1, <1>6 DEF Updated
    <2>. QED  BY <1>4, <1>6, <2>1
  <1>8. D = DOMAIN edges /\ DOMAIN more = D \cup {key}
    BY <1>1, <1>7
  <1>9. more \in Edges
    <2>1. D \cup {key} \in SUBSET (Service \X Service)
      OBVIOUS
    <2>. QED  BY <1>7, <2>1 DEF Edges, V
  <1>10. more[key] = edge
    BY <1>7
  <1>. QED  BY <1>2, <1>3, <1>5, <1>7, <1>8, <1>9, <1>10 DEF CallAdded, more

\* record keeps the shape of the tracker.
LEMMA RecordTypes ==
    ASSUME NEW t \in [index : Indexes, edges : Edges], NEW span \in Items, NEW at \in Nat
    PROVE  Record(t, span, at) \in [index : Indexes, edges : Edges]
  <1>. DEFINE index == Registered(t.index, span, at)
  <1>1. index \in Indexes
    BY RegisteredProperties
  <1>2. span.parent \in DOMAIN index => index[span.parent].service \in Service
    <2>. HIDE DEF index
    <2>. QED  BY <1>1 DEF Indexes
  <1>3. ASSUME span.parent \in DOMAIN index
        PROVE  Called(t.edges, <<index[span.parent].service, span.service>>, span.error, at) \in Edges
    <2>. HIDE DEF index
    <2>1. <<index[span.parent].service, span.service>> \in Service \X Service
      BY <1>2, <1>3, ItemTypes
    <2>2. t.edges \in Edges
      OBVIOUS
    <2>. QED  BY <2>1, <2>2, CalledProperties DEF CallAdded
  <1>. QED  BY <1>1, <1>3 DEF Record

Topics == {"spans", "deploys", "metrics", "logs"}

\* What one item changes of the stores, by its topic.
LEMMA HandledTypes ==
    ASSUME NEW m \in Stores, NEW topic \in Topics, NEW item \in Items, NEW at \in Nat
    PROVE  Handled(m, topic, item, at) \in Stores
  <1>. USE ItemTypes, RingAssumption
  <1>1. ASSUME topic = "spans"
        PROVE  HandleSpan(m, item, at) \in Stores
    <2>1. Record(m.topology, item, at) \in [index : Indexes, edges : Edges]
      BY RecordTypes DEF Stores
    <2>2. UpdateFromSpan(m.registry, item) \in [Service -> Metadata]
      <3>1. PICK D \in SUBSET Attributes : m.registry[item.service] \in [D -> Values]
        <4>1. m.registry[item.service] \in Metadata
          BY DEF Stores
        <4>. QED  BY <4>1 DEF Metadata
      <3>2. PICK E \in SUBSET Attributes : item.attrs \in [E -> Values]
        BY DEF Metadata
      <3>3. Updated(m.registry[item.service], item.attrs) \in [D \cup E -> Values]
        BY <3>1, <3>2 DEF Updated
      <3>4. Updated(m.registry[item.service], item.attrs) \in Metadata
        BY <3>3 DEF Metadata
      <3>5. m.registry \in [Service -> Metadata]
        BY DEF Stores
      <3>. QED  BY <3>4, <3>5 DEF UpdateFromSpan
    <2>3. [m.counted EXCEPT ![item.id] = @ + 1] \in [Ids -> Nat]
      BY DEF Stores
    <2>4. HandleSpan(m, item, at) = [m EXCEPT !.counted = [m.counted EXCEPT ![item.id] = @ + 1],
                                             !.topology = Record(m.topology, item, at),
                                             !.registry = UpdateFromSpan(m.registry, item)]
      BY DEF HandleSpan, Stores
    <2>. QED  BY <2>1, <2>2, <2>3, <2>4 DEF Stores
  <1>2. ASSUME topic = "deploys"
        PROVE  HandleDeployment(m, item, at) \in Stores
    <2>. DEFINE d == [id |-> item.id, service |-> item.service, time |-> IF item.time = 0 THEN at ELSE item.time]
    <2>1. d \in Rows
      BY DEF Rows
    <2>2. m.all \in Seq(Rows) /\ m.by \in [Service -> Seq(Rows)]
      BY DEF Stores
    <2>. HIDE DEF d
    <2>3. Pushed(m.all, d, MaxAll) \in Seq(Rows) /\ Pushed(m.by[item.service], d, PerService) \in Seq(Rows)
      BY <2>1, <2>2, PushedProperties
    <2>4. HandleDeployment(m, item, at) =
            [m EXCEPT !.all = Pushed(m.all, d, MaxAll),
                      !.by = [m.by EXCEPT ![item.service] = Pushed(m.by[item.service], d, PerService)]]
      BY DEF HandleDeployment, d, Stores
    <2>. DEFINE all == Pushed(m.all, d, MaxAll)
                by == [m.by EXCEPT ![item.service] = Pushed(m.by[item.service], d, PerService)]
    <2>5. all \in Seq(Rows) /\ by \in [Service -> Seq(Rows)]
      BY <2>2, <2>3
    <2>6. HandleDeployment(m, item, at) = [m EXCEPT !.all = all, !.by = by]
      BY <2>4
    <2>. HIDE DEF all, by
    <2>. QED  BY <2>5, <2>6 DEF Stores
  <1>3. ASSUME topic = "metrics"
        PROVE  HandleMetric(m, item) \in Stores
    <2>. DEFINE d == [id |-> item.id, time |-> item.time]
    <2>1. d \in Points /\ m.metrics \in [Service -> Seq(Points)]
      BY DEF Points, Stores
    <2>. HIDE DEF d
    <2>2. Pushed(m.metrics[item.service], d, MaxPoints) \in Seq(Points)
      BY <2>1, PushedProperties
    <2>3. HandleMetric(m, item) =
            [m EXCEPT !.metrics = [m.metrics EXCEPT ![item.service] = Pushed(m.metrics[item.service], d, MaxPoints)]]
      BY DEF HandleMetric, d, Stores
    <2>. DEFINE metrics == [m.metrics EXCEPT ![item.service] = Pushed(m.metrics[item.service], d, MaxPoints)]
    <2>4. metrics \in [Service -> Seq(Points)]
      BY <2>1, <2>2
    <2>5. HandleMetric(m, item) = [m EXCEPT !.metrics = metrics]
      BY <2>3
    <2>. HIDE DEF metrics
    <2>. QED  BY <2>4, <2>5 DEF Stores
  <1>4. ASSUME topic = "logs"
        PROVE  HandleLog(m, item) \in Stores
    <2>. DEFINE d == [id |-> item.id, service |-> item.service, time |-> item.time]
    <2>1. d \in Rows /\ m.logs \in Seq(Rows)
      BY DEF Rows, Stores
    <2>. HIDE DEF d
    <2>2. Pushed(m.logs, d, MaxMemory) \in Seq(Rows)
      BY <2>1, PushedProperties
    <2>3. HandleLog(m, item) = [m EXCEPT !.logs = Pushed(m.logs, d, MaxMemory)]
      BY DEF HandleLog, d, Stores
    <2>. QED  BY <2>2, <2>3 DEF Stores
  <1>. QED  BY <1>1, <1>2, <1>3, <1>4 DEF Handled, Topics

Events == [o : Nat, topic : Topics, item : Items, at : Nat]

\* The history with one more item.
TracedOne(t, o, topic, item, at) ==
    IF Raises(topic, item) THEN t ELSE Append(t, [o |-> o, topic |-> topic, item |-> item, at |-> at])

\* f is the stores before and after each of the items.
StoresSteps(f, topic, items, at) ==
    \A k \in 1 .. Len(items) : f[k] = Handled(f[k - 1], topic, items[k], at)

\* g is the history before and after each of the items.
TraceSteps(g, o, topic, items, at) ==
    \A k \in 1 .. Len(items) : g[k] = TracedOne(g[k - 1], o, topic, items[k], at)

\* The stores after the items of a message are reached one item at a time.
LEMMA StoredInSteps ==
    ASSUME NEW m0 \in Stores, NEW topic \in Topics, NEW items \in Seq(Items), NEW at \in Nat
    PROVE  \E f \in [0 .. Len(items) -> Stores] :
              /\ f[0] = m0 /\ f[Len(items)] = Stored(m0, topic, items, at)
              /\ StoresSteps(f, topic, items, at)
  <1>. DEFINE n == Len(items)
              Add(k, m) == Handled(m, topic, items[k], at)
              step == [x \in (1 .. n) \X Stores |-> Add(x[1], x[2])]
              Rec(it) == [r \in SUBSET (1 .. n) |->
                      IF r = {} THEN m0 ELSE Add(Max(r), it[r \ {Max(r)}])]
              I == CHOOSE it : it = [r \in SUBSET (1 .. n) |->
                      IF r = {} THEN m0 ELSE Add(Max(r), it[r \ {Max(r)}])]
  <1>1. /\ n \in Nat /\ DOMAIN items = 1 .. n
        /\ \A k \in 1 .. n : items[k] \in Items
    BY LenProperties, ElementOfSeq
  <1>2. Stored(m0, topic, items, at) = I[1 .. n]
    <2>1. DOMAIN items = 1 .. n
      BY <1>1
    <2>. HIDE DEF n
    <2>. QED  BY <2>1 DEF Stored, FoldLeft, MapThenFoldSet
  <1>3. \A k \in 1 .. n, m \in Stores : Add(k, m) \in Stores
    BY <1>1, HandledTypes
  <1>4. \A k \in 1 .. n, m \in Stores : step[<<k, m>>] = Add(k, m)
    OBVIOUS
  <1>5. step \in [(1 .. n) \X Stores -> Stores]
    <2>. HIDE DEF Add, n
    <2>. QED  BY <1>3
  <1>. HIDE DEF n, Add, step
  <1>6. I = Rec(I)
    <2>1. PICK it \in [SUBSET (1 .. n) -> Stores] : FoldsLeft(it, n, m0, step)
      BY <1>1, <1>5, LeftFoldExists
    <2>2. ASSUME NEW r \in SUBSET (1 .. n)
          PROVE  it[r] = Rec(it)[r]
      <3>1. r # {} => Max(r) \in 1 .. n
        BY <1>1, MaxInside
      <3>2. it[r] = IF r = {} THEN m0 ELSE step[<<Max(r), it[r \ {Max(r)}]>>]
        BY <2>1 DEF FoldsLeft
      <3>. QED  BY <1>4, <3>1, <3>2
    <2>3. it = Rec(it)
      <3>1. Rec(it) = [r \in SUBSET (1 .. n) |-> Rec(it)[r]]
        OBVIOUS
      <3>2. it = [r \in SUBSET (1 .. n) |-> it[r]]
        OBVIOUS
      <3>. HIDE DEF Rec
      <3>. QED  BY <2>2, <3>1, <3>2
    <2>. QED  BY <2>3 DEF I
  <1>. HIDE DEF I
  <1>7. \A r \in SUBSET (1 .. n) : I[r] = IF r = {} THEN m0 ELSE Add(Max(r), I[r \ {Max(r)}])
    BY <1>6
  <1>. HIDE DEF Rec
  <1>8. FoldsWithin(I, n, Stores, m0, step)
    <2>1. I[{}] = m0
      <3>1. {} \in SUBSET (1 .. n)
        OBVIOUS
      <3>. QED  BY <1>7, <3>1
    <2>2. ASSUME NEW r \in SUBSET (1 .. n), r # {}, I[r \ {Max(r)}] \in Stores
          PROVE  I[r] = step[<<Max(r), I[r \ {Max(r)}]>>]
      <3>1. Max(r) \in 1 .. n
        BY <1>1, <2>2, MaxInside
      <3>. QED  BY <1>4, <1>7, <2>2, <3>1
    <2>. QED  BY <2>1, <2>2 DEF FoldsWithin
  <1>9. PICK f : Passes(f, n, Stores, m0, step, I[1 .. n])
    BY <1>1, <1>5, <1>8, FoldPrefixes
  <1>10. ASSUME NEW k \in 1 .. n
         PROVE  f[k] = Handled(f[k - 1], topic, items[k], at)
    <2>1. k - 1 \in 0 .. n
      BY <1>1
    <2>. QED  BY <1>4, <1>9, <2>1 DEF Add, Passes
  <1>11. StoresSteps(f, topic, items, at)
    BY <1>10 DEF StoresSteps, n
  <1>. QED  BY <1>2, <1>9, <1>11 DEF n, Passes

\* Likewise of the history.
LEMMA TracedInSteps ==
    ASSUME NEW t0 \in Seq(Events), NEW o \in Nat, NEW topic \in Topics, NEW items \in Seq(Items), NEW at \in Nat
    PROVE  \E f \in [0 .. Len(items) -> Seq(Events)] :
              /\ f[0] = t0 /\ f[Len(items)] = Traced(t0, o, topic, items, at)
              /\ TraceSteps(f, o, topic, items, at)
  <1>. DEFINE n == Len(items)
              Add(k, m) == TracedOne(m, o, topic, items[k], at)
              step == [x \in (1 .. n) \X Seq(Events) |-> Add(x[1], x[2])]
              Rec(it) == [r \in SUBSET (1 .. n) |->
                      IF r = {} THEN t0 ELSE Add(Max(r), it[r \ {Max(r)}])]
              I == CHOOSE it : it = [r \in SUBSET (1 .. n) |->
                      IF r = {} THEN t0 ELSE Add(Max(r), it[r \ {Max(r)}])]
  <1>1. /\ n \in Nat /\ DOMAIN items = 1 .. n
        /\ \A k \in 1 .. n : items[k] \in Items
    BY LenProperties, ElementOfSeq
  <1>2. Traced(t0, o, topic, items, at) = I[1 .. n]
    <2>1. DOMAIN items = 1 .. n
      BY <1>1
    <2>. HIDE DEF n
    <2>. QED  BY <2>1 DEF Traced, TracedOne, FoldLeft, MapThenFoldSet
  <1>3. \A k \in 1 .. n, m \in Seq(Events) : Add(k, m) \in Seq(Events)
    <2>. SUFFICES ASSUME NEW k \in 1 .. n, NEW m \in Seq(Events)
                  PROVE  Add(k, m) \in Seq(Events)
      OBVIOUS
    <2>. DEFINE e == [o |-> o, topic |-> topic, item |-> items[k], at |-> at]
    <2>1. e \in Events
      BY <1>1 DEF Events
    <2>. HIDE DEF e
    <2>2. Append(m, e) \in Seq(Events)
      BY <2>1
    <2>. QED  BY <2>2 DEF TracedOne, e
  <1>4. \A k \in 1 .. n, m \in Seq(Events) : step[<<k, m>>] = Add(k, m)
    OBVIOUS
  <1>5. step \in [(1 .. n) \X Seq(Events) -> Seq(Events)]
    <2>. HIDE DEF Add, n
    <2>. QED  BY <1>3
  <1>. HIDE DEF n, Add, step
  <1>6. I = Rec(I)
    <2>1. PICK it \in [SUBSET (1 .. n) -> Seq(Events)] : FoldsLeft(it, n, t0, step)
      BY <1>1, <1>5, LeftFoldExists
    <2>2. ASSUME NEW r \in SUBSET (1 .. n)
          PROVE  it[r] = Rec(it)[r]
      <3>1. r # {} => Max(r) \in 1 .. n
        BY <1>1, MaxInside
      <3>2. it[r] = IF r = {} THEN t0 ELSE step[<<Max(r), it[r \ {Max(r)}]>>]
        BY <2>1 DEF FoldsLeft
      <3>. QED  BY <1>4, <3>1, <3>2
    <2>3. it = Rec(it)
      <3>1. Rec(it) = [r \in SUBSET (1 .. n) |-> Rec(it)[r]]
        OBVIOUS
      <3>2. it = [r \in SUBSET (1 .. n) |-> it[r]]
        OBVIOUS
      <3>. HIDE DEF Rec
      <3>. QED  BY <2>2, <3>1, <3>2
    <2>. QED  BY <2>3 DEF I
  <1>. HIDE DEF I
  <1>7. \A r \in SUBSET (1 .. n) : I[r] = IF r = {} THEN t0 ELSE Add(Max(r), I[r \ {Max(r)}])
    BY <1>6
  <1>. HIDE DEF Rec
  <1>8. FoldsWithin(I, n, Seq(Events), t0, step)
    <2>1. I[{}] = t0
      <3>1. {} \in SUBSET (1 .. n)
        OBVIOUS
      <3>. QED  BY <1>7, <3>1
    <2>2. ASSUME NEW r \in SUBSET (1 .. n), r # {}, I[r \ {Max(r)}] \in Seq(Events)
          PROVE  I[r] = step[<<Max(r), I[r \ {Max(r)}]>>]
      <3>1. Max(r) \in 1 .. n
        BY <1>1, <2>2, MaxInside
      <3>. QED  BY <1>4, <1>7, <2>2, <3>1
    <2>. QED  BY <2>1, <2>2 DEF FoldsWithin
  <1>9. PICK f : Passes(f, n, Seq(Events), t0, step, I[1 .. n])
    BY <1>1, <1>5, <1>8, FoldPrefixes
  <1>10. ASSUME NEW k \in 1 .. n
         PROVE  f[k] = TracedOne(f[k - 1], o, topic, items[k], at)
    <2>1. k - 1 \in 0 .. n
      BY <1>1
    <2>. QED  BY <1>4, <1>9, <2>1 DEF Add, Passes
  <1>11. TraceSteps(f, o, topic, items, at)
    BY <1>10 DEF TraceSteps, n
  <1>. QED  BY <1>2, <1>9, <1>11 DEF n, Passes

\* The events of a history with a topic and a service.
EventsIn(t, topic, s) == {n \in DOMAIN t : t[n].topic = topic /\ t[n].item.service = s}

\* The row a deployment leaves, and the point a metric does.
RowOf(item, at) ==
    [id |-> item.id, service |-> item.service, time |-> IF item.time = 0 THEN at ELSE item.time]
PointOf(item) == [id |-> item.id, time |-> item.time]
LogOf(item) == [id |-> item.id, service |-> item.service, time |-> item.time]

\* The stores an item of each topic changes, and the ones it leaves alone.
LEMMA HandledFields ==
    ASSUME NEW m \in Stores, NEW topic \in Topics, NEW item \in Items, NEW at \in Nat,
           ~ Raises(topic, item), NEW new, new = Handled(m, topic, item, at)
    PROVE  /\ topic = "spans" =>
                 /\ \A i \in Ids : new.counted[i] = IF i = item.id THEN m.counted[i] + 1 ELSE m.counted[i]
                 /\ new.topology = Record(m.topology, item, at)
                 /\ \A s \in Service : new.registry[s] =
                       IF s = item.service THEN Updated(m.registry[s], item.attrs) ELSE m.registry[s]
           /\ topic # "spans" =>
                 /\ new.counted = m.counted
                 /\ new.topology = m.topology
                 /\ new.registry = m.registry
           /\ topic = "deploys" =>
                 /\ new.all = Pushed(m.all, RowOf(item, at), MaxAll)
                 /\ \A s \in Service : new.by[s] =
                       IF s = item.service THEN Pushed(m.by[s], RowOf(item, at), PerService) ELSE m.by[s]
           /\ topic # "deploys" => new.all = m.all /\ new.by = m.by
           /\ topic = "metrics" =>
                 \A s \in Service : new.metrics[s] =
                     IF s = item.service THEN Pushed(m.metrics[s], PointOf(item), MaxPoints) ELSE m.metrics[s]
           /\ topic # "metrics" => new.metrics = m.metrics
           /\ topic = "logs" => new.logs = Pushed(m.logs, LogOf(item), MaxMemory)
           /\ topic # "logs" => new.logs = m.logs
  <1>. USE ItemTypes
  <1>1. CASE topic = "spans"
    <2>1. new = HandleSpan(m, item, at)
      BY <1>1 DEF Handled
    <2>2. m.counted \in [Ids -> Nat] /\ m.registry \in [Service -> Metadata]
      BY DEF Stores
    <2>3. /\ new.counted = [m.counted EXCEPT ![item.id] = m.counted[item.id] + 1]
          /\ new.topology = Record(m.topology, item, at)
          /\ new.registry = [m.registry EXCEPT ![item.service] = Updated(m.registry[item.service], item.attrs)]
          /\ new.all = m.all /\ new.by = m.by /\ new.metrics = m.metrics /\ new.logs = m.logs
      BY <2>1 DEF HandleSpan, UpdateFromSpan, Stores
    <2>. QED  BY <1>1, <2>2, <2>3
  <1>2. CASE topic = "deploys"
    <2>1. new = HandleDeployment(m, item, at)
      BY <1>2 DEF Handled
    <2>2. m.by \in [Service -> Seq(Rows)]
      BY DEF Stores
    <2>3. /\ new.all = Pushed(m.all, RowOf(item, at), MaxAll)
          /\ new.by = [m.by EXCEPT ![item.service] = Pushed(m.by[item.service], RowOf(item, at), PerService)]
          /\ new.counted = m.counted /\ new.topology = m.topology /\ new.registry = m.registry
          /\ new.metrics = m.metrics /\ new.logs = m.logs
      BY <2>1 DEF HandleDeployment, RowOf, Stores
    <2>. QED  BY <1>2, <2>2, <2>3
  <1>3. CASE topic = "metrics"
    <2>1. new = HandleMetric(m, item)
      BY <1>3 DEF Handled
    <2>. QED  BY <1>3, <2>1 DEF HandleMetric, PointOf, Stores
  <1>4. CASE topic = "logs"
    <2>1. new = HandleLog(m, item)
      BY <1>4 DEF Handled
    <2>. QED  BY <1>4, <2>1 DEF HandleLog, LogOf, Stores
  <1>. QED  BY <1>1, <1>2, <1>3, <1>4 DEF Topics

\* The history with one more event.
LEMMA AppendedEvents ==
    ASSUME NEW t \in Seq(Events), NEW o \in Nat, NEW topic \in Topics, NEW item \in Items, NEW at \in Nat,
           ~ Raises(topic, item), NEW new, new = TracedOne(t, o, topic, item, at)
    PROVE  /\ new \in Seq(Events) /\ Len(t) \in Nat
           /\ DOMAIN t = 1 .. Len(t) /\ DOMAIN new = 1 .. Len(t) + 1
           /\ \A n \in DOMAIN t : new[n] = t[n]
           /\ new[Len(t) + 1] = [o |-> o, topic |-> topic, item |-> item, at |-> at]
           /\ \A tp, s : EventsIn(new, tp, s) =
                 EventsIn(t, tp, s) \cup (IF tp = topic /\ s = item.service THEN {Len(t) + 1} ELSE {})
  <1>. DEFINE e == [o |-> o, topic |-> topic, item |-> item, at |-> at]
  <1>1. e \in Events /\ e.topic = topic /\ e.item = item
    BY DEF Events
  <1>2. new = Append(t, e)
    BY DEF TracedOne
  <1>. HIDE DEF e
  <1>3. /\ new \in Seq(Events) /\ Len(t) \in Nat /\ Len(new) = Len(t) + 1
        /\ DOMAIN t = 1 .. Len(t) /\ DOMAIN new = 1 .. Len(t) + 1
        /\ \A n \in DOMAIN t : new[n] = t[n]
        /\ new[Len(t) + 1] = e
    BY <1>1, <1>2, AppendProperties, LenProperties
  <1>4. ASSUME NEW tp, NEW s
        PROVE  EventsIn(new, tp, s) =
                 EventsIn(t, tp, s) \cup (IF tp = topic /\ s = item.service THEN {Len(t) + 1} ELSE {})
    <2>1. \A n : n \in DOMAIN new <=> n \in DOMAIN t \/ n = Len(t) + 1
      BY <1>3
    <2>2. Len(t) + 1 \notin DOMAIN t
      BY <1>3
    <2>. QED  BY <1>1, <1>3, <2>1, <2>2 DEF EventsIn
  <1>. QED  BY <1>3, <1>4 DEF e

-----------------------------------------------------------------------------
(* What the stores keep of the history, item by item.                      *)

\* A service has the attributes of its spans, each with its latest value.
RegistryOf(m, t) ==
    \A s \in Service :
        /\ \A n \in EventsIn(t, "spans", s) : DOMAIN t[n].item.attrs \subseteq DOMAIN m.registry[s]
        /\ \A a \in DOMAIN m.registry[s] :
              \E n \in EventsIn(t, "spans", s) :
                  /\ a \in DOMAIN t[n].item.attrs /\ m.registry[s][a] = t[n].item.attrs[a]
                  /\ \A k \in EventsIn(t, "spans", s) : k > n => a \notin DOMAIN t[k].item.attrs

\* One item leaves the registry as the history tells it: each attribute is that
\* of the last span that had it (service_registry.py:84).
LEMMA RegistryKept ==
    ASSUME NEW m \in Stores, NEW t \in Seq(Events), NEW o \in Nat, NEW topic \in Topics, NEW item \in Items,
           NEW at \in Nat, RegistryOf(m, t)
    PROVE  RegistryOf(Handled(m, topic, item, at), TracedOne(t, o, topic, item, at))
  <1>. DEFINE m2 == Handled(m, topic, item, at)
              t2 == TracedOne(t, o, topic, item, at)
  <1>1. CASE Raises(topic, item)
    BY <1>1 DEF Handled, TracedOne
  <1>2. CASE ~ Raises(topic, item)
    <2>1. /\ topic = "spans" =>
                \A s \in Service : m2.registry[s] =
                    IF s = item.service THEN Updated(m.registry[s], item.attrs) ELSE m.registry[s]
          /\ topic # "spans" => m2.registry = m.registry
      <3>1. m2 = Handled(m, topic, item, at)
        OBVIOUS
      <3>. HIDE DEF m2
      <3>. QED  BY <1>2, <3>1, HandledFields
    <2>2. /\ Len(t) \in Nat /\ DOMAIN t = 1 .. Len(t)
          /\ \A n \in DOMAIN t : t2[n] = t[n]
          /\ t2[Len(t) + 1] = [o |-> o, topic |-> topic, item |-> item, at |-> at]
          /\ \A s : EventsIn(t2, "spans", s) =
                 EventsIn(t, "spans", s) \cup (IF "spans" = topic /\ s = item.service THEN {Len(t) + 1} ELSE {})
      BY <1>2, AppendedEvents
    <2>. HIDE DEF m2, t2
    <2>3. \A s : EventsIn(t, "spans", s) \subseteq 1 .. Len(t)
      BY <2>2 DEF EventsIn
    <2>. SUFFICES ASSUME NEW s \in Service
                  PROVE  /\ \A n \in EventsIn(t2, "spans", s) :
                               DOMAIN t2[n].item.attrs \subseteq DOMAIN m2.registry[s]
                         /\ \A a \in DOMAIN m2.registry[s] :
                               \E n \in EventsIn(t2, "spans", s) :
                                   /\ a \in DOMAIN t2[n].item.attrs
                                   /\ m2.registry[s][a] = t2[n].item.attrs[a]
                                   /\ \A k \in EventsIn(t2, "spans", s) : k > n => a \notin DOMAIN t2[k].item.attrs
      BY DEF RegistryOf, m2, t2
    <2>. DEFINE E == EventsIn(t, "spans", s)
                r == m.registry[s]
    <2>4. /\ \A n \in E : DOMAIN t[n].item.attrs \subseteq DOMAIN r
          /\ \A a \in DOMAIN r :
                \E n \in E : /\ a \in DOMAIN t[n].item.attrs /\ r[a] = t[n].item.attrs[a]
                             /\ \A k \in E : k > n => a \notin DOMAIN t[k].item.attrs
      BY DEF RegistryOf
    <2>5. \A n \in E : t2[n] = t[n] /\ n \in 1 .. Len(t)
      BY <2>2, <2>3
    <2>6. CASE topic = "spans" /\ s = item.service
      <3>. DEFINE l == Len(t) + 1
      <3>1. EventsIn(t2, "spans", s) = E \cup {l} /\ t2[l].item = item
        BY <2>2, <2>6
      <3>2. m2.registry[s] = Updated(r, item.attrs)
        BY <2>1, <2>6
      <3>3. /\ DOMAIN m2.registry[s] = DOMAIN r \cup DOMAIN item.attrs
            /\ \A a \in DOMAIN r \cup DOMAIN item.attrs :
                  m2.registry[s][a] = IF a \in DOMAIN item.attrs THEN item.attrs[a] ELSE r[a]
        BY <3>2 DEF Updated
      <3>4. \A n \in E : n < l /\ ~ (n > l) /\ l \in Nat
        BY <2>2, <2>5
      <3>. HIDE DEF E, r, l
      <3>5. \A n \in E \cup {l} : DOMAIN t2[n].item.attrs \subseteq DOMAIN m2.registry[s]
        BY <2>4, <2>5, <3>1, <3>3
      <3>6. ASSUME NEW a \in DOMAIN m2.registry[s]
            PROVE  \E n \in E \cup {l} :
                       /\ a \in DOMAIN t2[n].item.attrs
                       /\ m2.registry[s][a] = t2[n].item.attrs[a]
                       /\ \A k \in E \cup {l} : k > n => a \notin DOMAIN t2[k].item.attrs
        <4>1. CASE a \in DOMAIN item.attrs
          <5>1. \A k \in E \cup {l} : ~ (k > l)
            BY <2>2, <3>4 DEF l
          <5>. QED  BY <3>1, <3>3, <4>1, <5>1
        <4>2. CASE a \notin DOMAIN item.attrs
          <5>1. PICK n \in E : /\ a \in DOMAIN t[n].item.attrs /\ r[a] = t[n].item.attrs[a]
                               /\ \A k \in E : k > n => a \notin DOMAIN t[k].item.attrs
            BY <2>4, <3>3, <4>2
          <5>. QED  BY <2>5, <3>1, <3>3, <4>2, <5>1
        <4>. QED  BY <4>1, <4>2
      <3>. QED  BY <3>1, <3>5, <3>6
    <2>7. CASE ~ (topic = "spans" /\ s = item.service)
      <3>1. EventsIn(t2, "spans", s) = E
        BY <2>2, <2>7
      <3>2. m2.registry[s] = r
        BY <2>1, <2>7
      <3>. HIDE DEF E, r
      <3>. QED  BY <2>4, <2>5, <3>1, <3>2
    <2>. QED  BY <2>6, <2>7
  <1>. QED  BY <1>1, <1>2

\* A ring got x after it dropped its first d elements.
Moved(new, ring, x, d) ==
    /\ Len(new) = Len(ring) + 1 - d /\ Len(ring) - d \in Nat
    /\ \A j \in 1 .. Len(ring) - d : new[j] = ring[j + d]
    /\ new[Len(ring) + 1 - d] = x

\* Where the elements of a ring are after one more.
LEMMA PushedPositions ==
    ASSUME NEW S, NEW ring \in Seq(S), NEW x \in S, NEW n \in Nat \ {0}
    PROVE  \E d \in {0, 1} : Moved(Pushed(ring, x, n), ring, x, d) /\ (d = 1 => ~ (Len(ring) < n))
  <1>. DEFINE new == Pushed(ring, x, n)
  <1>1. CASE Len(ring) < n
    <2>1. new = Append(ring, x)
      BY <1>1 DEF Pushed
    <2>. HIDE DEF new
    <2>2. /\ Len(new) = Len(ring) + 1 /\ Len(ring) \in Nat
          /\ \A i \in 1 .. Len(ring) : new[i] = ring[i]
          /\ new[Len(ring) + 1] = x
      BY <2>1, AppendProperties, LenProperties
    <2>3. Moved(new, ring, x, 0)
      <3>1. Len(ring) + 1 - 0 = Len(ring) + 1 /\ Len(ring) - 0 = Len(ring)
        BY <2>2
      <3>2. \A j \in 1 .. Len(ring) : j + 0 = j
        BY <2>2
      <3>. QED  BY <2>2, <3>1, <3>2 DEF Moved
    <2>. QED  BY <2>2, <2>3 DEF new
  <1>2. CASE ~ (Len(ring) < n)
    <2>1. new = Append(Tail(ring), x) /\ ring # << >>
      BY <1>2 DEF Pushed
    <2>. HIDE DEF new
    <2>2. /\ Tail(ring) \in Seq(S) /\ Len(Tail(ring)) = Len(ring) - 1
          /\ \A i \in 1 .. Len(Tail(ring)) : Tail(ring)[i] = ring[i + 1]
      BY <2>1, HeadTailProperties
    <2>3. /\ Len(new) = Len(Tail(ring)) + 1 /\ Len(Tail(ring)) \in Nat /\ Len(ring) \in Nat
          /\ \A i \in 1 .. Len(Tail(ring)) : new[i] = Tail(ring)[i]
          /\ new[Len(Tail(ring)) + 1] = x
      BY <2>1, <2>2, AppendProperties, LenProperties
    <2>4. Moved(new, ring, x, 1)
      BY <2>2, <2>3 DEF Moved
    <2>. QED  BY <1>2, <2>4 DEF new
  <1>. QED  BY <1>1, <1>2

\* What the rings hold of an item.
LEMMA RowTypes ==
    ASSUME NEW item \in Items, NEW at \in Nat
    PROVE  /\ RowOf(item, at) \in Rows /\ RowOf(item, at).id = item.id /\ RowOf(item, at).service = item.service
           /\ PointOf(item) \in Points /\ PointOf(item).id = item.id
           /\ LogOf(item) \in Rows /\ LogOf(item).id = item.id
  BY ItemTypes DEF RowOf, PointOf, LogOf, Rows, Points

\* The last element of a ring is what the last of some events of t left.
LastIs(ring, t, events) ==
    \A n \in events : (\A k \in events : k <= n) => ring # << >> /\ Last(ring).id = t[n].item.id

\* Of the deployments of a service, the last in the ring of all services.
LastOfAll(all, s, j) ==
    /\ j \in 1 .. Len(all) /\ all[j].service = s
    /\ \A i \in 1 .. Len(all) : i > j => all[i].service # s

\* The latest deployment of a service is the last of its own ring, and of those
\* of the service in the ring of all services if there is any.
DeploysOf(m, t) ==
    \A s \in Service :
        /\ LastIs(m.by[s], t, EventsIn(t, "deploys", s))
        /\ \A n \in EventsIn(t, "deploys", s) :
              (\A k \in EventsIn(t, "deploys", s) : k <= n) =>
                  \A j : LastOfAll(m.all, s, j) => m.all[j].id = t[n].item.id

\* The last point of a metric is the latest.
MetricsOf(m, t) == \A s \in Service : LastIs(m.metrics[s], t, EventsIn(t, "metrics", s))

\* The events of logs, and those f that a ring of them holds: in their order, and
\* none older than one it does not hold.
LogsIn(t) == {n \in DOMAIN t : t[n].topic = "logs"}
HeldLogs(ring, t, f) ==
    /\ f \in [1 .. Len(ring) -> LogsIn(t)]
    /\ \A j \in 1 .. Len(ring) : t[f[j]].item.id = ring[j].id
    /\ \A j, k \in 1 .. Len(ring) : j < k => f[j] < f[k]
    /\ \A n \in LogsIn(t) :
          \/ \E j \in 1 .. Len(ring) : f[j] = n
          \/ Len(ring) = MaxMemory /\ \A j \in 1 .. Len(ring) : n < f[j]

\* The logs in memory are the last that were handled.
LogsOf(m, t) == \E f : HeldLogs(m.logs, t, f)

\* No ring passes its length.
RingsFit(m) ==
    /\ Len(m.all) <= MaxAll /\ Len(m.logs) <= MaxMemory
    /\ \A s \in Service : Len(m.by[s]) <= PerService /\ Len(m.metrics[s]) <= MaxPoints

\* A position of a ring after a push that is not the pushed one was in the
\* ring before (deployment_store.py:32-38).
LEMMA NotTheNewest ==
    ASSUME NEW n \in Nat, NEW d \in {0, 1}, NEW j \in 1 .. n + 1 - d, j # n + 1 - d
    PROVE  j \in 1 .. n - d /\ j + d \in 1 .. n
  OBVIOUS

\* Another log moves the ring of the logs on by one.
LEMMA LogsPushed ==
    ASSUME NEW ring \in Seq(Rows), NEW t \in Seq(Events), NEW row \in Rows, NEW t2, NEW f,
           DOMAIN t2 = 1 .. Len(t) + 1, \A n \in DOMAIN t : t2[n] = t[n],
           t2[Len(t) + 1].topic = "logs", t2[Len(t) + 1].item.id = row.id,
           Len(ring) <= MaxMemory, HeldLogs(ring, t, f)
    PROVE  \E g : HeldLogs(Pushed(ring, row, MaxMemory), t2, g)
  <1>1. PICK new : new = Pushed(ring, row, MaxMemory)
    OBVIOUS
  <1>2. MaxMemory \in Nat \ {0}
    BY RingAssumption
  <1>3. PICK d \in {0, 1} : Moved(new, ring, row, d) /\ (d = 1 => ~ (Len(ring) < MaxMemory))
    BY <1>1, <1>2, PushedPositions
  <1>4. PICK len \in Nat, l \in Nat : len = Len(ring) /\ l = Len(t) + 1 /\ DOMAIN t = 1 .. l - 1
    BY LenProperties
  <1>5. /\ Len(new) = len + 1 - d /\ len - d \in Nat /\ new[len + 1 - d] = row
        /\ \A j \in 1 .. len - d : new[j] = ring[j + d] /\ j + d \in 1 .. len
    BY <1>3, <1>4 DEF Moved
  <1>6. LogsIn(t2) = LogsIn(t) \cup {l} /\ \A n \in LogsIn(t) : n < l /\ t2[n] = t[n] /\ n \in Nat
    BY <1>4 DEF LogsIn
  <1>7. /\ \A j \in 1 .. len : f[j] \in LogsIn(t) /\ t[f[j]].item.id = ring[j].id
        /\ \A j, k \in 1 .. len : j < k => f[j] < f[k]
        /\ \A n \in LogsIn(t) : \/ \E j \in 1 .. len : f[j] = n
                                \/ len = MaxMemory /\ \A j \in 1 .. len : n < f[j]
    BY <1>4 DEF HeldLogs
  <1>. DEFINE g == [j \in 1 .. Len(new) |-> IF j = len + 1 - d THEN l ELSE f[j + d]]
  <1>8. \A j \in 1 .. Len(new) : j = len + 1 - d \/ j \in 1 .. len - d
    BY <1>5
  <1>9. len + 1 - d \in 1 .. Len(new) /\ \A j \in 1 .. len - d : j \in 1 .. Len(new) /\ j # len + 1 - d
    BY <1>5
  <1>10. g[len + 1 - d] = l /\ \A j \in 1 .. len - d : g[j] = f[j + d]
    BY <1>9
  <1>11. g \in [1 .. Len(new) -> LogsIn(t2)]
    BY <1>5, <1>6, <1>7, <1>8
  <1>. HIDE DEF g
  <1>12. \A j \in 1 .. Len(new) : t2[g[j]].item.id = new[j].id
    <2>1. \A j \in 1 .. len - d : t2[g[j]].item.id = new[j].id
      <3>. SUFFICES ASSUME NEW j \in 1 .. len - d PROVE t2[g[j]].item.id = new[j].id
        OBVIOUS
      <3>1. j + d \in 1 .. len /\ new[j] = ring[j + d] /\ g[j] = f[j + d]
        BY <1>5, <1>10
      <3>2. f[j + d] \in LogsIn(t) /\ t[f[j + d]].item.id = ring[j + d].id
        BY <1>7, <3>1
      <3>. QED  BY <1>6, <3>1, <3>2
    <2>. QED  BY <1>4, <1>5, <1>8, <1>10, <2>1
  <1>13. ASSUME NEW j \in 1 .. Len(new), NEW k \in 1 .. Len(new), j < k
         PROVE  g[j] < g[k]
    <2>1. j \in 1 .. len - d
      BY <1>5, <1>8, <1>13
    <2>2. CASE k = len + 1 - d
      BY <1>5, <1>6, <1>7, <1>10, <2>1, <2>2
    <2>3. CASE k \in 1 .. len - d
      <3>1. j + d \in 1 .. len /\ k + d \in 1 .. len /\ j + d < k + d
        BY <1>5, <1>13, <2>1, <2>3
      <3>. QED  BY <1>7, <1>10, <2>1, <2>3, <3>1
    <2>. QED  BY <1>8, <2>2, <2>3
  <1>14. ASSUME NEW n \in LogsIn(t2)
         PROVE  \/ \E j \in 1 .. Len(new) : g[j] = n
                \/ Len(new) = MaxMemory /\ \A j \in 1 .. Len(new) : n < g[j]
    <2>1. CASE n = l
      BY <1>9, <1>10, <2>1
    \* The one the full ring dropped is older than those it keeps.
    <2>2. CASE d = 1 /\ n = f[1] /\ n \in LogsIn(t)
      <3>1. len = MaxMemory /\ Len(new) = MaxMemory /\ 1 \in 1 .. len
        BY <1>2, <1>3, <1>4, <1>5, <2>2
      <3>2. \A j \in 1 .. len - d : n < f[j + d]
        <4>. SUFFICES ASSUME NEW j \in 1 .. len - d PROVE n < f[j + d]
          OBVIOUS
        <4>1. j + d \in 1 .. len /\ 1 < j + d
          BY <1>5, <2>2
        <4>. QED  BY <1>7, <2>2, <3>1, <4>1
      <3>. QED  BY <1>6, <1>8, <1>10, <2>2, <3>1, <3>2
    <2>3. ASSUME n \in LogsIn(t), NEW i \in 1 .. len, f[i] = n, ~ (d = 1 /\ i = 1)
          PROVE  \E j \in 1 .. Len(new) : g[j] = n
      <3>1. i - d \in 1 .. len - d /\ i - d + d = i
        BY <1>4, <1>5, <2>3
      <3>. QED  BY <1>9, <1>10, <2>3, <3>1
    <2>4. CASE n \in LogsIn(t) /\ len = MaxMemory /\ \A j \in 1 .. len : n < f[j]
      <3>1. d = 1 /\ Len(new) = MaxMemory
        <4>1. d = 1
          <5>1. Len(new) <= MaxMemory
            BY <1>1, <1>2, PushedProperties
          <5>. QED  BY <1>2, <1>4, <1>5, <2>4, <5>1
        <4>. QED  BY <1>5, <2>4, <4>1
      <3>. QED  BY <1>5, <1>6, <1>8, <1>10, <2>4, <3>1
    <2>. QED  BY <1>6, <1>7, <2>1, <2>2, <2>3, <2>4
  <1>15. HeldLogs(new, t2, g)
    BY <1>11, <1>12, <1>13, <1>14 DEF HeldLogs
  <1>. QED  BY <1>1, <1>15

\* One item leaves the rings as the history tells them: the last element of each
\* service is its last event (deployment_store.py:35).
LEMMA RingsKept ==
    ASSUME NEW m \in Stores, NEW t \in Seq(Events), NEW o \in Nat, NEW topic \in Topics, NEW item \in Items,
           NEW at \in Nat, DeploysOf(m, t), MetricsOf(m, t), LogsOf(m, t), RingsFit(m)
    PROVE  /\ DeploysOf(Handled(m, topic, item, at), TracedOne(t, o, topic, item, at))
           /\ MetricsOf(Handled(m, topic, item, at), TracedOne(t, o, topic, item, at))
           /\ LogsOf(Handled(m, topic, item, at), TracedOne(t, o, topic, item, at))
           /\ RingsFit(Handled(m, topic, item, at))
  <1>. DEFINE m2 == Handled(m, topic, item, at)
              t2 == TracedOne(t, o, topic, item, at)
              l == Len(t) + 1
  <1>1. CASE Raises(topic, item)
    BY <1>1 DEF Handled, TracedOne
  <1>2. CASE ~ Raises(topic, item)
    <2>1. /\ topic = "deploys" =>
                /\ m2.all = Pushed(m.all, RowOf(item, at), MaxAll)
                /\ \A s \in Service : m2.by[s] =
                      IF s = item.service THEN Pushed(m.by[s], RowOf(item, at), PerService) ELSE m.by[s]
          /\ topic # "deploys" => m2.all = m.all /\ m2.by = m.by
          /\ topic = "metrics" =>
                \A s \in Service : m2.metrics[s] =
                    IF s = item.service THEN Pushed(m.metrics[s], PointOf(item), MaxPoints) ELSE m.metrics[s]
          /\ topic # "metrics" => m2.metrics = m.metrics
          /\ topic = "logs" => m2.logs = Pushed(m.logs, LogOf(item), MaxMemory)
          /\ topic # "logs" => m2.logs = m.logs
      <3>1. m2 = Handled(m, topic, item, at)
        OBVIOUS
      <3>. HIDE DEF m2
      <3>. QED  BY <1>2, <3>1, HandledFields
    <2>2. /\ Len(t) \in Nat /\ DOMAIN t = 1 .. Len(t) /\ DOMAIN t2 = 1 .. l
          /\ \A n \in DOMAIN t : t2[n] = t[n]
          /\ t2[l] = [o |-> o, topic |-> topic, item |-> item, at |-> at]
          /\ \A tp, s : EventsIn(t2, tp, s) =
                 EventsIn(t, tp, s) \cup (IF tp = topic /\ s = item.service THEN {l} ELSE {})
      BY <1>2, AppendedEvents
    <2>. HIDE DEF m2, t2
    <2>3. \A tp, s : EventsIn(t, tp, s) \subseteq 1 .. Len(t)
      BY <2>2 DEF EventsIn
    <2>4. t2[l].item = item /\ t2[l].topic = topic /\ l \in Nat
      BY <2>2
    <2>5. /\ m.all \in Seq(Rows) /\ m.logs \in Seq(Rows)
          /\ \A s \in Service : m.by[s] \in Seq(Rows) /\ m.metrics[s] \in Seq(Points)
      BY DEF Stores
    <2>6. PerService \in Nat \ {0} /\ MaxAll \in Nat \ {0} /\ MaxPoints \in Nat \ {0} /\ MaxMemory \in Nat \ {0}
      BY RingAssumption
    <2>. HIDE DEF l
    \* The last event of an extended set is the new one; an old set's is the old.
    <2>7. ASSUME NEW tp, NEW s, NEW n \in EventsIn(t2, tp, s), \A k \in EventsIn(t2, tp, s) : k <= n
          PROVE  /\ tp = topic /\ s = item.service => n = l
                 /\ ~ (tp = topic /\ s = item.service) =>
                       /\ n \in EventsIn(t, tp, s) /\ \A k \in EventsIn(t, tp, s) : k <= n
                       /\ t2[n] = t[n]
      <3>1. CASE tp = topic /\ s = item.service
        <4>1. l \in EventsIn(t2, tp, s) /\ (n = l \/ n \in 1 .. Len(t))
          BY <2>2, <2>3, <2>7, <3>1
        <4>. QED  BY <2>2, <2>7, <3>1, <4>1 DEF l
      <3>2. CASE ~ (tp = topic /\ s = item.service)
        BY <2>2, <2>3, <2>7, <3>2
      <3>. QED  BY <3>1, <3>2
    <2>8. DeploysOf(m2, t2)
      <3>. SUFFICES ASSUME NEW s \in Service, NEW n \in EventsIn(t2, "deploys", s),
                           \A k \in EventsIn(t2, "deploys", s) : k <= n
                    PROVE  /\ m2.by[s] # << >> /\ Last(m2.by[s]).id = t2[n].item.id
                           /\ \A j : LastOfAll(m2.all, s, j) => m2.all[j].id = t2[n].item.id
        BY DEF DeploysOf, LastIs
      <3>1. CASE topic = "deploys" /\ s = item.service
        <4>1. n = l /\ t2[n].item = item
          BY <2>4, <2>7, <3>1
        <4>2. m2.by[s] # << >> /\ Last(m2.by[s]).id = item.id
          <5>1. m2.by[s] = Pushed(m.by[s], RowOf(item, at), PerService)
            BY <2>1, <3>1
          <5>2. RowOf(item, at) \in Rows /\ RowOf(item, at).id = item.id
            BY RowTypes
          <5>. QED  BY <2>5, <2>6, <5>1, <5>2, PushedProperties
        <4>3. ASSUME NEW j, LastOfAll(m2.all, s, j)
              PROVE  m2.all[j].id = item.id
          <5>1. m2.all = Pushed(m.all, RowOf(item, at), MaxAll)
            BY <2>1, <3>1
          <5>2. RowOf(item, at) \in Rows /\ RowOf(item, at).id = item.id /\ RowOf(item, at).service = s
            BY <3>1, RowTypes
          <5>3. PICK d \in {0, 1} :
                   /\ Len(m2.all) = Len(m.all) + 1 - d /\ Len(m.all) - d \in Nat
                   /\ m2.all[Len(m.all) + 1 - d] = RowOf(item, at)
            <6>1. PICK d \in {0, 1} : Moved(m2.all, m.all, RowOf(item, at), d)
              BY <2>5, <2>6, <5>1, <5>2, PushedPositions
            <6>. QED  BY <6>1 DEF Moved
          <5>4. Len(m.all) \in Nat
            BY <2>5, LenProperties
          <5>5. j = Len(m2.all)
            <6>1. Len(m2.all) \in 1 .. Len(m2.all) /\ Len(m2.all) \in Nat
              BY <5>3, <5>4
            <6>2. j \in 1 .. Len(m2.all) /\ \A i \in 1 .. Len(m2.all) : i > j => m2.all[i].service # s
              BY <4>3 DEF LastOfAll
            <6>3. ~ (Len(m2.all) > j)
              BY <5>2, <5>3, <6>1, <6>2
            <6>. QED  BY <6>1, <6>2, <6>3
          <5>. QED  BY <5>2, <5>3, <5>5
        <4>. QED  BY <4>1, <4>2, <4>3
      <3>2. CASE ~ (topic = "deploys" /\ s = item.service)
        <4>1. n \in EventsIn(t, "deploys", s) /\ (\A k \in EventsIn(t, "deploys", s) : k <= n) /\ t2[n] = t[n]
          BY <2>7, <3>2
        <4>2. /\ m.by[s] # << >> /\ Last(m.by[s]).id = t[n].item.id
              /\ \A j : LastOfAll(m.all, s, j) => m.all[j].id = t[n].item.id
          BY <4>1 DEF DeploysOf, LastIs
        <4>3. m2.by[s] = m.by[s]
          BY <2>1, <3>2
        <4>4. CASE topic # "deploys"
          BY <2>1, <4>1, <4>2, <4>3, <4>4
        <4>5. ASSUME topic = "deploys", s # item.service, NEW j, LastOfAll(m2.all, s, j)
              PROVE  m2.all[j].id = t[n].item.id
          <5>1. m2.all = Pushed(m.all, RowOf(item, at), MaxAll)
            BY <2>1, <4>5
          <5>2. RowOf(item, at) \in Rows /\ RowOf(item, at).service # s
            BY <4>5, RowTypes
          <5>3. PICK d \in {0, 1} :
                   /\ Len(m2.all) = Len(m.all) + 1 - d /\ Len(m.all) - d \in Nat
                   /\ \A i \in 1 .. Len(m.all) - d : m2.all[i] = m.all[i + d]
                   /\ m2.all[Len(m.all) + 1 - d] = RowOf(item, at)
            <6>1. PICK d \in {0, 1} : Moved(m2.all, m.all, RowOf(item, at), d)
              BY <2>5, <2>6, <5>1, <5>2, PushedPositions
            <6>. QED  BY <6>1 DEF Moved
          <5>4. Len(m.all) \in Nat
            BY <2>5, LenProperties
          <5>5. /\ j \in 1 .. Len(m2.all) /\ m2.all[j].service = s
                /\ \A i \in 1 .. Len(m2.all) : i > j => m2.all[i].service # s
            BY <4>5 DEF LastOfAll
          <5>6. j # Len(m.all) + 1 - d
            BY <5>2, <5>3, <5>5
          <5>7. j \in 1 .. Len(m.all) - d /\ j + d \in 1 .. Len(m.all)
            <6>1. j \in 1 .. Len(m.all) + 1 - d
              BY <5>3, <5>5, Zenon
            <6>. QED  BY <5>4, <5>6, <6>1, NotTheNewest, Zenon
          <5>8. ASSUME NEW i \in 1 .. Len(m.all), i > j + d
                PROVE  m.all[i].service # s
            <6>1. i - d \in 1 .. Len(m.all) - d /\ i - d > j /\ i - d + d = i
              BY <5>3, <5>4, <5>7, <5>8
            <6>2. i - d \in 1 .. Len(m2.all)
              BY <5>3, <5>4, <6>1
            <6>. QED  BY <5>3, <5>5, <6>1, <6>2
          <5>9. LastOfAll(m.all, s, j + d)
            BY <5>3, <5>5, <5>7, <5>8 DEF LastOfAll
          <5>. QED  BY <4>2, <5>3, <5>7, <5>9
        <4>. QED  BY <3>2, <4>1, <4>2, <4>3, <4>4, <4>5
      <3>. QED  BY <3>1, <3>2
    <2>9. MetricsOf(m2, t2)
      <3>. SUFFICES ASSUME NEW s \in Service, NEW n \in EventsIn(t2, "metrics", s),
                           \A k \in EventsIn(t2, "metrics", s) : k <= n
                    PROVE  m2.metrics[s] # << >> /\ Last(m2.metrics[s]).id = t2[n].item.id
        BY DEF MetricsOf, LastIs
      <3>1. CASE topic = "metrics" /\ s = item.service
        <4>1. n = l /\ t2[n].item = item
          BY <2>4, <2>7, <3>1
        <4>2. m2.metrics[s] = Pushed(m.metrics[s], PointOf(item), MaxPoints)
          BY <2>1, <3>1
        <4>3. PointOf(item) \in Points /\ PointOf(item).id = item.id
          BY RowTypes
        <4>. QED  BY <2>5, <2>6, <4>1, <4>2, <4>3, PushedProperties
      <3>2. CASE ~ (topic = "metrics" /\ s = item.service)
        <4>1. n \in EventsIn(t, "metrics", s) /\ (\A k \in EventsIn(t, "metrics", s) : k <= n) /\ t2[n] = t[n]
          BY <2>7, <3>2
        <4>2. m2.metrics[s] = m.metrics[s]
          BY <2>1, <3>2
        <4>. QED  BY <4>1, <4>2 DEF MetricsOf, LastIs
      <3>. QED  BY <3>1, <3>2
    <2>10. LogsOf(m2, t2)
      <3>1. PICK f : HeldLogs(m.logs, t, f)
        BY DEF LogsOf
      <3>2. CASE topic # "logs"
        <4>1. LogsIn(t2) = LogsIn(t)
          BY <2>2, <2>4, <3>2 DEF LogsIn, l
        <4>2. \A n \in LogsIn(t) : t2[n] = t[n]
          BY <2>2 DEF LogsIn
        <4>3. HeldLogs(m.logs, t2, f)
          BY <3>1, <4>1, <4>2 DEF HeldLogs
        <4>. QED  BY <2>1, <3>2, <4>3 DEF LogsOf
      <3>3. CASE topic = "logs"
        <4>1. m2.logs = Pushed(m.logs, LogOf(item), MaxMemory) /\ LogOf(item) \in Rows /\ LogOf(item).id = item.id
          BY <2>1, <3>3, RowTypes
        <4>2. DOMAIN t2 = 1 .. Len(t) + 1 /\ t2[Len(t) + 1].topic = "logs" /\ t2[Len(t) + 1].item.id = LogOf(item).id
          BY <2>2, <2>4, <3>3, <4>1 DEF l
        <4>3. PICK row \in Rows, ring \in Seq(Rows) : row = LogOf(item) /\ ring = m.logs
          BY <2>5, <4>1
        <4>4. Len(ring) <= MaxMemory /\ HeldLogs(ring, t, f)
          BY <3>1, <4>3 DEF RingsFit
        <4>5. \E g : HeldLogs(Pushed(ring, row, MaxMemory), t2, g)
          BY <2>2, <4>2, <4>3, <4>4, LogsPushed
        <4>. QED  BY <4>1, <4>3, <4>5 DEF LogsOf
      <3>. QED  BY <3>2, <3>3
    <2>11. RingsFit(m2)
      <3>1. Len(m2.all) <= MaxAll
        <4>1. RowOf(item, at) \in Rows /\ Len(m.all) <= MaxAll
          BY RowTypes DEF RingsFit
        <4>. QED  BY <2>1, <2>5, <2>6, <4>1, PushedProperties
      <3>2. Len(m2.logs) <= MaxMemory
        <4>1. LogOf(item) \in Rows /\ Len(m.logs) <= MaxMemory
          BY RowTypes DEF RingsFit
        <4>. QED  BY <2>1, <2>5, <2>6, <4>1, PushedProperties
      <3>3. ASSUME NEW s \in Service
            PROVE  Len(m2.by[s]) <= PerService /\ Len(m2.metrics[s]) <= MaxPoints
        <4>1. RowOf(item, at) \in Rows /\ PointOf(item) \in Points
              /\ Len(m.by[s]) <= PerService /\ Len(m.metrics[s]) <= MaxPoints
          BY RowTypes DEF RingsFit
        <4>2. Len(m2.by[s]) <= PerService
          <5>1. m2.by[s] = m.by[s] \/ m2.by[s] = Pushed(m.by[s], RowOf(item, at), PerService)
            BY <2>1
          <5>. QED  BY <2>5, <2>6, <4>1, <5>1, PushedProperties
        <4>3. Len(m2.metrics[s]) <= MaxPoints
          BY <2>1, <2>5, <2>6, <4>1, PushedProperties, SMTT(30)
        <4>. QED  BY <4>2, <4>3
      <3>. QED  BY <3>1, <3>2, <3>3 DEF RingsFit
    <2>. QED  BY <2>8, <2>9, <2>10, <2>11 DEF m2, t2
  <1>. QED  BY <1>1, <1>2

\* The spans of a history, and those that found their parent there.
SpansIn(t) == {n \in DOMAIN t : t[n].topic = "spans"}
CallsIn(t, key) ==
    {n \in EventsIn(t, "spans", key[2]) :
        \E p \in EventsIn(t, "spans", key[1]) : p < n /\ t[p].item.id = t[n].item.parent}

\* The events are in the order of their times, which are past.
TimesOf(t, at) ==
    /\ \A i, j \in DOMAIN t : i <= j => t[i].at <= t[j].at
    /\ \A i \in DOMAIN t : t[i].at <= at

\* n is the latest span with an id.
LatestSpan(t, n, id) ==
    /\ n \in SpansIn(t) /\ t[n].item.id = id
    /\ \A k \in SpansIn(t) : t[k].item.id = id => k <= n

\* An entry of the index is of the latest span with its id, every span that has
\* not expired has one, and a full index has only entries that had not at the
\* time of the latest span.
IndexOf(index, t, at) ==
    /\ \A i \in DOMAIN index : \E n \in DOMAIN t :
          /\ LatestSpan(t, n, i)
          /\ index[i].service = t[n].item.service /\ index[i].expires = t[n].at + SpanTtl
    /\ \A n \in SpansIn(t) : t[n].at + SpanTtl > at => t[n].item.id \in DOMAIN index
    /\ \/ Cardinality(DOMAIN index) <= MaxIndex
       \/ \A i \in DOMAIN index : \E n \in SpansIn(t) :
             t[n].item.id = i /\ \A k \in SpansIn(t) : t[n].at + SpanTtl > t[k].at

\* An edge counts calls and was seen at one; every recent call has one, seen then
\* or later.
EdgesOf(edges, t, at) ==
    /\ \A key \in DOMAIN edges :
          /\ \E n \in CallsIn(t, key) : edges[key].seen = t[n].at
          /\ edges[key].errors <= edges[key].calls
          /\ edges[key].calls <= Cardinality(CallsIn(t, key))
    /\ \A key \in Service \X Service : \A n \in CallsIn(t, key), p \in EventsIn(t, "spans", key[1]) :
          /\ key[1] # key[2] /\ p < n /\ t[p].item.id = t[n].item.parent
          /\ t[n].at - t[p].at < SpanTtl /\ at - t[n].at <= EdgeTtl
          => key \in DOMAIN edges /\ edges[key].seen >= t[n].at

TopologyOf(topology, t, at) ==
    TimesOf(t, at) /\ IndexOf(topology.index, t, at) /\ EdgesOf(topology.edges, t, at)

-----------------------------------------------------------------------------

\* The index after one more span.
LEMMA IndexKept ==
    ASSUME NEW index \in Indexes, NEW t \in Seq(Events), NEW o \in Nat, NEW item \in Items, NEW at \in Nat,
           ~ Raises("spans", item), TimesOf(t, at), IndexOf(index, t, at),
           NEW t2, t2 = TracedOne(t, o, "spans", item, at),
           NEW new, new = Registered(index, item, at)
    PROVE  /\ TimesOf(t2, at) /\ IndexOf(new, t2, at)
  <1>. DEFINE l == Len(t) + 1
              kept == Evicted(index, at)
  <1>1. /\ Len(t) \in Nat /\ DOMAIN t = 1 .. Len(t) /\ DOMAIN t2 = 1 .. l
        /\ \A n \in DOMAIN t : t2[n] = t[n]
        /\ t2[l].o = o /\ t2[l].topic = "spans" /\ t2[l].item = item /\ t2[l].at = at
    <2>1. "spans" \in Topics
      BY DEF Topics
    <2>2. /\ Len(t) \in Nat /\ DOMAIN t = 1 .. Len(t) /\ DOMAIN t2 = 1 .. Len(t) + 1
          /\ \A n \in DOMAIN t : t2[n] = t[n]
          /\ t2[Len(t) + 1] = [o |-> o, topic |-> "spans", item |-> item, at |-> at]
      BY <2>1, AppendedEvents
    <2>. QED  BY <2>2
  <1>2. \A n \in DOMAIN t : t[n].at \in Nat
    <2>1. \A n \in DOMAIN t : t[n] \in Events
      BY <1>1, ElementOfSeq
    <2>. QED  BY <2>1 DEF Events
  <1>3. SpanTtl \in Nat \ {0} /\ MaxIndex \in Nat
    BY TopologyAssumption
  <1>4. SpansIn(t2) = SpansIn(t) \cup {l} /\ SpansIn(t) \subseteq 1 .. Len(t) /\ l \notin SpansIn(t)
    BY <1>1 DEF SpansIn
  <1>5. /\ DOMAIN kept \subseteq DOMAIN index
        /\ \A i \in DOMAIN index : index[i].expires > at => i \in DOMAIN kept
        /\ Cardinality(DOMAIN index) >= MaxIndex => \A i \in DOMAIN kept : index[i].expires > at
        /\ Cardinality(DOMAIN index) < MaxIndex => kept = index
        /\ DOMAIN new = DOMAIN kept \cup {item.id}
        /\ new[item.id] = [service |-> item.service, expires |-> at + SpanTtl]
        /\ \A i \in DOMAIN kept : i # item.id => new[i] = index[i]
    <2>1. /\ DOMAIN kept \subseteq DOMAIN index
          /\ \A i \in DOMAIN index : index[i].expires > at => i \in DOMAIN kept
          /\ Cardinality(DOMAIN index) >= MaxIndex => \A i \in DOMAIN kept : index[i].expires > at
          /\ Cardinality(DOMAIN index) < MaxIndex => kept = index
      BY RegisteredProperties
    <2>2. /\ DOMAIN Registered(index, item, at) = DOMAIN kept \cup {item.id}
          /\ Registered(index, item, at)[item.id] = [service |-> item.service, expires |-> at + SpanTtl]
          /\ \A i \in DOMAIN kept : i # item.id => Registered(index, item, at)[i] = index[i]
      BY RegisteredProperties
    <2>. HIDE DEF kept
    <2>. QED  BY <2>1, <2>2
  <1>6. IsFiniteSet(DOMAIN index) /\ Cardinality(DOMAIN index) \in Nat
    BY FS_CardinalityType DEF Indexes
  <1>. HIDE DEF kept
  <1>7. TimesOf(t2, at)
    <2>1. ASSUME NEW i \in DOMAIN t2, NEW j \in DOMAIN t2, i <= j
          PROVE  t2[i].at <= t2[j].at /\ t2[i].at <= at
      <3>1. CASE j = l
        BY <1>1, <1>2, <2>1, <3>1 DEF TimesOf
      <3>2. CASE j # l
        <4>1. i \in DOMAIN t /\ j \in DOMAIN t
          BY <1>1, <2>1, <3>2
        <4>. QED  BY <1>1, <2>1, <4>1 DEF TimesOf
      <3>. QED  BY <3>1, <3>2
    <2>2. \A i \in DOMAIN t2 : i <= i
      BY <1>1
    <2>. QED  BY <2>1, <2>2 DEF TimesOf
  <1>. HIDE DEF l
  <1>8. ASSUME NEW i \in DOMAIN new
        PROVE  \E n \in DOMAIN t2 :
                   /\ LatestSpan(t2, n, i)
                   /\ new[i].service = t2[n].item.service /\ new[i].expires = t2[n].at + SpanTtl
    <2>1. CASE i = item.id
      <3>1. l \in DOMAIN t2 /\ \A k \in SpansIn(t2) : k <= l
        BY <1>1, <1>4 DEF l
      <3>. QED  BY <1>1, <1>4, <1>5, <2>1, <3>1 DEF LatestSpan
    <2>2. CASE i # item.id
      <3>1. i \in DOMAIN index /\ new[i] = index[i]
        BY <1>5, <2>2
      <3>2. PICK n \in DOMAIN t :
               /\ LatestSpan(t, n, i)
               /\ index[i].service = t[n].item.service /\ index[i].expires = t[n].at + SpanTtl
        BY <3>1 DEF IndexOf
      <3>3. LatestSpan(t2, n, i) /\ n \in DOMAIN t2
        <4>1. \A k \in SpansIn(t2) : t2[k].item.id = i => k \in SpansIn(t) /\ t[k].item.id = i
          BY <1>1, <1>4, <2>2
        <4>2. n \in DOMAIN t2
          BY <1>1 DEF l
        <4>. QED  BY <1>1, <1>4, <3>2, <4>1, <4>2 DEF LatestSpan
      <3>. QED  BY <1>1, <3>1, <3>2, <3>3
    <2>. QED  BY <2>1, <2>2
  <1>9. ASSUME NEW n \in SpansIn(t2), t2[n].at + SpanTtl > at
        PROVE  t2[n].item.id \in DOMAIN new
    <2>1. CASE n = l
      BY <1>1, <1>5, <2>1
    <2>2. CASE n # l
      <3>1. n \in SpansIn(t) /\ n \in DOMAIN t /\ t2[n] = t[n]
        BY <1>1, <1>4, <2>2
      <3>. DEFINE i == t[n].item.id
      <3>2. i \in DOMAIN index
        BY <1>9, <3>1 DEF IndexOf
      <3>3. PICK k \in DOMAIN t : LatestSpan(t, k, i) /\ index[i].expires = t[k].at + SpanTtl
        BY <3>2 DEF IndexOf
      <3>4. t[n].at <= t[k].at
        BY <3>1, <3>3 DEF LatestSpan, TimesOf
      <3>5. index[i].expires > at
        BY <1>2, <1>3, <1>9, <3>1, <3>3, <3>4
      <3>. QED  BY <1>5, <3>1, <3>2, <3>5
    <2>. QED  BY <2>1, <2>2
  <1>10. \/ Cardinality(DOMAIN new) <= MaxIndex
         \/ \A i \in DOMAIN new : \E n \in SpansIn(t2) :
               t2[n].item.id = i /\ \A k \in SpansIn(t2) : t2[n].at + SpanTtl > t2[k].at
    <2>1. CASE Cardinality(DOMAIN index) < MaxIndex
      <3>1. DOMAIN new = DOMAIN index \cup {item.id}
        BY <1>5, <2>1
      <3>2. Cardinality(DOMAIN new) <= Cardinality(DOMAIN index) + 1
        <4>1. PICK D : D = DOMAIN index
          OBVIOUS
        <4>2. Cardinality(D \cup {item.id}) = IF item.id \in D THEN Cardinality(D) ELSE Cardinality(D) + 1
          BY <1>6, <4>1, FS_AddElement
        <4>. QED  BY <1>6, <3>1, <4>1, <4>2
      <3>3. Cardinality(DOMAIN new) \in Nat
        BY <1>6, <3>1, FS_AddElement, FS_CardinalityType
      <3>. QED  BY <1>3, <1>6, <2>1, <3>2, <3>3
    <2>2. CASE ~ (Cardinality(DOMAIN index) < MaxIndex)
      <3>1. \A k \in SpansIn(t2) : t2[k].at <= at /\ t2[k].at \in Nat
        BY <1>1, <1>2, <1>4, <1>7 DEF TimesOf, SpansIn
      <3>2. ASSUME NEW i \in DOMAIN new
            PROVE  \E n \in SpansIn(t2) :
                       t2[n].item.id = i /\ \A k \in SpansIn(t2) : t2[n].at + SpanTtl > t2[k].at
        <4>1. PICK n \in DOMAIN t2 : LatestSpan(t2, n, i) /\ new[i].expires = t2[n].at + SpanTtl
          BY <1>8
        <4>2. new[i].expires > at
          <5>1. CASE i = item.id
            BY <1>3, <1>5, <5>1
          <5>2. CASE i # item.id
            <6>1. i \in DOMAIN kept /\ new[i] = index[i]
              BY <1>5, <5>2
            <6>2. Cardinality(DOMAIN index) >= MaxIndex
              BY <1>3, <1>6, <2>2
            <6>. QED  BY <1>5, <6>1, <6>2
          <5>. QED  BY <5>1, <5>2
        <4>3. n \in SpansIn(t2) /\ t2[n].item.id = i
          BY <4>1 DEF LatestSpan
        <4>4. \A k \in SpansIn(t2) : t2[n].at + SpanTtl > t2[k].at
          BY <1>3, <3>1, <4>1, <4>2, <4>3
        <4>. QED  BY <4>3, <4>4
      <3>. QED  BY <3>2
    <2>. QED  BY <2>1, <2>2
  <1>11. IndexOf(new, t2, at)
    BY <1>8, <1>9, <1>10 DEF IndexOf
  <1>. QED  BY <1>7, <1>11

-----------------------------------------------------------------------------
(* The edges after one more span.                                          *)

\* Calls are positions of the history.
LEMMA CallsAreEvents ==
    ASSUME NEW t \in Seq(Events), NEW key
    PROVE  /\ CallsIn(t, key) \subseteq 1 .. Len(t)
           /\ IsFiniteSet(CallsIn(t, key)) /\ Cardinality(CallsIn(t, key)) \in Nat
  <1>1. CallsIn(t, key) \subseteq 1 .. Len(t) /\ Len(t) \in Nat
    BY LenProperties DEF CallsIn, EventsIn
  <1>2. IsFiniteSet(1 .. Len(t))
    BY <1>1, FirstN
  <1>. QED  BY <1>1, <1>2, FS_Subset, FS_CardinalityType

\* Errors stay below calls, and calls below those there were, with one more.
LEMMA OneMore ==
    ASSUME NEW errors \in Nat, NEW calls \in Nat, NEW all \in Nat, NEW errors2 \in Nat, NEW all2 \in Nat,
           errors <= calls, calls <= all, errors2 <= errors + 1, all + 1 <= all2
    PROVE  errors2 <= calls + 1 /\ calls + 1 <= all2
  OBVIOUS

\* The edges after one more span, whose parent is looked up in the new index.
LEMMA EdgesKept ==
    ASSUME NEW topology \in [index : Indexes, edges : Edges], NEW t \in Seq(Events), NEW o \in Nat,
           NEW item \in Items, NEW at \in Nat,
           ~ Raises("spans", item), TopologyOf(topology, t, at),
           NEW t2, t2 = TracedOne(t, o, "spans", item, at),
           NEW new, new = Record(topology, item, at)
    PROVE  TopologyOf(new, t2, at)
  <1>. DEFINE l == Len(t) + 1
              index == Registered(topology.index, item, at)
              key0 == <<index[item.parent].service, item.service>>
              found == item.parent \in DOMAIN index /\ index[item.parent].service # item.service
  <1>1. "spans" \in Topics /\ topology.index \in Indexes /\ topology.edges \in Edges
        /\ TimesOf(t, at) /\ IndexOf(topology.index, t, at) /\ EdgesOf(topology.edges, t, at)
    BY DEF Topics, TopologyOf
  <1>2. TimesOf(t2, at) /\ IndexOf(index, t2, at)
    <2>1. index = Registered(topology.index, item, at)
      OBVIOUS
    <2>. HIDE DEF index
    <2>. QED  BY <1>1, <2>1, IndexKept
  <1>3. new.index = index /\ new.edges = IF found THEN Called(topology.edges, key0, item.error, at) ELSE topology.edges
    BY DEF Record
  <1>4. index \in Indexes /\ index[item.id].service = item.service
        /\ DOMAIN index = DOMAIN Evicted(topology.index, at) \cup {item.id}
    <2>1. index = Registered(topology.index, item, at)
      OBVIOUS
    <2>. HIDE DEF index
    <2>2. index \in Indexes /\ DOMAIN index = DOMAIN Evicted(topology.index, at) \cup {item.id}
      BY <1>1, <2>1, RegisteredProperties, ZenonT(30)
    <2>3. index[item.id] = [service |-> item.service, expires |-> at + SpanTtl]
      BY <1>1, <2>1, RegisteredProperties, ZenonT(30)
    <2>. QED  BY <2>2, <2>3
  <1>5. /\ Len(t) \in Nat /\ DOMAIN t = 1 .. Len(t) /\ DOMAIN t2 = 1 .. l
        /\ \A n \in DOMAIN t : t2[n] = t[n]
        /\ t2[l].topic = "spans" /\ t2[l].item = item /\ t2[l].at = at
        /\ \A s : EventsIn(t2, "spans", s) =
              EventsIn(t, "spans", s) \cup (IF s = item.service THEN {l} ELSE {})
    <2>1. /\ Len(t) \in Nat /\ DOMAIN t = 1 .. Len(t) /\ DOMAIN t2 = 1 .. Len(t) + 1
          /\ \A n \in DOMAIN t : t2[n] = t[n]
          /\ t2[Len(t) + 1] = [o |-> o, topic |-> "spans", item |-> item, at |-> at]
          /\ \A tp, s : EventsIn(t2, tp, s) =
                EventsIn(t, tp, s) \cup (IF tp = "spans" /\ s = item.service THEN {Len(t) + 1} ELSE {})
      BY <1>1, AppendedEvents
    <2>. QED  BY <2>1
  <1>6. /\ \A n \in DOMAIN t : t[n] \in Events /\ t[n].at \in Nat /\ t[n].item \in Items /\ t[n].at <= at
        /\ t2 \in Seq(Events)
    <2>1. \A n \in DOMAIN t : t[n] \in Events
      BY <1>5, ElementOfSeq
    <2>2. t2 \in Seq(Events)
      BY <1>1, AppendedEvents
    <2>. QED  BY <1>1, <2>1, <2>2 DEF Events, TimesOf
  <1>. HIDE DEF index
  <1>7. \A s : EventsIn(t, "spans", s) \subseteq 1 .. Len(t) /\ l \notin EventsIn(t, "spans", s)
    BY <1>5 DEF EventsIn
  <1>8. ASSUME NEW key
        PROVE  /\ CallsIn(t, key) \subseteq CallsIn(t2, key)
               /\ \A n \in CallsIn(t2, key) : n \in CallsIn(t, key) \/ n = l
               /\ \A n \in CallsIn(t, key) : t2[n] = t[n] /\ n \in DOMAIN t
               /\ Cardinality(CallsIn(t, key)) <= Cardinality(CallsIn(t2, key))
    <2>1. ASSUME NEW n \in CallsIn(t, key)
          PROVE  n \in CallsIn(t2, key) /\ t2[n] = t[n] /\ n \in DOMAIN t
      <3>1. PICK p \in EventsIn(t, "spans", key[1]) : p < n /\ t[p].item.id = t[n].item.parent
        BY DEF CallsIn
      <3>2. n \in EventsIn(t, "spans", key[2]) /\ n \in DOMAIN t /\ p \in DOMAIN t
        BY <1>5, <1>7 DEF CallsIn
      <3>3. t2[n] = t[n] /\ t2[p] = t[p]
        BY <1>5, <3>2
      <3>4. n \in EventsIn(t2, "spans", key[2]) /\ p \in EventsIn(t2, "spans", key[1])
        BY <1>5, <3>2
      <3>. QED  BY <3>1, <3>2, <3>3, <3>4 DEF CallsIn
    <2>2. ASSUME NEW n \in CallsIn(t2, key), n # l
          PROVE  n \in CallsIn(t, key)
      <3>1. PICK p \in EventsIn(t2, "spans", key[1]) : p < n /\ t2[p].item.id = t2[n].item.parent
        BY DEF CallsIn
      <3>2. n \in EventsIn(t, "spans", key[2]) /\ n \in 1 .. Len(t)
        BY <1>5, <1>7, <2>2 DEF CallsIn
      <3>3. p # l
        BY <1>5, <3>1, <3>2
      <3>4. p \in EventsIn(t, "spans", key[1]) /\ p \in DOMAIN t
        BY <1>5, <1>7, <3>3
      <3>. QED  BY <1>5, <3>1, <3>2, <3>4 DEF CallsIn
    <2>3. Cardinality(CallsIn(t, key)) <= Cardinality(CallsIn(t2, key))
      BY <1>6, <2>1, CallsAreEvents, FS_Subset
    <2>. QED  BY <2>1, <2>2, <2>3
  \* A parent in the index is an event before the span, and of the service of the
  \* entry.
  <1>9. ASSUME found
        PROVE  /\ key0 \in Service \X Service /\ l \in CallsIn(t2, key0)
               /\ l \notin CallsIn(t, key0)
    <2>1. item.parent # item.id
      BY <1>4, <1>9
    <2>2. item.parent \in DOMAIN Evicted(topology.index, at) /\ item.parent \in DOMAIN topology.index
          /\ index[item.parent] = topology.index[item.parent]
      <3>1. item.parent \in DOMAIN Evicted(topology.index, at)
        BY <1>4, <1>9, <2>1
      <3>2. /\ DOMAIN Evicted(topology.index, at) \subseteq DOMAIN topology.index
            /\ \A i \in DOMAIN Evicted(topology.index, at) : i # item.id =>
                  Registered(topology.index, item, at)[i] = topology.index[i]
        BY <1>1, RegisteredProperties
      <3>. QED  BY <2>1, <3>1, <3>2 DEF index
    <2>3. PICK p \in DOMAIN t : LatestSpan(t, p, item.parent)
                                /\ topology.index[item.parent].service = t[p].item.service
      BY <1>1, <2>2 DEF IndexOf
    <2>4. p \in EventsIn(t, "spans", key0[1]) /\ t[p].item.id = item.parent
      BY <2>2, <2>3 DEF LatestSpan, EventsIn, SpansIn
    <2>5. p < l /\ t2[p] = t[p]
      BY <1>5, <2>3
    <2>6. p \in EventsIn(t2, "spans", key0[1]) /\ l \in EventsIn(t2, "spans", key0[2])
      BY <1>5, <2>4
    <2>7. key0[1] \in Service /\ key0[2] \in Service
      BY <1>6, <2>2, <2>3, ItemTypes
    <2>8. l \notin CallsIn(t, key0)
      BY <1>7 DEF CallsIn
    <2>. QED  BY <1>5, <2>4, <2>5, <2>6, <2>7, <2>8 DEF CallsIn
  <1>10. ASSUME found
         PROVE  /\ DOMAIN new.edges = DOMAIN topology.edges \cup {key0}
                /\ \A k \in DOMAIN topology.edges : k # key0 => new.edges[k] = topology.edges[k]
                /\ new.edges[key0].seen = at
                /\ key0 \notin DOMAIN topology.edges =>
                      new.edges[key0].calls = 1 /\ new.edges[key0].errors <= 1
                /\ key0 \in DOMAIN topology.edges =>
                      /\ new.edges[key0].calls = topology.edges[key0].calls + 1
                      /\ new.edges[key0].errors <= topology.edges[key0].errors + 1
                /\ new.edges[key0].errors \in Nat
    <2>1. new.edges = Called(topology.edges, key0, item.error, at)
      BY <1>3, <1>10
    <2>2. key0 \in Service \X Service
      BY <1>9, <1>10
    <2>. HIDE DEF key0
    <2>3. item.error \in BOOLEAN
      BY ItemTypes
    <2>. DEFINE edges == topology.edges
                more == Called(edges, key0, item.error, at)
    <2>4. edges \in Edges
      BY <1>1
    <2>5. /\ more \in Edges
          /\ DOMAIN more = DOMAIN edges \cup {key0}
          /\ \A k \in DOMAIN edges : k # key0 => more[k] = edges[k]
          /\ more[key0].seen = at
          /\ key0 \notin DOMAIN edges => more[key0].calls = 1 /\ more[key0].errors <= 1
          /\ key0 \in DOMAIN edges =>
                more[key0].calls = edges[key0].calls + 1 /\ more[key0].errors <= edges[key0].errors + 1
      <3>1. PICK key1 \in Service \X Service : key1 = key0
        BY <2>2
      <3>2. more = Called(edges, key1, item.error, at)
        BY <3>1
      <3>. HIDE DEF edges, more
      <3>3. CallAdded(more, edges, key1, at)
        BY <2>4, <3>1, <3>2, CalledProperties
      <3>. QED  BY <3>1, <3>3 DEF CallAdded
    <2>. HIDE DEF more
    <2>6. more[key0].errors \in Nat
      BY <2>5 DEF Edges
    <2>. QED  BY <2>1, <2>5, <2>6 DEF more
  <1>. HIDE DEF key0, found
  <1>11. ASSUME NEW key \in DOMAIN topology.edges
         PROVE  /\ topology.edges[key].errors \in Nat /\ topology.edges[key].calls \in Nat
                /\ topology.edges[key].seen \in Nat
    BY <1>1 DEF Edges
  <1>12. ASSUME NEW key \in DOMAIN new.edges
         PROVE  /\ \E n \in CallsIn(t2, key) : new.edges[key].seen = t2[n].at
                /\ new.edges[key].errors <= new.edges[key].calls
                /\ new.edges[key].calls <= Cardinality(CallsIn(t2, key))
    <2>1. ASSUME key \in DOMAIN topology.edges, new.edges[key] = topology.edges[key]
          PROVE  /\ \E n \in CallsIn(t2, key) : new.edges[key].seen = t2[n].at
                 /\ new.edges[key].errors <= new.edges[key].calls
                 /\ new.edges[key].calls <= Cardinality(CallsIn(t2, key))
      <3>1. PICK n \in CallsIn(t, key) : topology.edges[key].seen = t[n].at
        BY <1>1, <2>1 DEF EdgesOf
      <3>2. n \in CallsIn(t2, key) /\ t2[n] = t[n]
        BY <1>8
      <3>3. topology.edges[key].errors <= topology.edges[key].calls
            /\ topology.edges[key].calls <= Cardinality(CallsIn(t, key))
        BY <1>1, <2>1 DEF EdgesOf
      <3>4. Cardinality(CallsIn(t, key)) <= Cardinality(CallsIn(t2, key))
            /\ Cardinality(CallsIn(t, key)) \in Nat /\ Cardinality(CallsIn(t2, key)) \in Nat
        BY <1>6, <1>8, CallsAreEvents
      <3>. QED  BY <1>11, <2>1, <3>1, <3>2, <3>3, <3>4
    <2>2. CASE ~ found
      BY <1>3, <2>1, <2>2
    <2>3. CASE found /\ key # key0
      BY <1>10, <2>1, <2>3
    <2>4. CASE found /\ key = key0
      <3>1. l \in CallsIn(t2, key) /\ l \notin CallsIn(t, key) /\ CallsIn(t, key) \subseteq CallsIn(t2, key)
        BY <1>8, <1>9, <2>4
      <3>2. Cardinality(CallsIn(t, key)) + 1 <= Cardinality(CallsIn(t2, key))
            /\ Cardinality(CallsIn(t, key)) \in Nat /\ Cardinality(CallsIn(t2, key)) \in Nat
        <4>1. IsFiniteSet(CallsIn(t, key)) /\ IsFiniteSet(CallsIn(t2, key))
              /\ Cardinality(CallsIn(t, key)) \in Nat /\ Cardinality(CallsIn(t2, key)) \in Nat
          BY <1>6, CallsAreEvents
        <4>2. Cardinality(CallsIn(t, key) \cup {l}) = Cardinality(CallsIn(t, key)) + 1
          BY <3>1, <4>1, FS_AddElement
        <4>3. CallsIn(t, key) \cup {l} \subseteq CallsIn(t2, key)
          BY <3>1
        <4>4. Cardinality(CallsIn(t, key) \cup {l}) <= Cardinality(CallsIn(t2, key))
          BY <4>1, <4>3, FS_Subset
        <4>. QED  BY <4>1, <4>2, <4>4
      <3>3. new.edges[key].seen = t2[l].at
        BY <1>5, <1>10, <2>4
      <3>4. CASE key \in DOMAIN topology.edges
        <4>1. topology.edges[key].errors <= topology.edges[key].calls
              /\ topology.edges[key].calls <= Cardinality(CallsIn(t, key))
          BY <1>1, <3>4 DEF EdgesOf
        <4>2. /\ new.edges[key].calls = topology.edges[key].calls + 1
              /\ new.edges[key].errors <= topology.edges[key].errors + 1
              /\ new.edges[key].errors \in Nat
          BY <1>10, <2>4, <3>4
        <4>3. topology.edges[key].errors \in Nat /\ topology.edges[key].calls \in Nat
          BY <1>11, <3>4
        <4>4. PICK e \in Nat, c \in Nat, k \in Nat, k2 \in Nat, e2 \in Nat :
                 /\ e = topology.edges[key].errors /\ c = topology.edges[key].calls
                 /\ k = Cardinality(CallsIn(t, key)) /\ k2 = Cardinality(CallsIn(t2, key))
                 /\ e2 = new.edges[key].errors
          BY <3>2, <4>2, <4>3, Zenon
        <4>5. e <= c /\ c <= k /\ k + 1 <= k2 /\ e2 <= e + 1 /\ new.edges[key].calls = c + 1
          BY <3>2, <4>1, <4>2, <4>4, Zenon
        <4>6. e2 <= c + 1 /\ c + 1 <= k2
          BY <4>5, OneMore, Zenon
        <4>7. /\ new.edges[key].errors <= new.edges[key].calls
              /\ new.edges[key].calls <= Cardinality(CallsIn(t2, key))
          BY <4>4, <4>5, <4>6, Zenon
        <4>. QED  BY <3>1, <3>3, <4>7
      <3>5. CASE key \notin DOMAIN topology.edges
        <4>1. new.edges[key].calls = 1 /\ new.edges[key].errors <= 1 /\ new.edges[key].errors \in Nat
          BY <1>10, <2>4, <3>5
        <4>. QED  BY <3>1, <3>2, <3>3, <4>1
      <3>. QED  BY <3>4, <3>5
    <2>. QED  BY <1>10, <2>2, <2>3, <2>4
  <1>13. ASSUME NEW key \in Service \X Service, NEW n \in CallsIn(t2, key),
                NEW p \in EventsIn(t2, "spans", key[1]),
                key[1] # key[2], p < n, t2[p].item.id = t2[n].item.parent,
                t2[n].at - t2[p].at < SpanTtl, at - t2[n].at <= EdgeTtl
         PROVE  key \in DOMAIN new.edges /\ new.edges[key].seen >= t2[n].at
    <2>1. n \in 1 .. l /\ p \in 1 .. Len(t) /\ p \in EventsIn(t, "spans", key[1])
      <3>1. n \in 1 .. l
        BY <1>5, <1>7 DEF CallsIn
      <3>2. p # l
        BY <1>13, <3>1
      <3>. QED  BY <1>5, <1>7, <3>1, <3>2
    <2>2. t2[p] = t[p] /\ p \in DOMAIN t
      BY <1>5, <2>1
    <2>3. CASE n # l
      <3>1. n \in CallsIn(t, key) /\ t2[n] = t[n] /\ n \in DOMAIN t
        BY <1>8, <2>3
      <3>2. key \in DOMAIN topology.edges /\ topology.edges[key].seen >= t[n].at
        BY <1>1, <1>13, <2>1, <2>2, <3>1 DEF EdgesOf
      <3>3. CASE ~ found \/ key # key0
        BY <1>3, <1>10, <3>1, <3>2, <3>3
      <3>4. CASE found /\ key = key0
        BY <1>6, <1>10, <3>1, <3>4
      <3>. QED  BY <3>3, <3>4
    <2>4. CASE n = l
      <3>1. t2[n].item = item /\ t2[n].at = at /\ item.service = key[2] /\ t[p].item.id = item.parent
        BY <1>5, <1>7, <1>13, <2>2, <2>4 DEF CallsIn, EventsIn
      <3>2. p \in SpansIn(t2) /\ t2[p].at + SpanTtl > at
        <4>1. t2[p].topic = "spans" /\ p \in DOMAIN t2
          BY DEF EventsIn
        <4>2. SpanTtl \in Nat /\ t[p].at \in Nat
          BY <1>6, <2>2, TopologyAssumption
        <4>. QED  BY <1>13, <2>2, <3>1, <4>1, <4>2 DEF SpansIn
      <3>3. item.parent \in DOMAIN index
        BY <1>2, <2>2, <3>1, <3>2 DEF IndexOf
      <3>4. PICK k \in DOMAIN t2 : LatestSpan(t2, k, item.parent)
                                   /\ index[item.parent].service = t2[k].item.service
        BY <1>2, <3>3 DEF IndexOf
      <3>5. t2[k].item \in Items /\ t2[k].item.id = t[p].item.id /\ t[p].item \in Items
        <4>1. t2[k] \in Events
          BY <1>6, ElementOfSeq
        <4>. QED  BY <1>6, <2>2, <3>1, <3>4, <4>1 DEF LatestSpan, Events
      <3>6. index[item.parent].service = t[p].item.service /\ t[p].item.service = key[1]
        BY <2>1, <3>4, <3>5, MessageAssumption DEF EventsIn
      <3>7. found /\ key0 = key
        BY <1>13, <3>1, <3>3, <3>6 DEF found, key0
      <3>. QED  BY <1>10, <3>1, <3>7
    <2>. QED  BY <2>3, <2>4
  <1>14. EdgesOf(new.edges, t2, at)
    <2>. HIDE DEF l
    <2>. QED  BY <1>12, <1>13 DEF EdgesOf
  <1>. QED  BY <1>2, <1>3, <1>14 DEF TopologyOf

\* An item of another topic is an event, and no span.
LEMMA OtherEvents ==
    ASSUME NEW topology, NEW t \in Seq(Events), NEW o \in Nat, NEW topic \in Topics, NEW item \in Items,
           NEW at \in Nat, ~ Raises(topic, item), topic # "spans", TopologyOf(topology, t, at)
    PROVE  TopologyOf(topology, TracedOne(t, o, topic, item, at), at)
  <1>. DEFINE t2 == TracedOne(t, o, topic, item, at)
              l == Len(t) + 1
  <1>1. /\ Len(t) \in Nat /\ DOMAIN t = 1 .. Len(t) /\ DOMAIN t2 = 1 .. l
        /\ \A n \in DOMAIN t : t2[n] = t[n]
        /\ t2[l].topic # "spans" /\ t2[l].at = at
        /\ \A s : EventsIn(t2, "spans", s) = EventsIn(t, "spans", s)
    <2>1. /\ Len(t) \in Nat /\ DOMAIN t = 1 .. Len(t) /\ DOMAIN t2 = 1 .. Len(t) + 1
          /\ \A n \in DOMAIN t : t2[n] = t[n]
          /\ t2[Len(t) + 1] = [o |-> o, topic |-> topic, item |-> item, at |-> at]
          /\ \A tp, s : EventsIn(t2, tp, s) =
                EventsIn(t, tp, s) \cup (IF tp = topic /\ s = item.service THEN {Len(t) + 1} ELSE {})
      BY AppendedEvents
    <2>. HIDE DEF t2, l
    <2>2. ASSUME NEW s
          PROVE  EventsIn(t2, "spans", s) = EventsIn(t, "spans", s)
      <3>1. EventsIn(t2, "spans", s) =
              EventsIn(t, "spans", s) \cup (IF "spans" = topic /\ s = item.service THEN {Len(t) + 1} ELSE {})
        BY <2>1
      <3>. QED  BY <3>1
    <2>. QED  BY <2>1, <2>2 DEF l
  <1>. HIDE DEF t2
  <1>2. \A n \in DOMAIN t : t[n].at \in Nat
    <2>1. \A n \in DOMAIN t : t[n] \in Events
      BY <1>1, ElementOfSeq
    <2>. QED  BY <2>1 DEF Events
  <1>3. TimesOf(t2, at)
    <2>1. ASSUME NEW i \in DOMAIN t2, NEW j \in DOMAIN t2, i <= j
          PROVE  t2[i].at <= t2[j].at /\ t2[i].at <= at
      <3>1. CASE j = l
        BY <1>1, <1>2, <2>1, <3>1 DEF TimesOf, TopologyOf
      <3>2. CASE j # l
        <4>1. i \in DOMAIN t /\ j \in DOMAIN t
          BY <1>1, <2>1, <3>2
        <4>. QED  BY <1>1, <2>1, <4>1 DEF TimesOf, TopologyOf
      <3>. QED  BY <3>1, <3>2
    <2>2. \A i \in DOMAIN t2 : i <= i
      BY <1>1
    <2>. QED  BY <2>1, <2>2 DEF TimesOf
  <1>4. SpansIn(t2) = SpansIn(t) /\ DOMAIN t \subseteq DOMAIN t2 /\ SpansIn(t) \subseteq DOMAIN t
    <2>1. \A n : n \in DOMAIN t2 <=> n \in DOMAIN t \/ n = l
      BY <1>1
    <2>. HIDE DEF l
    <2>. QED  BY <1>1, <2>1 DEF SpansIn
  <1>5. \A s : EventsIn(t, "spans", s) \subseteq DOMAIN t
    BY DEF EventsIn
  <1>. HIDE DEF l
  <1>6. \A n, i : LatestSpan(t, n, i) => LatestSpan(t2, n, i)
    BY <1>1, <1>4 DEF LatestSpan
  <1>7. IndexOf(topology.index, t2, at)
    <2>1. IndexOf(topology.index, t, at)
      BY DEF TopologyOf
    <2>2. \A i \in DOMAIN topology.index : \E n \in DOMAIN t2 :
              /\ LatestSpan(t2, n, i)
              /\ topology.index[i].service = t2[n].item.service
              /\ topology.index[i].expires = t2[n].at + SpanTtl
      BY <1>1, <1>4, <1>6, <2>1 DEF IndexOf
    <2>3. \A n \in SpansIn(t2) : n \in SpansIn(t) /\ t2[n] = t[n]
      BY <1>1, <1>4
    <2>4. \A n \in SpansIn(t2) : t2[n].at + SpanTtl > at => t2[n].item.id \in DOMAIN topology.index
      BY <2>1, <2>3 DEF IndexOf
    <2>5. \/ Cardinality(DOMAIN topology.index) <= MaxIndex
          \/ \A i \in DOMAIN topology.index : \E n \in SpansIn(t2) :
                t2[n].item.id = i /\ \A k \in SpansIn(t2) : t2[n].at + SpanTtl > t2[k].at
      BY <1>4, <2>1, <2>3 DEF IndexOf
    <2>. QED  BY <2>2, <2>4, <2>5 DEF IndexOf
  <1>8. \A key : CallsIn(t2, key) = CallsIn(t, key)
    BY <1>1, <1>5 DEF CallsIn
  <1>9. EdgesOf(topology.edges, t2, at)
    <2>1. EdgesOf(topology.edges, t, at)
      BY DEF TopologyOf
    <2>2. \A key : CallsIn(t, key) \subseteq DOMAIN t
      BY <1>5 DEF CallsIn
    <2>. QED  BY <1>1, <1>5, <1>8, <2>1, <2>2 DEF EdgesOf
  <1>. QED  BY <1>3, <1>7, <1>9 DEF TopologyOf, t2

\* One item of any topic leaves the call graph as the history tells it.
LEMMA TopologyKept ==
    ASSUME NEW m \in Stores, NEW t \in Seq(Events), NEW o \in Nat, NEW topic \in Topics, NEW item \in Items,
           NEW at \in Nat, TopologyOf(m.topology, t, at)
    PROVE  TopologyOf(Handled(m, topic, item, at).topology, TracedOne(t, o, topic, item, at), at)
  <1>1. CASE Raises(topic, item)
    BY <1>1 DEF Handled, TracedOne
  <1>2. CASE ~ Raises(topic, item) /\ topic = "spans"
    <2>1. PICK m2 : m2 = Handled(m, topic, item, at)
      OBVIOUS
    <2>2. m2.topology = Record(m.topology, item, at)
      BY <1>2, <2>1, HandledFields
    <2>3. m.topology \in [index : Indexes, edges : Edges]
      BY DEF Stores
    <2>. QED  BY <1>2, <2>1, <2>2, <2>3, EdgesKept
  <1>3. CASE ~ Raises(topic, item) /\ topic # "spans"
    <2>1. PICK m2 : m2 = Handled(m, topic, item, at)
      OBVIOUS
    <2>2. m2.topology = m.topology
      BY <1>3, <2>1, HandledFields
    <2>. QED  BY <1>3, <2>1, <2>2, OtherEvents
  <1>. QED  BY <1>1, <1>2, <1>3

-----------------------------------------------------------------------------
(* A message: its items one after the other.                               *)

\* What the stores keep of the history.
Kept(m, t, at) ==
    /\ m \in Stores /\ t \in Seq(Events)
    /\ RegistryOf(m, t) /\ DeploysOf(m, t) /\ MetricsOf(m, t) /\ LogsOf(m, t) /\ RingsFit(m)
    /\ TopologyOf(m.topology, t, at)

\* Handling a message's items keeps it.
LEMMA ItemsKeep ==
    ASSUME NEW m, NEW t, NEW o \in Nat, NEW topic \in Topics, NEW items \in Seq(Items), NEW at \in Nat,
           Kept(m, t, at)
    PROVE  Kept(Stored(m, topic, items, at), Traced(t, o, topic, items, at), at)
  <1>1. m \in Stores /\ t \in Seq(Events)
    BY DEF Kept
  <1>2. Len(items) \in Nat /\ \A k \in 1 .. Len(items) : items[k] \in Items
    BY LenProperties, ElementOfSeq
  <1>3. PICK f \in [0 .. Len(items) -> Stores] :
           /\ f[0] = m /\ f[Len(items)] = Stored(m, topic, items, at)
           /\ StoresSteps(f, topic, items, at)
    BY <1>1, StoredInSteps
  <1>4. PICK g \in [0 .. Len(items) -> Seq(Events)] :
           /\ g[0] = t /\ g[Len(items)] = Traced(t, o, topic, items, at)
           /\ TraceSteps(g, o, topic, items, at)
    BY <1>1, TracedInSteps
  <1>. DEFINE T == {k \in 0 .. Len(items) : Kept(f[k], g[k], at)}
  <1>5. 0 \in T
    BY <1>2, <1>3, <1>4
  <1>6. ASSUME NEW k \in 1 .. Len(items), k - 1 \in T
        PROVE  k \in T
    <2>1. k - 1 \in 0 .. Len(items) /\ k \in 0 .. Len(items)
      BY <1>2
    <2>2. PICK m1 \in Stores, t1 \in Seq(Events) : m1 = f[k - 1] /\ t1 = g[k - 1]
      BY <1>3, <1>4, <2>1
    <2>3. Kept(m1, t1, at)
      BY <1>6, <2>2
    <2>4. PICK item \in Items : item = items[k]
      BY <1>2
    <2>5. f[k] = Handled(m1, topic, item, at) /\ g[k] = TracedOne(t1, o, topic, item, at)
      BY <1>3, <1>4, <2>2, <2>4 DEF StoresSteps, TraceSteps
    <2>6. f[k] \in Stores /\ g[k] \in Seq(Events)
      BY <1>3, <1>4, <2>1
    <2>7. RegistryOf(f[k], g[k])
      BY <2>2, <2>3, <2>4, <2>5, RegistryKept DEF Kept
    <2>8. DeploysOf(f[k], g[k]) /\ MetricsOf(f[k], g[k]) /\ LogsOf(f[k], g[k]) /\ RingsFit(f[k])
      BY <2>2, <2>3, <2>4, <2>5, RingsKept DEF Kept
    <2>9. TopologyOf(f[k].topology, g[k], at)
      BY <2>2, <2>3, <2>4, <2>5, TopologyKept DEF Kept
    <2>. QED  BY <2>1, <2>6, <2>7, <2>8, <2>9 DEF Kept
  <1>. HIDE DEF T
  <1>7. \A k \in 0 .. Len(items) : k \in T
    BY <1>2, <1>5, <1>6, UpTo
  <1>. QED  BY <1>2, <1>3, <1>4, <1>7 DEF T

-----------------------------------------------------------------------------
(* The history after a message.                                            *)

\* t2 is t with events of the message, one for each item its handler does not
\* refuse.
Extends(t2, t, o, topic, items, at) ==
    /\ Len(t) <= Len(t2)
    /\ \A n \in 1 .. Len(t) : t2[n] = t[n]
    /\ \A n \in Len(t) + 1 .. Len(t2) :
          /\ t2[n].o = o /\ t2[n].topic = topic /\ t2[n].at = at
          /\ t2[n].item \in ToSet(items) /\ ~ Raises(topic, t2[n].item)
    /\ \A p \in 1 .. Len(items) :
          ~ Raises(topic, items[p]) => \E n \in Len(t) + 1 .. Len(t2) : t2[n].item = items[p]

\* The history after a message: the old one, then its items in their order.
LEMMA TracedExtends ==
    ASSUME NEW t \in Seq(Events), NEW o \in Nat, NEW topic \in Topics, NEW items \in Seq(Items), NEW at \in Nat
    PROVE  Extends(Traced(t, o, topic, items, at), t, o, topic, items, at)
  <1>1. /\ Len(items) \in Nat /\ Len(t) \in Nat /\ DOMAIN items = 1 .. Len(items)
        /\ \A k \in 1 .. Len(items) : items[k] \in Items /\ items[k] \in ToSet(items)
    BY LenProperties, ElementOfSeq DEF ToSet
  <1>2. PICK g \in [0 .. Len(items) -> Seq(Events)] :
           /\ g[0] = t /\ g[Len(items)] = Traced(t, o, topic, items, at)
           /\ TraceSteps(g, o, topic, items, at)
    BY TracedInSteps
  <1>. DEFINE Until(t2, k) ==
                 /\ Len(t) <= Len(t2)
                 /\ \A n \in 1 .. Len(t) : t2[n] = t[n]
                 /\ \A n \in Len(t) + 1 .. Len(t2) :
                       /\ t2[n].o = o /\ t2[n].topic = topic /\ t2[n].at = at
                       /\ t2[n].item \in ToSet(items) /\ ~ Raises(topic, t2[n].item)
                 /\ \A p \in 1 .. k :
                       ~ Raises(topic, items[p]) => \E n \in Len(t) + 1 .. Len(t2) : t2[n].item = items[p]
              T == {k \in 0 .. Len(items) : Until(g[k], k)}
  <1>3. 0 \in T
    BY <1>1, <1>2
  <1>4. ASSUME NEW k \in 1 .. Len(items), k - 1 \in T
        PROVE  k \in T
    <2>1. k - 1 \in 0 .. Len(items) /\ k \in 0 .. Len(items)
      BY <1>1
    <2>2. PICK t1 \in Seq(Events) : t1 = g[k - 1]
      BY <1>2, <2>1
    <2>3. PICK item \in Items : item = items[k] /\ item \in ToSet(items)
      BY <1>1
    <2>4. PICK t2 : t2 = g[k]
      OBVIOUS
    <2>5. t2 = TracedOne(t1, o, topic, item, at)
      BY <1>2, <2>2, <2>3, <2>4 DEF TraceSteps
    <2>6. Until(t1, k - 1)
      BY <1>4, <2>2
    <2>7. \A p \in 1 .. k : p \in 1 .. k - 1 \/ p = k
      BY <1>1
    <2>8. CASE Raises(topic, item)
      <3>1. t2 = t1
        BY <2>5, <2>8 DEF TracedOne
      <3>2. Until(t2, k)
        BY <2>3, <2>6, <2>7, <2>8, <3>1
      <3>. QED  BY <2>1, <2>4, <3>2
    <2>9. CASE ~ Raises(topic, item)
      <3>1. /\ t2 \in Seq(Events) /\ Len(t1) \in Nat
            /\ DOMAIN t1 = 1 .. Len(t1) /\ DOMAIN t2 = 1 .. Len(t1) + 1
            /\ \A n \in DOMAIN t1 : t2[n] = t1[n]
            /\ t2[Len(t1) + 1] = [o |-> o, topic |-> topic, item |-> item, at |-> at]
        BY <2>2, <2>3, <2>5, <2>9, AppendedEvents, SMTT(30)
      <3>2. Len(t2) = Len(t1) + 1
        BY <3>1, LenProperties
      <3>3. Len(t) <= Len(t1)
        BY <2>6
      <3>4. \A n \in 1 .. Len(t) : t2[n] = t[n]
        BY <1>1, <2>6, <3>1, <3>3
      <3>5. \A n \in Len(t) + 1 .. Len(t2) : n \in Len(t) + 1 .. Len(t1) \/ n = Len(t1) + 1
        BY <1>1, <3>1, <3>2
      <3>6. \A n \in Len(t) + 1 .. Len(t1) : t2[n] = t1[n] /\ n \in Len(t) + 1 .. Len(t2)
        BY <1>1, <3>1, <3>2
      <3>7. \A n \in Len(t) + 1 .. Len(t2) :
               /\ t2[n].o = o /\ t2[n].topic = topic /\ t2[n].at = at
               /\ t2[n].item \in ToSet(items) /\ ~ Raises(topic, t2[n].item)
        BY <2>3, <2>6, <2>9, <3>1, <3>5, <3>6, SMTT(30)
      <3>8. Len(t1) + 1 \in Len(t) + 1 .. Len(t2) /\ t2[Len(t1) + 1].item = items[k]
        BY <1>1, <2>3, <3>1, <3>2, <3>3
      <3>9. \A p \in 1 .. k :
               ~ Raises(topic, items[p]) => \E n \in Len(t) + 1 .. Len(t2) : t2[n].item = items[p]
        <4>. SUFFICES ASSUME NEW p \in 1 .. k, ~ Raises(topic, items[p])
                      PROVE  \E n \in Len(t) + 1 .. Len(t2) : t2[n].item = items[p]
          OBVIOUS
        <4>1. CASE p = k
          BY <3>8, <4>1
        <4>2. CASE p \in 1 .. k - 1
          <5>1. PICK n \in Len(t) + 1 .. Len(t1) : t1[n].item = items[p]
            BY <2>6, <4>2
          <5>. QED  BY <3>6, <5>1
        <4>. QED  BY <2>7, <4>1, <4>2
      <3>10. Len(t) <= Len(t2)
        BY <1>1, <3>1, <3>2, <3>3
      <3>. QED  BY <2>1, <2>4, <3>4, <3>7, <3>9, <3>10
    <2>. QED  BY <2>8, <2>9
  <1>. HIDE DEF T
  <1>5. \A k \in 0 .. Len(items) : k \in T
    BY <1>1, <1>3, <1>4, UpTo
  <1>6. Len(items) \in T
    BY <1>1, <1>5
  <1>. QED  BY <1>2, <1>6 DEF T, Extends

-----------------------------------------------------------------------------
(* Readers that select.                                                    *)

\* p is the only position of an id in a sequence of items.
OnlyAt(items, p, id) ==
    /\ p \in 1 .. Len(items) /\ items[p].id = id
    /\ \A q \in 1 .. Len(items) : items[q].id = id => q = p

\* How often a span was counted after the items of a message.
LEMMA CountedAfter ==
    ASSUME NEW m \in Stores, NEW topic \in Topics, NEW items \in Seq(Items), NEW at \in Nat, NEW id \in Ids
    PROVE  /\ (topic # "spans" \/ \A p \in 1 .. Len(items) : items[p].id # id) =>
                 Stored(m, topic, items, at).counted[id] = m.counted[id]
           /\ topic = "spans" => \A p : OnlyAt(items, p, id) /\ ~ Raises(topic, items[p]) =>
                 Stored(m, topic, items, at).counted[id] = m.counted[id] + 1
  <1>1. Len(items) \in Nat /\ \A k \in 1 .. Len(items) : items[k] \in Items
    BY LenProperties, ElementOfSeq
  <1>2. PICK f \in [0 .. Len(items) -> Stores] :
           /\ f[0] = m /\ f[Len(items)] = Stored(m, topic, items, at)
           /\ StoresSteps(f, topic, items, at)
    BY StoredInSteps
  \* One item.
  <1>3. ASSUME NEW k \in 1 .. Len(items)
        PROVE  /\ topic # "spans" \/ items[k].id # id => f[k].counted[id] = f[k - 1].counted[id]
               /\ topic = "spans" /\ items[k].id = id /\ ~ Raises(topic, items[k]) =>
                     f[k].counted[id] = f[k - 1].counted[id] + 1
    <2>1. k - 1 \in 0 .. Len(items)
      BY <1>1
    <2>2. PICK m1 \in Stores : m1 = f[k - 1]
      BY <1>2, <2>1
    <2>3. PICK item \in Items : item = items[k]
      BY <1>1
    <2>4. PICK m2 : m2 = f[k]
      OBVIOUS
    <2>5. m2 = Handled(m1, topic, item, at)
      BY <1>2, <2>2, <2>3, <2>4 DEF StoresSteps
    <2>6. CASE Raises(topic, item)
      <3>1. m2 = m1
        BY <2>5, <2>6 DEF Handled
      <3>. QED  BY <2>2, <2>3, <2>4, <2>6, <3>1
    <2>7. CASE ~ Raises(topic, item)
      <3>1. /\ topic = "spans" =>
                  m2.counted[id] = IF id = item.id THEN m1.counted[id] + 1 ELSE m1.counted[id]
            /\ topic # "spans" => m2.counted = m1.counted
        BY <2>2, <2>3, <2>5, <2>7, HandledFields
      <3>. QED  BY <2>2, <2>3, <2>4, <3>1
    <2>. QED  BY <2>6, <2>7
  <1>4. ASSUME topic # "spans" \/ \A p \in 1 .. Len(items) : items[p].id # id
        PROVE  Stored(m, topic, items, at).counted[id] = m.counted[id]
    <2>. DEFINE T == {k \in 0 .. Len(items) : f[k].counted[id] = m.counted[id]}
    <2>1. 0 \in T
      BY <1>1, <1>2
    <2>2. \A k \in 1 .. Len(items) : k - 1 \in T => k \in T
      BY <1>1, <1>3, <1>4
    <2>. HIDE DEF T
    <2>3. Len(items) \in T
      <3>1. \A k \in 0 .. Len(items) : k \in T
        BY <1>1, <2>1, <2>2, UpTo
      <3>. QED  BY <1>1, <3>1
    <2>. QED  BY <1>2, <2>3 DEF T
  <1>5. ASSUME topic = "spans", NEW p, OnlyAt(items, p, id), ~ Raises(topic, items[p])
        PROVE  Stored(m, topic, items, at).counted[id] = m.counted[id] + 1
    <2>0. /\ p \in 1 .. Len(items) /\ items[p].id = id
          /\ \A q \in 1 .. Len(items) : items[q].id = id => q = p
      BY <1>5 DEF OnlyAt
    <2>. DEFINE T == {k \in 0 .. Len(items) :
                          f[k].counted[id] = IF k >= p THEN m.counted[id] + 1 ELSE m.counted[id]}
    <2>1. 0 \in T
      BY <1>1, <1>2, <2>0
    <2>2. ASSUME NEW k \in 1 .. Len(items), k - 1 \in T
          PROVE  k \in T
      <3>1. k \in Nat /\ p \in Nat /\ k \in 0 .. Len(items)
        BY <1>1, <2>0
      <3>2. f[k - 1].counted[id] = IF k - 1 >= p THEN m.counted[id] + 1 ELSE m.counted[id]
        BY <2>2
      <3>3. CASE k = p
        <4>1. f[k].counted[id] = f[k - 1].counted[id] + 1
          BY <1>3, <1>5, <2>0, <3>3
        <4>2. ~ (k - 1 >= p) /\ k >= p
          BY <3>1, <3>3
        <4>. QED  BY <3>1, <3>2, <4>1, <4>2
      <3>4. CASE k # p
        <4>1. f[k].counted[id] = f[k - 1].counted[id]
          BY <1>3, <2>0, <3>4
        <4>2. k - 1 >= p <=> k >= p
          BY <3>1, <3>4
        <4>. QED  BY <3>1, <3>2, <4>1, <4>2
      <3>. QED  BY <3>3, <3>4
    <2>. HIDE DEF T
    <2>3. Len(items) \in T
      <3>1. \A k \in 0 .. Len(items) : k \in T
        BY <1>1, <2>1, <2>2, UpTo
      <3>. QED  BY <1>1, <3>1
    <2>4. Len(items) >= p
      BY <1>1, <2>0
    <2>. QED  BY <1>2, <2>3, <2>4 DEF T
  <1>. QED  BY <1>4, <1>5

-----------------------------------------------------------------------------
(* What is decoded of a message.                                           *)

\* What is decoded of a message is a beginning of its items.
LEMMA DecodedTypes ==
    ASSUME NEW m \in Message
    PROVE  /\ m.topic \in Topics /\ m.items \in Seq(Items) /\ Decoded(m) \in Seq(Items)
           /\ \E c \in 0 .. Len(m.items) :
                 Len(Decoded(m)) = c /\ \A i \in 1 .. c : Decoded(m)[i] = m.items[i]
           /\ ToSet(Decoded(m)) \subseteq ToSet(m.items)
  <1>1. m.topic \in Topics /\ m.items \in Seq(Items)
    BY MessageAssumption DEF Topics
  <1>2. PICK c \in 0 .. Len(m.items) :
           Len(Decoded(m)) = c /\ \A i \in 1 .. c : Decoded(m)[i] = m.items[i]
    BY <1>1, HandlersSeeAValidPrefix
  <1>3. Len(m.items) \in Nat /\ \A i \in 1 .. Len(m.items) : m.items[i] \in Items
    BY <1>1, LenProperties, ElementOfSeq
  <1>4. Decoded(m) \in Seq(Items)
    <2>1. \A k \in 0 .. Len(m.items) : SubSeq(m.items, 1, k) \in Seq(Items)
      <3>. SUFFICES ASSUME NEW k \in 0 .. Len(m.items)
                    PROVE  SubSeq(m.items, 1, k) \in Seq(Items)
        OBVIOUS
      <3>1. \A i \in 1 .. k : i \in 1 .. Len(m.items)
        BY <1>3
      <3>. QED  BY <1>1, <1>3, <3>1
    <2>. DEFINE first == CHOOSE i \in Malformed(m) : \A j \in Malformed(m) : i <= j
    <2>2. Malformed(m) # {} => first - 1 \in 0 .. Len(m.items)
      <3>. SUFFICES ASSUME Malformed(m) # {}
                    PROVE  first - 1 \in 0 .. Len(m.items)
        OBVIOUS
      <3>1. Malformed(m) \subseteq 1 .. Len(m.items)
        BY <1>1 DEF Malformed
      <3>2. \E i \in Malformed(m) : \A j \in Malformed(m) : i <= j
        <4>1. Malformed(m) \subseteq Nat
          BY <3>1
        <4>. QED  BY <4>1, FirstPosition
      <3>3. first \in Malformed(m)
        BY <3>2
      <3>. HIDE DEF first
      <3>. QED  BY <1>3, <3>1, <3>3
    <2>3. \/ Decoded(m) = << >>
          \/ Decoded(m) = m.items
          \/ Malformed(m) = {} /\ Decoded(m) = SubSeq(m.items, 1, Len(m.items))
          \/ Malformed(m) # {} /\ Decoded(m) = SubSeq(m.items, 1, first - 1)
      BY DEF Decoded
    <2>. HIDE DEF first
    <2>4. Len(m.items) \in 0 .. Len(m.items)
      BY <1>3
    <2>5. CASE Decoded(m) = << >>
      <3>1. << >> \in Seq(Items)
        OBVIOUS
      <3>. QED  BY <2>5, <3>1
    <2>6. CASE Decoded(m) = m.items
      BY <1>1, <2>6
    <2>7. CASE Decoded(m) = SubSeq(m.items, 1, Len(m.items))
      <3>1. SubSeq(m.items, 1, Len(m.items)) \in Seq(Items)
        BY <2>1, <2>4
      <3>. QED  BY <2>7, <3>1
    <2>8. CASE Malformed(m) # {} /\ Decoded(m) = SubSeq(m.items, 1, first - 1)
      <3>1. SubSeq(m.items, 1, first - 1) \in Seq(Items)
        BY <2>1, <2>2, <2>8
      <3>. QED  BY <2>8, <3>1
    <2>. QED  BY <2>3, <2>5, <2>6, <2>7, <2>8
  <1>5. ToSet(Decoded(m)) \subseteq ToSet(m.items)
    <2>1. DOMAIN Decoded(m) = 1 .. c /\ DOMAIN m.items = 1 .. Len(m.items)
      BY <1>1, <1>2, <1>4, LenProperties
    <2>. QED  BY <1>2, <1>3, <2>1 DEF ToSet
  <1>. QED  BY <1>1, <1>2, <1>4, <1>5

-----------------------------------------------------------------------------
(* Steps that handle no item.                                              *)

\* A process that has just started.
LEMMA NewKept ==
    ASSUME NEW at \in Nat
    PROVE  Kept(NewStores, << >>, at)
  <1>1. << >> \in Seq(Events) /\ DOMAIN << >> = {} /\ \A tp, s : EventsIn(<< >>, tp, s) = {}
    BY DEF EventsIn
  <1>2. << >> \in Metadata /\ << >> \in Indexes /\ << >> \in Edges /\ DOMAIN << >> = {}
    <2>1. << >> \in [{} -> Values] /\ << >> \in [{} -> [service : Service, expires : Nat]]
          /\ << >> \in [{} -> [calls : Nat, errors : Nat, seen : Nat]]
      OBVIOUS
    <2>2. IsFiniteSet({}) /\ {} \in SUBSET Ids /\ {} \in SUBSET Attributes /\ {} \in SUBSET (Service \X Service)
      BY FS_EmptySet
    <2>. QED  BY <2>1, <2>2 DEF Metadata, Indexes, Edges
  <1>3. << >> \in Seq(Rows) /\ << >> \in Seq(Points) /\ 0 \in Nat /\ Len(<< >>) = 0
    OBVIOUS
  <1>4. NewStores \in Stores
    BY <1>2, <1>3 DEF NewStores, NoSpans, Stores
  <1>5. RegistryOf(NewStores, << >>)
    BY <1>1, <1>2 DEF RegistryOf, NewStores
  <1>6. DeploysOf(NewStores, << >>) /\ MetricsOf(NewStores, << >>)
    BY <1>1 DEF DeploysOf, MetricsOf, LastIs
  <1>7. LogsOf(NewStores, << >>)
    <2>1. HeldLogs(<< >>, << >>, << >>)
      BY DEF HeldLogs, LogsIn
    <2>. QED  BY <1>1, <2>1 DEF LogsOf, NewStores
  <1>8. RingsFit(NewStores)
    BY <1>3, RingAssumption DEF RingsFit, NewStores
  <1>9. TopologyOf(NewStores.topology, << >>, at)
    <2>1. NewStores.topology.index = << >> /\ NewStores.topology.edges = << >>
      BY DEF NewStores, NoSpans
    <2>2. TimesOf(<< >>, at)
      BY <1>1 DEF TimesOf
    <2>3. SpansIn(<< >>) = {} /\ Cardinality({}) = 0
      BY <1>1, FS_EmptySet DEF SpansIn
    <2>4. IndexOf(<< >>, << >>, at)
      BY <1>2, <2>3, TopologyAssumption DEF IndexOf
    <2>5. \A key : CallsIn(<< >>, key) = {}
      BY <1>1 DEF CallsIn
    <2>6. EdgesOf(<< >>, << >>, at)
      BY <1>2, <2>5 DEF EdgesOf
    <2>. QED  BY <2>1, <2>2, <2>4, <2>6 DEF TopologyOf
  <1>. QED  BY <1>1, <1>4, <1>5, <1>6, <1>7, <1>8, <1>9 DEF Kept

\* Time passes.
LEMMA LaterKept ==
    ASSUME NEW m, NEW t, NEW at \in Nat, Kept(m, t, at)
    PROVE  Kept(m, t, at + 1)
  <1>1. m \in Stores /\ t \in Seq(Events) /\ TopologyOf(m.topology, t, at)
    BY DEF Kept
  <1>2. \A n \in DOMAIN t : t[n].at \in Nat
    <2>1. \A n \in DOMAIN t : t[n] \in Events
      BY <1>1, ElementOfSeq, LenProperties
    <2>. QED  BY <2>1 DEF Events
  <1>3. TimesOf(t, at + 1)
    BY <1>1, <1>2 DEF TopologyOf, TimesOf
  <1>4. SpanTtl \in Nat /\ EdgeTtl \in Nat
    BY TopologyAssumption
  <1>5. IndexOf(m.topology.index, t, at + 1)
    <2>1. \A n \in SpansIn(t) : t[n].at + SpanTtl > at + 1 => t[n].at + SpanTtl > at
      BY <1>2, <1>4 DEF SpansIn
    <2>. QED  BY <1>1, <2>1 DEF TopologyOf, IndexOf
  <1>6. EdgesOf(m.topology.edges, t, at + 1)
    <2>. DEFINE edges == m.topology.edges
    <2>1. EdgesOf(edges, t, at)
      BY <1>1 DEF TopologyOf
    <2>. HIDE DEF edges
    <2>4. PICK later : later = at + 1
      OBVIOUS
    <2>5. \A key \in Service \X Service : \A n \in CallsIn(t, key), p \in EventsIn(t, "spans", key[1]) :
             /\ key[1] # key[2] /\ p < n /\ t[p].item.id = t[n].item.parent
             /\ t[n].at - t[p].at < SpanTtl /\ later - t[n].at <= EdgeTtl
             => key \in DOMAIN edges /\ edges[key].seen >= t[n].at
      <3>. SUFFICES ASSUME NEW key \in Service \X Service, NEW n \in CallsIn(t, key),
                           NEW p \in EventsIn(t, "spans", key[1]),
                           key[1] # key[2] /\ p < n /\ t[p].item.id = t[n].item.parent,
                           t[n].at - t[p].at < SpanTtl /\ later - t[n].at <= EdgeTtl
                    PROVE  key \in DOMAIN edges /\ edges[key].seen >= t[n].at
        BY Zenon
      <3>1. at - t[n].at <= EdgeTtl
        <4>1. n \in 1 .. Len(t)
          BY <1>1, CallsAreEvents
        <4>2. t[n].at \in Nat
          BY <1>1, <1>2, <4>1, LenProperties
        <4>. QED  BY <1>4, <2>4, <4>2
      <3>. QED  BY <2>1, <3>1 DEF EdgesOf
    <2>6. EdgesOf(edges, t, later)
      BY <2>1, <2>5 DEF EdgesOf
    <2>. QED  BY <2>4, <2>6 DEF edges
  <1>. QED  BY <1>3, <1>5, <1>6 DEF Kept, TopologyOf

\* A reader collects the stale edges.
LEMMA CollectedKept ==
    ASSUME NEW m, NEW t, NEW at \in Nat, Kept(m, t, at)
    PROVE  Kept([m EXCEPT !.topology = Collected(m.topology, at)], t, at)
  <1>. DEFINE edges == m.topology.edges
              left == Collected(m.topology, at)
              m2 == [m EXCEPT !.topology = left]
  <1>1. m \in Stores /\ t \in Seq(Events) /\ TopologyOf(m.topology, t, at)
    BY DEF Kept
  <1>2. m.topology \in [index : Indexes, edges : Edges] /\ edges \in Edges
    BY <1>1 DEF Stores
  <1>3. /\ left.index = m.topology.index
        /\ left = [index |-> m.topology.index, edges |-> left.edges]
        /\ DOMAIN left.edges = {k \in DOMAIN edges : at - edges[k].seen <= EdgeTtl}
        /\ \A k \in DOMAIN left.edges : left.edges[k] = edges[k]
        /\ left.edges = [k \in DOMAIN left.edges |-> left.edges[k]]
    BY <1>2 DEF Collected, Keep
  <1>. HIDE DEF left, edges
  <1>4. left.edges \in Edges
    <2>1. PICK D \in SUBSET (Service \X Service) : edges \in [D -> [calls : Nat, errors : Nat, seen : Nat]]
      BY <1>2 DEF Edges
    <2>2. DOMAIN left.edges \in SUBSET (Service \X Service)
      BY <1>3, <2>1
    <2>3. left.edges \in [DOMAIN left.edges -> [calls : Nat, errors : Nat, seen : Nat]]
      BY <1>3, <2>1
    <2>. QED  BY <2>2, <2>3 DEF Edges
  <1>5. left \in [index : Indexes, edges : Edges]
    BY <1>2, <1>3, <1>4
  <1>6. /\ m2 \in Stores /\ m2.topology = left /\ m2.registry = m.registry /\ m2.all = m.all
        /\ m2.by = m.by /\ m2.metrics = m.metrics /\ m2.logs = m.logs
    BY <1>1, <1>5 DEF Stores
  <1>. HIDE DEF m2
  <1>7. RegistryOf(m2, t) /\ DeploysOf(m2, t) /\ MetricsOf(m2, t) /\ LogsOf(m2, t) /\ RingsFit(m2)
    BY <1>6 DEF Kept, RegistryOf, DeploysOf, MetricsOf, LogsOf, RingsFit
  <1>8. TopologyOf(left, t, at)
    <2>1. EdgesOf(edges, t, at) /\ TimesOf(t, at) /\ IndexOf(left.index, t, at)
      BY <1>1, <1>3 DEF TopologyOf, edges
    <2>2. \A key \in DOMAIN left.edges : key \in DOMAIN edges /\ left.edges[key] = edges[key]
      BY <1>3
    <2>3. ASSUME NEW key \in Service \X Service, NEW n \in CallsIn(t, key),
                 key \in DOMAIN edges, edges[key].seen >= t[n].at, at - t[n].at <= EdgeTtl
          PROVE  key \in DOMAIN left.edges /\ left.edges[key].seen >= t[n].at
      <3>1. t[n].at \in Nat
        <4>1. n \in 1 .. Len(t)
          BY <1>1, CallsAreEvents
        <4>2. t[n] \in Events
          BY <1>1, <4>1, ElementOfSeq
        <4>. QED  BY <4>2 DEF Events
      <3>2. edges[key].seen \in Nat /\ EdgeTtl \in Nat
        BY <1>2, <2>3, TopologyAssumption DEF Edges
      <3>. QED  BY <1>3, <2>3, <3>1, <3>2
    <2>4. EdgesOf(left.edges, t, at)
      BY <2>1, <2>2, <2>3 DEF EdgesOf
    <2>. QED  BY <2>1, <2>4 DEF TopologyOf
  <1>. QED  BY <1>1, <1>6, <1>7, <1>8 DEF Kept, m2, left

-----------------------------------------------------------------------------
(* The states of ingestion: the consumer's invariant and what the stores   *)
(* keep, with a process that is not running keeping nothing.               *)

\* The inductive invariant of ingestion.
IngestTyped ==
    /\ IInv
    /\ content \in Seq(Message) /\ Len(content) = Len(log)
    /\ Kept(mem, trace, now)
    /\ phase = "stopped" => trace = << >>
    /\ chroma \in [Ids -> Nat] /\ unwritten \subseteq Ids
    /\ now \in 0 .. MaxNow /\ posts \in 0 .. MaxPosts

\* The logs of a message that reach their store.
LoggedOf(topic, items) == {id \in Ids : topic = "logs" /\ \E j \in ToSet(items) : ~ Raises(topic, j) /\ j.id = id}

\* What handling the items of a message changes.
Handles(o, topic, items) ==
    /\ mem' = Stored(mem, topic, items, now)
    /\ Extends(trace', trace, o, topic, items, now)
    /\ Kept(mem', trace', now)
    /\ chroma' \in [Ids -> Nat]
    /\ \A l \in Ids : /\ chroma'[l] = chroma[l] \/ (l \in LoggedOf(topic, items) /\ chroma'[l] = chroma[l] + 1)
                      /\ l \in LoggedOf(topic, items) => l \in unwritten' \/ chroma'[l] = chroma[l] + 1
    /\ unwritten \subseteq unwritten' /\ unwritten' \subseteq Ids

\* What handling a message does to the stores, the collection and the history.
LEMMA HandleProperties ==
    ASSUME IngestTyped, NEW o \in Nat, NEW topic \in Topics, NEW items \in Seq(Items),
           Handle(o, topic, items)
    PROVE  Handles(o, topic, items)
  <1>1. /\ Kept(mem, trace, now) /\ now \in Nat /\ trace \in Seq(Events)
        /\ chroma \in [Ids -> Nat] /\ unwritten \subseteq Ids
    BY RingAssumption DEF IngestTyped, Kept
  <1>2. mem' = Stored(mem, topic, items, now) /\ trace' = Traced(trace, o, topic, items, now)
    BY DEF Handle
  <1>3. Kept(mem', trace', now)
    BY <1>1, <1>2, ItemsKeep
  <1>4. Extends(trace', trace, o, topic, items, now)
    BY <1>1, <1>2, TracedExtends
  <1>. DEFINE logged == IF topic = "logs" THEN {i.id : i \in {j \in ToSet(items) : ~ Raises(topic, j)}} ELSE {}
  <1>5. PICK written \in SUBSET logged :
           /\ chroma' = [l \in Ids |-> IF l \in written THEN chroma[l] + 1 ELSE chroma[l]]
           /\ unwritten' = unwritten \cup (logged \ written)
    BY DEF Handle
  <1>6. logged = LoggedOf(topic, items)
    <2>1. \A j \in ToSet(items) : j.id \in Ids
      <3>1. \A j \in ToSet(items) : j \in Items
        BY ElementOfSeq, LenProperties DEF ToSet
      <3>. QED  BY <3>1, ItemTypes
    <2>. QED  BY <2>1 DEF LoggedOf
  <1>7. LoggedOf(topic, items) \subseteq Ids
    BY DEF LoggedOf
  <1>. HIDE DEF logged
  <1>8. chroma' \in [Ids -> Nat]
    BY <1>1, <1>5
  <1>9. \A l \in Ids : /\ chroma'[l] = chroma[l] \/ (l \in LoggedOf(topic, items) /\ chroma'[l] = chroma[l] + 1)
                       /\ l \in LoggedOf(topic, items) => l \in unwritten' \/ chroma'[l] = chroma[l] + 1
    BY <1>1, <1>5, <1>6
  <1>10. unwritten \subseteq unwritten' /\ unwritten' \subseteq Ids
    BY <1>1, <1>5, <1>6, <1>7
  <1>. QED  BY <1>2, <1>3, <1>4, <1>8, <1>9, <1>10 DEF Handles

\* What the consumer hands over next.
LEMMA DispatchProperties ==
    ASSUME IngestTyped, IngestDispatch
    PROVE  /\ position' = position + 1 /\ position \in Nat /\ position' \in Offsets
           /\ phase = "polling" /\ phase' # "stopped" /\ dispatched' = dispatched \cup {position'}
           /\ content[position'] \in Message /\ position' \in 1 .. Len(content)
           /\ UNCHANGED <<content, now, posts, log, committed, stops>>
           /\ Handles(position + 1, content[position + 1].topic, Decoded(content[position + 1]))
  <1>1. /\ position' = position + 1 /\ position < Len(log) /\ phase = "polling" /\ phase' # "stopped"
        /\ dispatched' = dispatched \cup {position + 1}
        /\ UNCHANGED <<content, now, posts, log, committed, stops>>
        /\ Handle(position + 1, content[position + 1].topic, Decoded(content[position + 1]))
    BY DEF IngestDispatch, Dispatch, Advance
  <1>2. position \in Nat /\ Len(log) \in Nat /\ Len(content) = Len(log) /\ content \in Seq(Message)
    BY DEF IngestTyped, IInv, TypeOK
  <1>3. position + 1 \in 1 .. Len(content)
    BY <1>1, <1>2
  <1>4. content[position + 1] \in Message
    BY <1>2, <1>3, ElementOfSeq
  <1>. DEFINE m == content[position + 1]
  <1>5. m.topic \in Topics /\ Decoded(m) \in Seq(Items)
    BY <1>4, DecodedTypes
  <1>6. Handles(position + 1, m.topic, Decoded(m))
    <2>. HIDE DEF m
    <2>1. Handle(position + 1, m.topic, Decoded(m))
      BY <1>1 DEF m
    <2>. QED  BY <1>2, <1>5, <2>1, HandleProperties
  <1>. QED  BY <1>1, <1>2, <1>3, <1>4, <1>6 DEF Offsets

\* What a POST does.
LEMMA PostProperties ==
    ASSUME IngestTyped, PostBody
    PROVE  \E b \in Body :
              /\ b.topic \in Topics /\ b.items \in Seq(Items)
              /\ phase # "stopped" /\ posts' = posts + 1 /\ posts' \in 0 .. MaxPosts /\ posts \in Nat
              /\ UNCHANGED <<content, now, vars>>
              /\ Handles(0, b.topic, b.items)
  <1>1. PICK b \in Body : Handle(0, b.topic, b.items)
    BY DEF PostBody
  <1>2. b.topic \in Topics /\ b.items \in Seq(Items)
    BY MessageAssumption DEF Topics
  <1>3. Handles(0, b.topic, b.items)
    BY <1>1, <1>2, HandleProperties
  <1>4. /\ phase # "stopped" /\ posts' = posts + 1 /\ posts' \in 0 .. MaxPosts /\ posts \in Nat
        /\ UNCHANGED <<content, now, vars>>
    BY RingAssumption DEF PostBody, IngestTyped
  <1>. QED  BY <1>2, <1>3, <1>4

\* A record javi-collector publishes.
LEMMA PublishProperties ==
    ASSUME IngestTyped, IngestPublish
    PROVE  /\ content' \in Seq(Message) /\ Len(content') = Len(content) + 1 /\ Len(log') = Len(log) + 1
           /\ Len(content) \in Nat
           /\ \A o \in 1 .. Len(content) : content'[o] = content[o]
           /\ UNCHANGED <<mem, chroma, unwritten, trace, now, posts>>
           /\ UNCHANGED <<committed, phase, position, dispatched, forgone, stops>>
  <1>1. /\ content \in Seq(Message) /\ log \in Seq(Ending)
    BY DEF IngestTyped, IInv, TypeOK
  <1>2. PICK m \in Message : content' = Append(content, m)
    BY DEF IngestPublish
  <1>3. PICK e \in Ending : log' = Append(log, e)
    BY DEF IngestPublish, Publish
  <1>4. /\ UNCHANGED <<mem, chroma, unwritten, trace, now, posts>>
        /\ UNCHANGED <<committed, phase, position, dispatched, forgone, stops>>
    BY DEF IngestPublish, Publish
  <1>5. /\ content' \in Seq(Message) /\ Len(content') = Len(content) + 1 /\ Len(content) \in Nat
        /\ \A o \in 1 .. Len(content) : content'[o] = content[o]
    BY <1>1, <1>2, AppendProperties, LenProperties
  <1>6. Len(log') = Len(log) + 1
    BY <1>1, <1>3, AppendProperties
  <1>. QED  BY <1>4, <1>5, <1>6

\* The invariant holds at the start,
THEOREM IngestInitTyped == IngestInit => IngestTyped
  <1>. SUFFICES ASSUME IngestInit PROVE IngestTyped
    OBVIOUS
  <1>1. IInv
    BY InitIInv DEF IngestInit
  <1>2. content \in Seq(Message) /\ Len(content) = Len(log)
    <2>1. log \in Seq(Ending) /\ Len(log) \in Nat /\ DOMAIN log = 1 .. Len(log)
      BY <1>1, LenProperties DEF IInv, TypeOK
    <2>2. content \in [1 .. Len(log) -> Message]
      BY <2>1 DEF IngestInit
    <2>. QED  BY <2>1, <2>2
  <1>3. Kept(mem, trace, now)
    <2>1. mem = NewStores /\ trace = << >> /\ now = 0 /\ 0 \in Nat
      BY DEF IngestInit
    <2>. QED  BY <2>1, NewKept
  <1>4. chroma \in [Ids -> Nat] /\ unwritten \subseteq Ids /\ now \in 0 .. MaxNow /\ posts \in 0 .. MaxPosts
    BY RingAssumption DEF IngestInit
  <1>. QED  BY <1>1, <1>2, <1>3, <1>4 DEF IngestTyped, IngestInit

\* every step keeps it,
THEOREM IngestNextTyped == IngestTyped /\ [IngestNext]_<<stores, vars>> => IngestTyped'
  <1>. SUFFICES ASSUME IngestTyped, [IngestNext]_<<stores, vars>> PROVE IngestTyped'
    OBVIOUS
  <1>1. IInv'
    BY NextIInv, ConsumerSteps DEF IngestTyped
  <1>2. /\ Kept(mem, trace, now) /\ now \in Nat /\ content \in Seq(Message) /\ Len(content) = Len(log)
        /\ phase = "stopped" => trace = << >>
        /\ chroma \in [Ids -> Nat] /\ unwritten \subseteq Ids
        /\ now \in 0 .. MaxNow /\ posts \in 0 .. MaxPosts
    BY RingAssumption DEF IngestTyped
  <1>3. CASE IngestPublish
    <2>1. Kept(mem', trace', now')
      BY <1>2, <1>3, PublishProperties
    <2>2. phase' = "stopped" => trace' = << >>
      BY <1>2, <1>3, PublishProperties
    <2>. QED  BY <1>1, <1>2, <1>3, <2>1, <2>2, PublishProperties DEF IngestTyped
  <1>4. CASE IngestDispatch
    <2>1. Handles(position + 1, content[position + 1].topic, Decoded(content[position + 1]))
      BY <1>4, DispatchProperties
    <2>2. phase' # "stopped" /\ UNCHANGED <<content, now, posts, log>>
      BY <1>4, DispatchProperties
    <2>3. Kept(mem', trace', now') /\ chroma' \in [Ids -> Nat] /\ unwritten' \subseteq Ids
      BY <2>1, <2>2 DEF Handles
    <2>. QED  BY <1>1, <1>2, <2>2, <2>3 DEF IngestTyped
  <1>5. CASE IngestStop
    <2>1. mem' = NewStores /\ trace' = << >> /\ UNCHANGED <<content, chroma, unwritten, now, posts, log>>
      BY <1>5 DEF IngestStop, Stop
    <2>2. Kept(mem', trace', now')
      BY <1>2, <2>1, NewKept
    <2>. QED  BY <1>1, <1>2, <2>1, <2>2 DEF IngestTyped
  <1>6. CASE ConsumerStep
    <2>1. UNCHANGED <<content, mem, chroma, unwritten, trace, now, posts, log>>
          /\ (phase' = "stopped" => phase = "stopped")
      BY <1>6 DEF ConsumerStep, stores, Start, StartFails, Commit, CommitFails, PollFails, BackoffOver, Reassign
    <2>2. Kept(mem', trace', now')
      BY <1>2, <2>1
    <2>. QED  BY <1>1, <1>2, <2>1, <2>2 DEF IngestTyped
  <1>7. CASE PostBody
    <2>1. PICK b \in Body : /\ phase # "stopped" /\ posts' \in 0 .. MaxPosts
                            /\ UNCHANGED <<content, now, vars>>
                            /\ Handles(0, b.topic, b.items)
      BY <1>7, PostProperties
    <2>2. Kept(mem', trace', now') /\ chroma' \in [Ids -> Nat] /\ unwritten' \subseteq Ids
      BY <2>1 DEF Handles
    <2>3. phase' = phase /\ log' = log
      BY <2>1 DEF vars
    <2>. QED  BY <1>1, <1>2, <2>1, <2>2, <2>3 DEF IngestTyped
  <1>8. CASE GetTopology
    <2>1. /\ mem' = [mem EXCEPT !.topology = Collected(mem.topology, now)]
          /\ UNCHANGED <<content, chroma, unwritten, trace, now, posts, phase, log>>
      BY <1>2, <1>8 DEF GetTopology, vars, Kept, Stores
    <2>2. Kept(mem', trace', now')
      BY <1>2, <2>1, CollectedKept
    <2>3. phase' = "stopped" => trace' = << >>
      BY <1>2, <2>1
    <2>. QED  BY <1>1, <1>2, <2>1, <2>2, <2>3 DEF IngestTyped
  <1>9. CASE Tick
    <2>1. /\ now' = now + 1 /\ now' \in 0 .. MaxNow
          /\ UNCHANGED <<content, mem, chroma, unwritten, trace, posts, phase, log>>
      BY <1>2, <1>9, RingAssumption DEF Tick, vars
    <2>2. Kept(mem', trace', now')
      BY <1>2, <2>1, LaterKept
    <2>. QED  BY <1>1, <1>2, <2>1, <2>2 DEF IngestTyped
  <1>10. CASE UNCHANGED <<stores, vars>>
    <2>1. UNCHANGED <<content, mem, chroma, unwritten, trace, now, posts, phase, log>>
      BY <1>10 DEF stores, vars
    <2>2. Kept(mem', trace', now')
      BY <1>2, <2>1
    <2>. QED  BY <1>1, <1>2, <2>1, <2>2 DEF IngestTyped
  <1>. QED  BY <1>3, <1>4, <1>5, <1>6, <1>7, <1>8, <1>9, <1>10 DEF IngestNext

\* and so every state of ingestion has it.
THEOREM IngestTypedHolds == IngestSpec => []IngestTyped
  BY IngestInitTyped, IngestNextTyped, PTL DEF IngestSpec

\* Every store has its shape and no ring passes its length (kafka_consumer.py:265-293).
THEOREM IngestTypeCorrect == IngestSpec => []IngestTypeOK
  <1>1. IngestTyped => IngestTypeOK
    <2>. SUFFICES ASSUME IngestTyped PROVE IngestTypeOK
      OBVIOUS
    <2>1. ToSet(content) \subseteq Message
      BY ElementOfSeq, LenProperties DEF IngestTyped, ToSet
    <2>2. mem.counted \in [Ids -> Nat] /\ RingsFit(mem)
      BY DEF IngestTyped, Kept, Stores
    <2>. QED  BY <2>1, <2>2 DEF IngestTypeOK, IngestTyped, IInv, RingsFit
  <1>. QED  BY <1>1, IngestTypedHolds, PTL

-----------------------------------------------------------------------------
(* The call graph that is served.                                          *)

\* The entries of an index that passes its limit are of spans that were live at the
\* latest one.
LEMMA IndexIsLive ==
    ASSUME NEW index \in Indexes, NEW t \in Seq(Events), NEW at \in Nat, IndexOf(index, t, at),
           NEW live, live = {n \in SpansIn(t) : \A l \in SpansIn(t) : t[n].at + SpanTtl > t[l].at}
    PROVE  \/ Cardinality(DOMAIN index) <= MaxIndex
           \/ Cardinality(DOMAIN index) <= Cardinality({t[n].item.id : n \in live})
  <1>1. CASE Cardinality(DOMAIN index) <= MaxIndex
    BY <1>1
  <1>2. CASE ~ (Cardinality(DOMAIN index) <= MaxIndex)
    <2>. DEFINE ids == {t[n].item.id : n \in live}
    <2>1. DOMAIN index \subseteq ids
      BY <1>2 DEF IndexOf
    <2>2. IsFiniteSet(live)
      <3>1. live \subseteq 1 .. Len(t) /\ Len(t) \in Nat
        BY LenProperties DEF SpansIn
      <3>2. IsFiniteSet(1 .. Len(t))
        BY <3>1, FirstN
      <3>. QED  BY <3>1, <3>2, FS_Subset
    <2>3. IsFiniteSet(ids)
      <3>. DEFINE g == [n \in live |-> t[n].item.id]
      <3>1. g \in Surjection(live, ids)
        BY DEF Surjection
      <3>. HIDE DEF g, ids
      <3>. QED  BY <2>2, <3>1, FS_Surjection
    <2>. HIDE DEF ids
    <2>4. Cardinality(DOMAIN index) <= Cardinality(ids)
      BY <2>1, <2>3, FS_Subset
    <2>. QED  BY <2>4 DEF ids
  <1>. QED  BY <1>1, <1>2

\* The graph shows every recent call and nothing else (span_topology.py:87).
THEOREM TopologyIsRecent == IngestSpec => []TopologyShowsRecentCalls
  <1>1. IngestTyped => TopologyShowsRecentCalls
    <2>. SUFFICES ASSUME IngestTyped PROVE TopologyShowsRecentCalls
      OBVIOUS
    <2>1. /\ mem \in Stores /\ trace \in Seq(Events) /\ now \in Nat
          /\ TopologyOf(mem.topology, trace, now)
      BY RingAssumption DEF IngestTyped, Kept
    <2>. DEFINE edges == mem.topology.edges
                index == mem.topology.index
                shown == Collected(mem.topology, now).edges
    <2>2. /\ mem.topology \in [index : Indexes, edges : Edges]
          /\ edges \in Edges /\ index \in Indexes
      BY <2>1 DEF Stores
    <2>3. EdgesOf(edges, trace, now) /\ IndexOf(index, trace, now)
      BY <2>1 DEF TopologyOf
    <2>4. /\ \A tp, s : EventsOf(tp, s) = EventsIn(trace, tp, s)
          /\ \A key : Calls(key) = CallsIn(trace, key)
      BY DEF EventsOf, EventsIn, Calls, CallsIn
    <2>5. /\ DOMAIN shown = {k \in DOMAIN edges : now - edges[k].seen <= EdgeTtl}
          /\ \A k \in DOMAIN shown : shown[k] = edges[k]
      BY <2>2 DEF Collected, Keep
    <2>. HIDE DEF shown
    <2>6. ASSUME NEW key \in Service \X Service, key[1] # key[2],
                 NEW n \in Calls(key), NEW p \in EventsOf("spans", key[1]),
                 p < n, trace[p].item.id = trace[n].item.parent,
                 trace[n].at - trace[p].at < SpanTtl, now - trace[n].at <= EdgeTtl
          PROVE  key \in DOMAIN shown
      <3>1. n \in CallsIn(trace, key) /\ p \in EventsIn(trace, "spans", key[1])
        BY <2>4
      <3>2. key \in DOMAIN edges /\ edges[key].seen >= trace[n].at
        <4>. HIDE DEF edges
        <4>. QED  BY <2>3, <2>6, <3>1 DEF EdgesOf
      <3>3. trace[n].at \in Nat
        <4>1. n \in 1 .. Len(trace)
          BY <2>1, <3>1, CallsAreEvents
        <4>2. trace[n] \in Events
          BY <2>1, <4>1, ElementOfSeq
        <4>. QED  BY <4>2 DEF Events
      <3>4. edges[key].seen \in Nat /\ EdgeTtl \in Nat
        <4>. HIDE DEF edges
        <4>. QED  BY <2>2, <3>2, TopologyAssumption DEF Edges
      <3>. HIDE DEF edges
      <3>. QED  BY <2>1, <2>5, <2>6, <3>2, <3>3, <3>4
    <2>7. ASSUME NEW key \in DOMAIN shown
          PROVE  /\ \E n \in Calls(key) : now - trace[n].at <= EdgeTtl
                 /\ shown[key].errors <= shown[key].calls
                 /\ shown[key].calls <= Cardinality(Calls(key))
                 /\ \A s \in {key[1], key[2]} : key \in ServiceTopology(mem.topology, s)
      <3>1. key \in DOMAIN edges /\ shown[key] = edges[key] /\ now - edges[key].seen <= EdgeTtl
        BY <2>5
      <3>2. /\ \E n \in CallsIn(trace, key) : edges[key].seen = trace[n].at
            /\ edges[key].errors <= edges[key].calls
            /\ edges[key].calls <= Cardinality(CallsIn(trace, key))
        <4>. HIDE DEF edges
        <4>. QED  BY <2>3, <3>1 DEF EdgesOf
      <3>3. \A s \in {key[1], key[2]} : key \in ServiceTopology(mem.topology, s)
        BY <3>1 DEF ServiceTopology, Callers, Callees
      <3>. HIDE DEF edges
      <3>. QED  BY <2>4, <3>1, <3>2, <3>3
    <2>. DEFINE spans == {n \in DOMAIN trace : trace[n].topic = "spans"}
                live == {n \in spans : \A l \in spans : trace[n].at + SpanTtl > trace[l].at}
    <2>8. \/ Stats(mem.topology).span_index_size <= MaxIndex
          \/ Stats(mem.topology).span_index_size <= Cardinality({trace[n].item.id : n \in live})
      <3>1. Stats(mem.topology).span_index_size = Cardinality(DOMAIN index)
        BY DEF Stats
      <3>2. live = {n \in SpansIn(trace) : \A l \in SpansIn(trace) : trace[n].at + SpanTtl > trace[l].at}
        BY DEF SpansIn
      <3>. HIDE DEF live, spans, index
      <3>3. PICK running : running = live
        OBVIOUS
      <3>4. \/ Cardinality(DOMAIN index) <= MaxIndex
            \/ Cardinality(DOMAIN index) <= Cardinality({trace[n].item.id : n \in running})
        BY <2>1, <2>2, <2>3, <3>2, <3>3, IndexIsLive
      <3>. QED  BY <3>1, <3>3, <3>4
    <2>. HIDE DEF live, spans
    <2>9. \A key \in Service \X Service :
             (/\ key[1] # key[2]
              /\ \E n \in Calls(key), p \in EventsOf("spans", key[1]) :
                   /\ p < n /\ trace[p].item.id = trace[n].item.parent
                   /\ trace[n].at - trace[p].at < SpanTtl
                   /\ now - trace[n].at <= EdgeTtl)
             => key \in DOMAIN shown
      BY <2>6, Zenon
    <2>10. \A key \in DOMAIN shown :
              /\ \E n \in Calls(key) : now - trace[n].at <= EdgeTtl
              /\ shown[key].errors <= shown[key].calls
              /\ shown[key].calls <= Cardinality(Calls(key))
              /\ \A s \in {key[1], key[2]} : key \in ServiceTopology(mem.topology, s)
      BY <2>7, Zenon
    <2>. QED  BY <2>8, <2>9, <2>10, Zenon DEF TopologyShowsRecentCalls, shown, live, spans
  <1>. QED  BY <1>1, IngestTypedHolds, PTL

-----------------------------------------------------------------------------
(* Prefixes.  Applied is about every message there could be: the counts of *)
(* its own ids move only with it, and each delivery counts a prefix once.  *)

\* The items of a message the invariant is about.
Marked(m) == {n \in DOMAIN m.items : m.items[n].id \in Own /\ m.items[n].kind # "unhandled"}

\* A message is applied as far as it is decoded, or not at all.
AppliedTo(counted, m) ==
    \A i, j \in Marked(m) :
        /\ m.shape = "list" /\ i < j => counted[m.items[j].id] <= counted[m.items[i].id]
        /\ m.shape = "batch" /\ m.items[i].kind = "malformed" => counted[m.items[j].id] = 0

\* An id of one item only is nowhere else.
LEMMA OwnIsUnique ==
    ASSUME NEW m \in Message, NEW n \in Marked(m)
    PROVE  /\ m.items[n].id \in Ids /\ OnlyAt(m.items, n, m.items[n].id)
           /\ \A k \in (Message \cup Body) \ {m} : \A j \in ToSet(k.items) : j.id # m.items[n].id
  <1>. DEFINE id == m.items[n].id
  <1>1. DOMAIN m.items = 1 .. Len(m.items) /\ n \in 1 .. Len(m.items) /\ id \in Own /\ id \in Ids
    <2>1. DOMAIN m.items = 1 .. Len(m.items)
      BY DecodedTypes, LenProperties
    <2>. QED  BY <2>1 DEF Marked, Own
  <1>2. PICK m1 \in Message : \E n1 \in DOMAIN m1.items :
           /\ \A l \in DOMAIN m1.items \ {n1} : m1.items[l].id # id
           /\ \A k \in (Message \cup Body) \ {m1} : \A j \in ToSet(k.items) : j.id # id
    BY <1>1 DEF Own
  <1>3. m1 = m
    <2>1. m.items[n] \in ToSet(m.items)
      BY <1>1 DEF ToSet
    <2>. QED  BY <1>2, <2>1
  <1>4. PICK n1 \in DOMAIN m.items :
           /\ \A l \in DOMAIN m.items \ {n1} : m.items[l].id # id
           /\ \A k \in (Message \cup Body) \ {m} : \A j \in ToSet(k.items) : j.id # id
    BY <1>2, <1>3
  <1>5. OnlyAt(m.items, n, id)
    BY <1>1, <1>4 DEF OnlyAt
  <1>. QED  BY <1>1, <1>4, <1>5

\* Items of which none has the id of a marked item leave it applied.
LEMMA AppliedByOthers ==
    ASSUME NEW m \in Message, NEW s \in Stores, NEW topic \in Topics, NEW items \in Seq(Items), NEW at \in Nat,
           AppliedTo(s.counted, m),
           topic # "spans" \/ \A n \in Marked(m) : \A p \in 1 .. Len(items) : items[p].id # m.items[n].id,
           NEW new, new = Stored(s, topic, items, at)
    PROVE  AppliedTo(new.counted, m)
  <1>1. ASSUME NEW n \in Marked(m)
        PROVE  new.counted[m.items[n].id] = s.counted[m.items[n].id]
    <2>1. PICK id \in Ids : id = m.items[n].id
      BY OwnIsUnique
    <2>. QED  BY <2>1, CountedAfter
  <1>. QED  BY <1>1 DEF AppliedTo

\* Two counters that both grow keep their order.
LEMMA OneMoreEach == ASSUME NEW a \in Nat, NEW b \in Nat, a <= b PROVE a + 1 <= b + 1
  OBVIOUS

\* Its own items, as far as they are decoded or when none is malformed, do too.
LEMMA AppliedByItself ==
    ASSUME NEW m \in Message, m.topic = "spans", NEW s \in Stores, NEW items \in Seq(Items), NEW at \in Nat,
           AppliedTo(s.counted, m),
           NEW c \in 0 .. Len(m.items), Len(items) = c, \A i \in 1 .. c : items[i] = m.items[i],
           (m.shape = "batch" /\ Malformed(m) # {}) => c = 0,
           NEW new, new = Stored(s, "spans", items, at)
    PROVE  AppliedTo(new.counted, m)
  <1>1. "spans" \in Topics /\ Len(m.items) \in Nat /\ DOMAIN m.items = 1 .. Len(m.items)
    BY DecodedTypes, LenProperties DEF Topics
  <1>2. ASSUME NEW n \in Marked(m)
        PROVE  /\ n \in 1 .. Len(m.items) /\ s.counted[m.items[n].id] \in Nat
               /\ n <= c => new.counted[m.items[n].id] = s.counted[m.items[n].id] + 1
               /\ ~ (n <= c) => new.counted[m.items[n].id] = s.counted[m.items[n].id]
    <2>1. PICK id \in Ids : id = m.items[n].id
      BY OwnIsUnique
    <2>2. n \in 1 .. Len(m.items) /\ \A q \in 1 .. Len(m.items) : m.items[q].id = id => q = n
      BY <2>1, OwnIsUnique DEF OnlyAt
    <2>3. s.counted[id] \in Nat
      BY DEF Stores
    <2>4. ASSUME n <= c
          PROVE  new.counted[id] = s.counted[id] + 1
      <3>1. OnlyAt(items, n, id)
        BY <1>1, <2>1, <2>2, <2>4, SMTT(30) DEF OnlyAt
      <3>2. ~ Raises("spans", items[n])
        BY <1>1, <2>2, <2>4 DEF Raises, Marked
      <3>. QED  BY <1>1, <3>1, <3>2, CountedAfter
    <2>5. ASSUME ~ (n <= c)
          PROVE  new.counted[id] = s.counted[id]
      <3>1. \A p \in 1 .. Len(items) : items[p].id # id
        BY <1>1, <2>2, <2>5
      <3>. QED  BY <1>1, <3>1, CountedAfter
    <2>. QED  BY <2>1, <2>2, <2>3, <2>4, <2>5
  <1>3. ASSUME NEW i \in Marked(m), NEW j \in Marked(m), m.shape = "list", i < j
        PROVE  new.counted[m.items[j].id] <= new.counted[m.items[i].id]
    <2>1. s.counted[m.items[j].id] <= s.counted[m.items[i].id]
      BY <1>3 DEF AppliedTo
    <2>2. i \in Nat /\ j \in Nat /\ c \in Nat
      BY <1>1, <1>2
    <2>3. CASE j <= c
      <3>1. i <= c
        BY <1>3, <2>2, <2>3
      <3>2. /\ new.counted[m.items[j].id] = s.counted[m.items[j].id] + 1
            /\ new.counted[m.items[i].id] = s.counted[m.items[i].id] + 1
        BY <1>2, <2>3, <3>1
      <3>3. s.counted[m.items[i].id] \in Nat /\ s.counted[m.items[j].id] \in Nat
        BY <1>2
      <3>4. PICK a \in Nat, b \in Nat : a = s.counted[m.items[j].id] /\ b = s.counted[m.items[i].id]
        BY <3>3
      <3>5. a <= b
        BY <2>1, <3>4, Zenon
      <3>6. a + 1 <= b + 1
        BY <3>4, <3>5, OneMoreEach, Zenon
      <3>. QED  BY <3>2, <3>4, <3>6, Zenon
    <2>4. CASE ~ (j <= c)
      <3>1. new.counted[m.items[j].id] = s.counted[m.items[j].id]
        BY <1>2, <2>4
      <3>2. \/ new.counted[m.items[i].id] = s.counted[m.items[i].id]
            \/ new.counted[m.items[i].id] = s.counted[m.items[i].id] + 1
        BY <1>2
      <3>3. s.counted[m.items[i].id] \in Nat /\ s.counted[m.items[j].id] \in Nat
        BY <1>2
      <3>. QED  BY <2>1, <3>1, <3>2, <3>3, SMTT(30)
    <2>. QED  BY <2>3, <2>4
  <1>4. ASSUME NEW i \in Marked(m), NEW j \in Marked(m), m.shape = "batch", m.items[i].kind = "malformed"
        PROVE  new.counted[m.items[j].id] = 0
    <2>1. i \in Malformed(m)
      BY <1>4 DEF Malformed, Marked
    <2>2. c = 0
      BY <1>4, <2>1
    <2>3. ~ (j <= c)
      BY <1>2, <2>2
    <2>. QED  BY <1>2, <1>4, <2>3 DEF AppliedTo
  <1>. QED  BY <1>3, <1>4 DEF AppliedTo

-----------------------------------------------------------------------------

\* Each message of spans is applied in its order.
Applied == \A m \in Message : m.topic = "spans" => AppliedTo(mem.counted, m)

\* Every step of ingestion keeps messages applied in their order.
LEMMA AppliedStep == IngestTyped /\ Applied /\ [IngestNext]_<<stores, vars>> => Applied'
  <1>. SUFFICES ASSUME IngestTyped, Applied, [IngestNext]_<<stores, vars>>,
                       NEW m \in Message, m.topic = "spans"
                PROVE  AppliedTo(mem'.counted, m)
    BY DEF Applied
  <1>0. AppliedTo(mem.counted, m) /\ mem \in Stores /\ now \in Nat
    BY RingAssumption DEF Applied, IngestTyped, Kept
  <1>1. ASSUME NEW k \in Message \cup Body, k # m, NEW items \in Seq(Items), ToSet(items) \subseteq ToSet(k.items)
        PROVE  \A n \in Marked(m) : \A p \in 1 .. Len(items) : items[p].id # m.items[n].id
    <2>1. \A p \in 1 .. Len(items) : items[p] \in ToSet(k.items)
      BY <1>1, LenProperties DEF ToSet
    <2>. QED  BY <1>1, <2>1, OwnIsUnique
  <1>2. CASE IngestDispatch
    <2>1. PICK k \in Message : k = content[position + 1]
      BY <1>2, DispatchProperties
    <2>2. mem' = Stored(mem, k.topic, Decoded(k), now)
      BY <1>2, <2>1, DispatchProperties DEF Handles
    <2>3. /\ k.topic \in Topics /\ Decoded(k) \in Seq(Items) /\ ToSet(Decoded(k)) \subseteq ToSet(k.items)
      BY DecodedTypes
    <2>4. CASE k # m
      <3>1. \A n \in Marked(m) : \A p \in 1 .. Len(Decoded(k)) : Decoded(k)[p].id # m.items[n].id
        BY <1>1, <2>3, <2>4
      <3>. QED  BY <1>0, <2>2, <2>3, <3>1, AppliedByOthers
    <2>5. CASE k = m
      <3>1. PICK c \in 0 .. Len(m.items) : Len(Decoded(m)) = c /\ \A i \in 1 .. c : Decoded(m)[i] = m.items[i]
        BY DecodedTypes
      <3>2. (m.shape = "batch" /\ Malformed(m) # {}) => c = 0
        <4>1. (m.shape = "batch" /\ Malformed(m) # {}) => Decoded(m) = << >>
          BY DEF Decoded
        <4>. QED  BY <3>1, <4>1
      <3>3. mem' = Stored(mem, "spans", Decoded(m), now) /\ Decoded(m) \in Seq(Items)
        BY <2>2, <2>3, <2>5
      <3>. QED  BY <1>0, <3>1, <3>2, <3>3, AppliedByItself
    <2>. QED  BY <2>4, <2>5
  <1>3. CASE PostBody
    <2>1. PICK b \in Body : /\ b.topic \in Topics /\ b.items \in Seq(Items)
                            /\ mem' = Stored(mem, b.topic, b.items, now)
      BY <1>3, PostProperties DEF Handles
    <2>2. CASE b # m
      <3>1. \A n \in Marked(m) : \A p \in 1 .. Len(b.items) : b.items[p].id # m.items[n].id
        BY <1>1, <2>1, <2>2
      <3>. QED  BY <1>0, <2>1, <3>1, AppliedByOthers
    <2>3. CASE b = m
      <3>1. Malformed(m) = {}
        <4>1. \A i \in ToSet(m.items) : i.kind # "malformed"
          BY <2>3, MessageAssumption
        <4>. QED  BY <4>1 DEF Malformed, ToSet
      <3>2. PICK c \in 0 .. Len(m.items) : Len(m.items) = c /\ \A i \in 1 .. c : m.items[i] = m.items[i]
        BY DecodedTypes, LenProperties
      <3>3. mem' = Stored(mem, "spans", m.items, now) /\ m.items \in Seq(Items)
        BY <2>1, <2>3
      <3>. QED  BY <1>0, <3>1, <3>2, <3>3, AppliedByItself
    <2>. QED  BY <2>2, <2>3
  <1>4. CASE IngestStop
    <2>1. mem' = NewStores
      BY <1>4 DEF IngestStop
    <2>2. \A n \in Marked(m) : NewStores.counted[m.items[n].id] = 0
      BY OwnIsUnique DEF NewStores
    <2>. QED  BY <2>1, <2>2 DEF AppliedTo
  <1>5. CASE GetTopology
    <2>1. mem'.counted = mem.counted
      BY <1>0, <1>5 DEF GetTopology, Stores
    <2>. QED  BY <1>0, <2>1
  <1>6. CASE IngestPublish \/ ConsumerStep \/ Tick \/ UNCHANGED <<stores, vars>>
    <2>1. mem' = mem
      BY <1>6 DEF IngestPublish, ConsumerStep, Tick, stores
    <2>. QED  BY <1>0, <2>1
  <1>. QED  BY <1>2, <1>3, <1>4, <1>5, <1>6 DEF IngestNext

\* However often and in which order messages are delivered, a later item of a list
\* is not applied without the earlier ones (kafka_consumer.py:285).
THEOREM AppliedAsPrefixes == IngestSpec => []AppliedInOrder
  <1>1. IngestInit => Applied
    <2>. SUFFICES ASSUME IngestInit, NEW m \in Message
                  PROVE  AppliedTo(mem.counted, m)
      BY DEF Applied
    <2>1. \A n \in Marked(m) : mem.counted[m.items[n].id] = 0
      BY OwnIsUnique DEF IngestInit, NewStores
    <2>. QED  BY <2>1 DEF AppliedTo
  <1>2. IngestTyped /\ Applied => AppliedInOrder
    <2>. SUFFICES ASSUME IngestTyped, Applied, NEW o \in Offsets, content[o].topic = "spans"
                  PROVE  AppliedTo(mem.counted, content[o])
      BY DEF AppliedInOrder, AppliedTo, Marked
    <2>1. content[o] \in Message
      BY ElementOfSeq DEF IngestTyped, Offsets
    <2>. QED  BY <2>1 DEF Applied
  <1>. QED  BY <1>1, <1>2, AppliedStep, IngestTypedHolds, PTL DEF IngestSpec

-----------------------------------------------------------------------------
(* Logs.  Each record was handed over at most once since the start, and    *)
(* at most once more for every stop: LogInv counts the records behind the  *)
(* position for the run that is not over.                                  *)

\* Records of the partition with a log, and those the consumer is past.
HavingLog(l) ==
    {o \in Offsets : content[o].topic = "logs" /\ \E i \in ToSet(content[o].items) : i.id = l}
Passed(l) == HavingLog(l) \cap (1 .. position)

\* A log is in the collection, or a write of it failed.
StoredOrLost(u, c, l) == l \in u \/ c[l] > 0

\* What was dispatched is stored or lost, and so are the logs handled; a log is
\* stored at most once for each record of it in a run of the consumer.
LogInv ==
    /\ \A o \in dispatched : content[o].topic = "logs" =>
          \A i \in ToSet(Decoded(content[o])) : i.kind = "valid" => StoredOrLost(unwritten, chroma, i.id)
    /\ \A n \in DOMAIN trace : trace[n].topic = "logs" => StoredOrLost(unwritten, chroma, trace[n].item.id)
    /\ \A l \in Ids :
          chroma[l] <= Cardinality(HavingLog(l)) * stops
                       + (IF phase = "stopped" THEN 0 ELSE Cardinality(Passed(l))) + posts

\* Products of natural numbers.
LEMMA Products ==
    ASSUME NEW a \in Nat, NEW b \in Nat, NEW s \in Nat, a <= b
    PROVE  /\ a * s \in Nat /\ a * s <= b * s
           /\ a * (s + 1) = a * s + a
  <1>1. PICK d \in Nat : b = a + d
    <2>1. b - a \in Nat /\ b = a + (b - a)
      OBVIOUS
    <2>. QED  BY <2>1
  <1>2. b * s = a * s + d * s
    BY <1>1
  <1>3. a * s \in Nat /\ d * s \in Nat
    BY <1>1
  <1>4. a * (s + 1) = a * s + a
    OBVIOUS
  <1>. QED  BY <1>2, <1>3, <1>4

\* One copy more, for one record more.
LEMMA OneCopyMore ==
    ASSUME NEW a \in Nat, NEW b \in Nat, NEW c \in Nat, NEW d \in Nat, NEW d2 \in Nat, NEW e \in Nat,
           b <= a + 1, a <= c + d + e, d + 1 <= d2
    PROVE  b <= c + d2 + e
  OBVIOUS

\* A bound that may only grow.
LEMMA NoMore ==
    ASSUME NEW a \in Nat, NEW b \in Nat, NEW c \in Nat, NEW d \in Nat, NEW e \in Nat,
           a <= b + c + e, c <= d
    PROVE  a <= b + d + e
  OBVIOUS

\* The records that have a log, and those of them passed, are finitely many.
LEMMA LogCounts ==
    ASSUME IngestTyped, NEW l
    PROVE  /\ IsFiniteSet(HavingLog(l)) /\ IsFiniteSet(Passed(l))
           /\ Cardinality(HavingLog(l)) \in Nat /\ Cardinality(Passed(l)) \in Nat
           /\ Cardinality(Passed(l)) <= Cardinality(HavingLog(l))
           /\ HavingLog(l) \subseteq Offsets /\ stops \in Nat /\ posts \in Nat
  <1>1. HavingLog(l) \subseteq 1 .. Len(log) /\ Len(log) \in Nat
    BY DEF HavingLog, Offsets, IngestTyped, IInv, TypeOK
  <1>2. IsFiniteSet(HavingLog(l))
    <2>1. IsFiniteSet(1 .. Len(log))
      BY <1>1, FirstN
    <2>. QED  BY <1>1, <2>1, FS_Subset
  <1>3. stops \in Nat /\ posts \in Nat
    BY BoundsAssumption, RingAssumption DEF IngestTyped, IInv, TypeOK
  <1>4. Passed(l) \subseteq HavingLog(l)
    BY DEF Passed
  <1>5. IsFiniteSet(Passed(l)) /\ Cardinality(Passed(l)) <= Cardinality(HavingLog(l))
    BY <1>2, <1>4, FS_Subset
  <1>. QED  BY <1>1, <1>2, <1>3, <1>5, FS_CardinalityType DEF Offsets

\* Every step of ingestion keeps the account of the logs.
LEMMA LogStep == IngestTyped /\ IngestTyped' /\ LogInv /\ [IngestNext]_<<stores, vars>> => LogInv'
  <1>. SUFFICES ASSUME IngestTyped, IngestTyped', LogInv, [IngestNext]_<<stores, vars>> PROVE LogInv'
    OBVIOUS
  <1>0. /\ chroma \in [Ids -> Nat] /\ unwritten \subseteq Ids /\ trace \in Seq(Events) /\ dispatched \subseteq 1 .. Len(content)
        /\ Len(trace) \in Nat /\ DOMAIN trace = 1 .. Len(trace) /\ content \in Seq(Message)
        /\ position \in Nat /\ Len(content) = Len(log) /\ Offsets = 1 .. Len(log)
    <2>1. /\ chroma \in [Ids -> Nat] /\ unwritten \subseteq Ids /\ trace \in Seq(Events)
          /\ content \in Seq(Message) /\ Len(content) = Len(log) /\ log \in Seq(Ending)
          /\ position \in 0 .. Len(log) /\ dispatched \subseteq 1 .. Len(log)
      BY DEF IngestTyped, Kept, IInv, TypeOK, Offsets
    <2>2. Len(log) \in Nat /\ Len(trace) \in Nat /\ DOMAIN trace = 1 .. Len(trace)
      BY <2>1, LenProperties
    <2>. QED  BY <2>1, <2>2 DEF Offsets
  <1>1. ASSUME NEW o \in dispatched, content[o].topic = "logs", NEW i \in ToSet(Decoded(content[o])), i.kind = "valid"
        PROVE  StoredOrLost(unwritten, chroma, i.id) /\ i.id \in Ids
    <2>1. content[o] \in Message
      BY <1>0, ElementOfSeq
    <2>2. Decoded(content[o]) \in Seq(Items)
      BY <2>1, DecodedTypes
    <2>3. i \in Items
      BY <2>2, ElementOfSeq, LenProperties DEF ToSet
    <2>. QED  BY <1>1, <2>3, ItemTypes DEF LogInv
  <1>2. ASSUME NEW n \in DOMAIN trace, trace[n].topic = "logs"
        PROVE  StoredOrLost(unwritten, chroma, trace[n].item.id) /\ trace[n].item.id \in Ids
    <2>1. trace[n] \in Events
      BY <1>0, ElementOfSeq
    <2>. QED  BY <1>2, <2>1, ItemTypes DEF LogInv, Events
  <1>3. ASSUME NEW l \in Ids
        PROVE  /\ chroma[l] \in Nat
               /\ chroma[l] <= Cardinality(HavingLog(l)) * stops
                               + (IF phase = "stopped" THEN 0 ELSE Cardinality(Passed(l))) + posts
    BY <1>0, <1>3 DEF LogInv
  \* Handling items keeps what is in the collection there.
  <1>4. ASSUME NEW o, NEW topic, NEW items, Handles(o, topic, items), NEW l \in Ids
        PROVE  /\ chroma'[l] \in Nat /\ (StoredOrLost(unwritten, chroma, l) => StoredOrLost(unwritten', chroma', l))
               /\ l \in LoggedOf(topic, items) => StoredOrLost(unwritten', chroma', l)
               /\ chroma'[l] <= chroma[l] + 1
               /\ l \notin LoggedOf(topic, items) => chroma'[l] = chroma[l]
    BY <1>0, <1>4 DEF Handles, StoredOrLost
  <1>5. ASSUME NEW o, NEW topic, NEW items, Handles(o, topic, items), topic \in Topics, items \in Seq(Items)
        PROVE  \A n \in DOMAIN trace' : trace'[n].topic = "logs" => StoredOrLost(unwritten', chroma', trace'[n].item.id)
    <2>. SUFFICES ASSUME NEW n \in DOMAIN trace', trace'[n].topic = "logs"
                  PROVE  StoredOrLost(unwritten', chroma', trace'[n].item.id)
      OBVIOUS
    <2>1. Extends(trace', trace, o, topic, items, now) /\ DOMAIN trace' = 1 .. Len(trace') /\ Len(trace') \in Nat
      <3>1. trace' \in Seq(Events)
        BY <1>5 DEF Handles, Kept
      <3>. QED  BY <1>5, <3>1, LenProperties DEF Handles
    <2>2. CASE n \in 1 .. Len(trace)
      <3>1. trace'[n] = trace[n]
        BY <2>1, <2>2 DEF Extends
      <3>2. StoredOrLost(unwritten, chroma, trace[n].item.id) /\ trace[n].item.id \in Ids
        BY <1>0, <1>2, <2>2, <3>1
      <3>3. PICK l \in Ids : l = trace[n].item.id
        BY <3>2
      <3>4. StoredOrLost(unwritten', chroma', l)
        BY <1>4, <1>5, <3>2, <3>3
      <3>. QED  BY <3>1, <3>3, <3>4 DEF StoredOrLost
    <2>3. CASE n \in Len(trace) + 1 .. Len(trace')
      <3>1. topic = "logs" /\ trace'[n].item \in ToSet(items) /\ ~ Raises(topic, trace'[n].item)
        BY <2>1, <2>3 DEF Extends
      <3>2. PICK i \in ToSet(items) : i = trace'[n].item
        BY <3>1
      <3>3. i \in Items
        BY <1>5, ElementOfSeq, LenProperties DEF ToSet
      <3>4. i.id \in LoggedOf(topic, items)
        BY <3>1, <3>2, <3>3, ItemTypes DEF LoggedOf
      <3>5. PICK l \in Ids : l = i.id /\ l \in LoggedOf(topic, items)
        BY <3>4 DEF LoggedOf
      <3>6. StoredOrLost(unwritten', chroma', l)
        BY <1>4, <1>5, <3>5
      <3>. QED  BY <3>2, <3>5, <3>6 DEF StoredOrLost
    <2>. QED  BY <1>0, <2>1, <2>2, <2>3
  <1>6. CASE IngestDispatch
    <2>. DEFINE p == position + 1
                k == content[p]
    <2>1. /\ position' = p /\ position' \in Offsets /\ phase = "polling" /\ phase' # "stopped"
          /\ dispatched' = dispatched \cup {p} /\ k \in Message /\ p \in 1 .. Len(content)
          /\ UNCHANGED <<content, now, posts, log, committed, stops>>
          /\ Handles(p, k.topic, Decoded(k))
      BY <1>6, DispatchProperties
    <2>2. k.topic \in Topics /\ Decoded(k) \in Seq(Items) /\ ToSet(Decoded(k)) \subseteq ToSet(k.items)
      BY <2>1, DecodedTypes
    <2>. HIDE DEF p, k
    <2>3. ASSUME NEW o \in dispatched', content'[o].topic = "logs", NEW i \in ToSet(Decoded(content'[o])),
                 i.kind = "valid"
          PROVE  StoredOrLost(unwritten', chroma', i.id)
      <3>1. CASE o \in dispatched
        <4>1. StoredOrLost(unwritten, chroma, i.id) /\ i.id \in Ids
          BY <1>1, <2>1, <2>3, <3>1
        <4>2. PICK l \in Ids : l = i.id
          BY <4>1
        <4>3. StoredOrLost(unwritten', chroma', l)
          BY <1>4, <2>1, <4>1, <4>2
        <4>. QED  BY <4>2, <4>3 DEF StoredOrLost
      <3>2. CASE o = p
        <4>1. content'[o] = k
          BY <2>1, <3>2 DEF k
        <4>2. i \in ToSet(Decoded(k)) /\ i \in Items /\ k.topic = "logs"
          BY <2>2, <2>3, <4>1, ElementOfSeq, LenProperties DEF ToSet
        <4>3. ~ Raises(k.topic, i)
          BY <2>3 DEF Raises
        <4>4. PICK l \in Ids : l = i.id /\ l \in LoggedOf(k.topic, Decoded(k))
          BY <4>2, <4>3, ItemTypes DEF LoggedOf
        <4>5. StoredOrLost(unwritten', chroma', l)
          BY <1>4, <2>1, <4>4
        <4>. QED  BY <4>4, <4>5 DEF StoredOrLost
      <3>. QED  BY <2>1, <2>3, <3>1, <3>2
    <2>4. \A n \in DOMAIN trace' : trace'[n].topic = "logs" => StoredOrLost(unwritten', chroma', trace'[n].item.id)
      BY <1>5, <2>1, <2>2
    <2>5. ASSUME NEW l \in Ids
          PROVE  chroma'[l] <= Cardinality(HavingLog(l))' * stops' + Cardinality(Passed(l))' + posts'
      <3>1. HavingLog(l)' = HavingLog(l)
        BY <2>1 DEF HavingLog, Offsets
      <3>2. Passed(l) \subseteq Passed(l)' /\ p \notin Passed(l)
        BY <1>0, <2>1, <3>1 DEF Passed, p
      <3>3. IsFiniteSet(Passed(l)) /\ IsFiniteSet(Passed(l)') /\ Cardinality(Passed(l)) \in Nat
            /\ Cardinality(Passed(l)') \in Nat /\ Cardinality(HavingLog(l)) \in Nat /\ stops \in Nat /\ posts \in Nat
        <4>1. IsFiniteSet(Passed(l)) /\ Cardinality(Passed(l)) \in Nat /\ Cardinality(HavingLog(l)) \in Nat
              /\ IsFiniteSet(HavingLog(l)) /\ stops \in Nat /\ posts \in Nat
          BY LogCounts
        <4>2. Passed(l)' \subseteq HavingLog(l)
          BY <3>1 DEF Passed
        <4>3. IsFiniteSet(Passed(l)')
          BY <4>1, <4>2, FS_Subset
        <4>. QED  BY <4>1, <4>3, FS_CardinalityType
      <3>4. chroma[l] <= Cardinality(HavingLog(l)) * stops + Cardinality(Passed(l)) + posts
        BY <1>3, <2>1
      <3>5. Cardinality(HavingLog(l)) * stops \in Nat
        BY <3>3, Products
      <3>6. CASE l \in LoggedOf(k.topic, Decoded(k))
        <4>1. p \in HavingLog(l)
          <5>1. k.topic = "logs" /\ \E i \in ToSet(k.items) : i.id = l
            BY <2>2, <3>6 DEF LoggedOf
          <5>. QED  BY <2>1, <5>1 DEF HavingLog, k
        <4>2. p \in Passed(l)'
          BY <1>0, <2>1, <3>1, <4>1 DEF Passed, p
        <4>3. Cardinality(Passed(l) \cup {p}) = Cardinality(Passed(l)) + 1
          BY <3>2, <3>3, FS_AddElement
        <4>4. Cardinality(Passed(l) \cup {p}) <= Cardinality(Passed(l)')
          BY <3>2, <3>3, <4>2, FS_Subset
        <4>5. chroma'[l] <= chroma[l] + 1 /\ chroma'[l] \in Nat /\ chroma[l] \in Nat
          BY <1>3, <1>4, <2>1
        <4>6. Cardinality(Passed(l)) + 1 <= Cardinality(Passed(l)')
          BY <4>3, <4>4
        <4>7. chroma'[l] <= Cardinality(HavingLog(l)) * stops + Cardinality(Passed(l)') + posts
          BY <3>3, <3>4, <3>5, <4>5, <4>6, OneCopyMore
        <4>. QED  BY <2>1, <3>1, <4>7
      <3>7. CASE l \notin LoggedOf(k.topic, Decoded(k))
        <4>1. chroma'[l] = chroma[l] /\ chroma[l] \in Nat
          BY <1>3, <1>4, <2>1, <3>7
        <4>2. Cardinality(Passed(l)) <= Cardinality(Passed(l)')
          BY <3>2, <3>3, FS_Subset
        <4>. QED  BY <2>1, <3>1, <3>3, <3>4, <3>5, <4>1, <4>2, SMTT(30)
      <3>. QED  BY <3>6, <3>7
    <2>. QED  BY <2>1, <2>3, <2>4, <2>5 DEF LogInv
  <1>7. CASE PostBody
    <2>1. PICK b \in Body : /\ b.topic \in Topics /\ b.items \in Seq(Items) /\ phase # "stopped"
                            /\ posts' = posts + 1 /\ UNCHANGED <<content, now, vars>>
                            /\ Handles(0, b.topic, b.items)
      BY <1>7, PostProperties
    <2>2. UNCHANGED <<log, position, dispatched, stops, phase, content>>
      BY <2>1 DEF vars
    <2>3. ASSUME NEW o \in dispatched, content[o].topic = "logs", NEW i \in ToSet(Decoded(content[o])),
                 i.kind = "valid"
          PROVE  StoredOrLost(unwritten', chroma', i.id)
      <3>1. PICK l \in Ids : l = i.id /\ StoredOrLost(unwritten, chroma, l)
        BY <1>1, <2>3
      <3>2. StoredOrLost(unwritten', chroma', l)
        BY <1>4, <2>1, <3>1
      <3>. QED  BY <3>1, <3>2 DEF StoredOrLost
    <2>4. \A n \in DOMAIN trace' : trace'[n].topic = "logs" => StoredOrLost(unwritten', chroma', trace'[n].item.id)
      BY <1>5, <2>1
    <2>5. ASSUME NEW l \in Ids
          PROVE  chroma'[l] <= Cardinality(HavingLog(l)) * stops
                               + (IF phase = "stopped" THEN 0 ELSE Cardinality(Passed(l))) + posts'
      <3>1. Cardinality(HavingLog(l)) \in Nat /\ Cardinality(Passed(l)) \in Nat /\ stops \in Nat /\ posts \in Nat
        BY LogCounts
      <3>2. Cardinality(HavingLog(l)) * stops \in Nat
        BY <3>1, Products
      <3>3. chroma'[l] <= chroma[l] + 1 /\ chroma'[l] \in Nat /\ chroma[l] \in Nat
        BY <1>3, <1>4, <2>1
      <3>. QED  BY <1>3, <2>1, <3>1, <3>2, <3>3, SMTT(30)
    <2>6. \A l : HavingLog(l)' = HavingLog(l) /\ Passed(l)' = Passed(l)
      BY <2>2 DEF HavingLog, Passed, Offsets
    <2>. QED  BY <2>2, <2>3, <2>4, <2>5, <2>6 DEF LogInv
  <1>8. CASE IngestStop
    <2>1. /\ trace' = << >> /\ UNCHANGED <<content, chroma, unwritten, posts, log, position, dispatched>>
          /\ phase # "stopped" /\ phase' = "stopped" /\ stops' = stops + 1
      BY <1>8 DEF IngestStop, Stop
    <2>2. \A l : HavingLog(l)' = HavingLog(l) /\ (StoredOrLost(unwritten', chroma', l) <=> StoredOrLost(unwritten, chroma, l))
      BY <2>1 DEF HavingLog, Offsets, StoredOrLost
    <2>3. ASSUME NEW l \in Ids
          PROVE  chroma[l] <= Cardinality(HavingLog(l)) * (stops + 1) + 0 + posts
      <3>1. Cardinality(HavingLog(l)) \in Nat /\ Cardinality(Passed(l)) \in Nat /\ stops \in Nat /\ posts \in Nat
            /\ Cardinality(Passed(l)) <= Cardinality(HavingLog(l))
        BY LogCounts
      <3>2. PICK c \in Nat : c = Cardinality(HavingLog(l))
        BY <3>1
      <3>3. c * stops \in Nat /\ c * (stops + 1) = c * stops + c
        BY <3>1, <3>2, Products
      <3>4. chroma[l] \in Nat /\ chroma[l] <= c * stops + Cardinality(Passed(l)) + posts
        BY <1>3, <2>1, <3>2
      <3>. QED  BY <3>1, <3>2, <3>3, <3>4
    <2>4. DOMAIN trace' = {}
      BY <2>1
    <2>. QED  BY <2>1, <2>2, <2>3, <2>4 DEF LogInv
  <1>9. CASE IngestPublish
    <2>1. /\ Len(log') = Len(log) + 1 /\ \A o \in 1 .. Len(content) : content'[o] = content[o]
          /\ UNCHANGED <<chroma, unwritten, trace, posts, phase, position, dispatched, stops>>
          /\ Len(log) \in Nat
      BY <1>0, <1>9, PublishProperties
    <2>2. \A l : StoredOrLost(unwritten', chroma', l) <=> StoredOrLost(unwritten, chroma, l)
      BY <2>1 DEF StoredOrLost
    <2>3. ASSUME NEW l \in Ids
          PROVE  chroma[l] <= Cardinality(HavingLog(l)') * stops
                              + (IF phase = "stopped" THEN 0 ELSE Cardinality(Passed(l)')) + posts
      <3>1. /\ IsFiniteSet(HavingLog(l)) /\ Cardinality(HavingLog(l)) \in Nat /\ Cardinality(Passed(l)) \in Nat
            /\ stops \in Nat /\ posts \in Nat
        BY LogCounts
      <3>2. HavingLog(l) \subseteq HavingLog(l)' /\ Passed(l) \subseteq Passed(l)'
        <4>1. HavingLog(l) \subseteq HavingLog(l)'
          BY <1>0, <2>1 DEF HavingLog, Offsets
        <4>. QED  BY <2>1, <4>1 DEF Passed
      <3>3. IsFiniteSet(HavingLog(l)') /\ IsFiniteSet(Passed(l)')
        <4>1. HavingLog(l)' \subseteq 1 .. Len(log')
          BY DEF HavingLog, Offsets
        <4>2. IsFiniteSet(1 .. Len(log'))
          BY <2>1, FirstN
        <4>3. Passed(l)' \subseteq 1 .. Len(log')
          BY <4>1 DEF Passed
        <4>. QED  BY <4>1, <4>2, <4>3, FS_Subset
      <3>4. PICK c \in Nat, c2 \in Nat : c = Cardinality(HavingLog(l)) /\ c2 = Cardinality(HavingLog(l)') /\ c <= c2
        BY <3>1, <3>2, <3>3, FS_Subset, FS_CardinalityType
      <3>5. PICK d \in Nat, d2 \in Nat : d = Cardinality(Passed(l)) /\ d2 = Cardinality(Passed(l)') /\ d <= d2
        BY <3>1, <3>2, <3>3, FS_Subset, FS_CardinalityType
      <3>6. c * stops \in Nat /\ c2 * stops \in Nat /\ c * stops <= c2 * stops
        <4>1. c2 <= c2
          BY <3>4
        <4>. QED  BY <3>1, <3>4, <4>1, Products
      <3>7. chroma[l] \in Nat /\ chroma[l] <= c * stops + (IF phase = "stopped" THEN 0 ELSE d) + posts
        BY <1>3, <3>4, <3>5
      <3>. QED  BY <3>1, <3>4, <3>5, <3>6, <3>7
    <2>4. \A o \in dispatched : content'[o] = content[o]
      BY <1>0, <2>1
    <2>. QED  BY <2>1, <2>2, <2>3, <2>4 DEF LogInv
  <1>10. CASE ConsumerStep
    <2>1. /\ UNCHANGED <<content, chroma, unwritten, trace, posts, log, dispatched>>
          /\ phase' = "stopped" => phase = "stopped"
          /\ phase' # "stopped"
          /\ stops' = stops \/ stops' = stops + 1
          /\ phase = "stopped" \/ position' = position \/ stops' = stops + 1
      BY <1>10 DEF ConsumerStep, stores, Start, StartFails, Commit, CommitFails, PollFails, BackoffOver, Reassign, Consuming
    <2>2. \A l : HavingLog(l)' = HavingLog(l) /\ (StoredOrLost(unwritten', chroma', l) <=> StoredOrLost(unwritten, chroma, l))
      BY <2>1 DEF HavingLog, Offsets, StoredOrLost
    <2>3. ASSUME NEW l \in Ids
          PROVE  chroma[l] <= Cardinality(HavingLog(l)) * stops' + Cardinality(Passed(l)') + posts
      <3>1. Cardinality(HavingLog(l)) \in Nat /\ Cardinality(Passed(l)) \in Nat /\ stops \in Nat /\ posts \in Nat
            /\ Cardinality(Passed(l)) <= Cardinality(HavingLog(l)) /\ IsFiniteSet(HavingLog(l))
        BY LogCounts
      <3>2. Cardinality(Passed(l)') \in Nat
        <4>1. Passed(l)' \subseteq HavingLog(l)
          BY <2>2 DEF Passed
        <4>. QED  BY <3>1, <4>1, FS_Subset, FS_CardinalityType
      <3>3. PICK c \in Nat, d \in Nat, d2 \in Nat :
               c = Cardinality(HavingLog(l)) /\ d = Cardinality(Passed(l)) /\ d <= c /\ d2 = Cardinality(Passed(l)')
        BY <3>1, <3>2
      <3>4. c * stops \in Nat /\ c * (stops + 1) = c * stops + c
        BY <3>1, <3>3, Products
      <3>5. chroma[l] \in Nat /\ chroma[l] <= c * stops + (IF phase = "stopped" THEN 0 ELSE d) + posts
        BY <1>3, <3>3
      <3>6. phase = "stopped" \/ stops' = stops + 1 \/ d2 = d
        <4>1. position' = position => Passed(l)' = Passed(l)
          BY <2>2 DEF Passed
        <4>. QED  BY <2>1, <3>3, <4>1
      <3>7. CASE stops' = stops + 1
        BY <3>1, <3>3, <3>4, <3>5, <3>7
      <3>8. CASE stops' = stops
        <4>1. stops' # stops + 1
          BY <3>1, <3>8
        <4>2. CASE phase = "stopped"
          BY <3>1, <3>3, <3>4, <3>5, <3>8, <4>2
        <4>3. CASE d2 = d
          BY <3>1, <3>3, <3>4, <3>5, <3>8, <4>3
        <4>. QED  BY <3>6, <4>1, <4>2, <4>3
      <3>. QED  BY <2>1, <3>7, <3>8
    <2>. QED  BY <1>1, <1>2, <2>1, <2>2, <2>3 DEF LogInv
  <1>11. CASE GetTopology \/ Tick \/ UNCHANGED <<stores, vars>>
    <2>1. UNCHANGED <<content, chroma, unwritten, trace, posts, log, phase, position, dispatched, stops>>
      BY <1>11 DEF GetTopology, Tick, stores, vars
    <2>2. \A l : HavingLog(l)' = HavingLog(l) /\ Passed(l)' = Passed(l) /\ (StoredOrLost(unwritten', chroma', l) <=> StoredOrLost(unwritten, chroma, l))
      BY <2>1 DEF HavingLog, Passed, Offsets, StoredOrLost
    <2>. QED  BY <2>1, <2>2 DEF LogInv
  <1>. QED  BY <1>6, <1>7, <1>8, <1>9, <1>10, <1>11 DEF IngestNext

\* A ring of logs has the last that were handled.
LEMMA NewestAreHeld ==
    ASSUME IngestTyped, NEW l \in NewestLogs
    PROVE  l \in InMemory
  <1>. DEFINE events == LogsIn(trace)
              newer(n) == {e \in events : e > n}
  <1>1. PICK n \in events : trace[n].item.id = l /\ Cardinality(newer(n)) < MaxMemory
    BY DEF NewestLogs, LogsIn
  <1>2. PICK f : HeldLogs(mem.logs, trace, f)
    BY DEF IngestTyped, Kept, LogsOf
  <1>3. PICK len \in Nat : len = Len(mem.logs) /\ DOMAIN mem.logs = 1 .. len
    BY LenProperties DEF IngestTyped, Kept, Stores
  <1>4. Len(trace) \in Nat /\ events \subseteq 1 .. Len(trace) /\ MaxMemory \in Nat
    <2>1. trace \in Seq(Events)
      BY DEF IngestTyped, Kept
    <2>. QED  BY <2>1, LenProperties, RingAssumption DEF LogsIn
  <1>5. CASE \E j \in 1 .. len : f[j] = n
    <2>1. PICK j \in 1 .. len : f[j] = n
      BY <1>5
    <2>2. mem.logs[j].id = l /\ mem.logs[j] \in ToSet(mem.logs)
      BY <1>1, <1>2, <1>3, <2>1 DEF HeldLogs, ToSet
    <2>. QED  BY <2>2 DEF InMemory
  <1>6. CASE len = MaxMemory /\ \A j \in 1 .. len : n < f[j]
    <2>1. f \in [1 .. len -> newer(n)]
      BY <1>2, <1>3, <1>4, <1>6 DEF HeldLogs
    <2>2. \A j, k \in 1 .. len : j < k => f[j] < f[k]
      BY <1>2, <1>3 DEF HeldLogs
    <2>3. \A j, k \in 1 .. len : f[j] = f[k] => j = k
      <3>. SUFFICES ASSUME NEW j \in 1 .. len, NEW k \in 1 .. len, f[j] = f[k] PROVE j = k
        OBVIOUS
      <3>1. f[j] \in Nat /\ f[k] \in Nat
        BY <1>4, <2>1
      <3>. QED  BY <2>2, <3>1
    <2>4. IsFiniteSet(newer(n))
      <3>1. IsFiniteSet(1 .. Len(trace)) /\ newer(n) \subseteq 1 .. Len(trace)
        BY <1>4, FirstN
      <3>. QED  BY <3>1, FS_Subset
    <2>5. IsFiniteSet(1 .. len) /\ Cardinality(1 .. len) = len
      BY FirstN
    <2>. HIDE DEF newer
    <2>6. PICK S : S = newer(n)
      OBVIOUS
    <2>7. f \in Injection(1 .. len, S)
      BY <2>1, <2>3, <2>6 DEF Injection, IsInjective
    <2>8. Cardinality(1 .. len) <= Cardinality(S)
      BY <2>4, <2>5, <2>6, <2>7, FS_Injection
    <2>9. Cardinality(S) \in Nat
      BY <2>4, <2>6, FS_CardinalityType
    <2>. QED  BY <1>1, <1>4, <1>6, <2>5, <2>6, <2>8, <2>9
  <1>. QED  BY <1>1, <1>2, <1>3, <1>5, <1>6 DEF HeldLogs

\* An acknowledged log is found by a search unless a write of its own failed; a search
\* that falls back to the memory finds the newest logs since the start
\* (log_store.py:119, :175); and a log is stored at most once more for each stop.
THEOREM LogsAreFound == IngestSpec => []LogsSearchable
  <1>1. IngestInit => LogInv
    <2>. SUFFICES ASSUME IngestInit PROVE LogInv
      OBVIOUS
    <2>1. /\ dispatched = {} /\ trace = << >> /\ phase = "stopped" /\ stops = 0 /\ posts = 0
          /\ chroma = [i \in Ids |-> 0]
      BY DEF IngestInit, Init
    <2>2. ASSUME NEW l \in Ids
          PROVE  chroma[l] <= Cardinality(HavingLog(l)) * stops + 0 + posts
      <3>1. Cardinality(HavingLog(l)) \in Nat
        BY IngestInitTyped, LogCounts
      <3>2. Cardinality(HavingLog(l)) * 0 = 0
        BY <3>1
      <3>. QED  BY <2>1, <3>2
    <2>3. DOMAIN trace = {}
      BY <2>1
    <2>. QED  BY <2>1, <2>2, <2>3 DEF LogInv
  <1>2. IngestTyped /\ LogInv => LogsSearchable
    <2>. SUFFICES ASSUME IngestTyped, LogInv PROVE LogsSearchable
      OBVIOUS
    <2>0. /\ content \in Seq(Message) /\ Len(content) = Len(log) /\ chroma \in [Ids -> Nat] /\ LogsOf(mem, trace)
          /\ committed \in Nat /\ ReadIsAccountedFor /\ stops \in Nat /\ posts \in Nat
      BY LogCounts DEF IngestTyped, Kept, IInv, TypeOK
    <2>1. ASSUME NEW o \in Offsets, content[o].topic = "logs", o <= committed, o \notin forgone,
                 NEW i \in ToSet(Decoded(content[o])), i.kind = "valid"
          PROVE  i.id \in unwritten \/ (Collection => i.id \in Searched(FALSE))
      <3>1. o \in dispatched
        BY <2>0, <2>1 DEF ReadIsAccountedFor, Offsets
      <3>2. i.id \in Ids
        <4>1. content[o] \in Message
          BY <2>0, ElementOfSeq DEF Offsets
        <4>2. Decoded(content[o]) \in Seq(Items)
          BY <4>1, DecodedTypes
        <4>3. i \in Items
          BY <4>2, ElementOfSeq, LenProperties DEF ToSet
        <4>. QED  BY <4>3, ItemTypes
      <3>. QED  BY <2>1, <3>1, <3>2 DEF LogInv, StoredOrLost, Searched, InCollection
    <2>2. ASSUME NEW l \in Recent(MaxNow) \cup NewestLogs, NEW fails \in BOOLEAN
          PROVE  l \in Searched(fails) \/ (Collection /\ l \in unwritten)
      <3>1. l \in InMemory
        BY <2>2, NewestAreHeld DEF Recent, InMemory
      <3>2. CASE ~ (Collection /\ (fails => InCollection = {}))
        BY <3>1, <3>2 DEF Searched
      <3>3. CASE Collection /\ (fails => InCollection = {})
        <4>1. Searched(fails) = InCollection
          BY <3>3 DEF Searched
        <4>2. PICK f : HeldLogs(mem.logs, trace, f)
          BY <2>0 DEF LogsOf
        <4>3. PICK j \in 1 .. Len(mem.logs) : mem.logs[j].id = l
          <5>1. mem.logs \in Seq(Rows)
            BY DEF IngestTyped, Kept, Stores
          <5>. QED  BY <3>1, <5>1, LenProperties DEF InMemory, ToSet
        <4>4. PICK n \in DOMAIN trace : trace[n].topic = "logs" /\ trace[n].item.id = l
          BY <4>2, <4>3 DEF HeldLogs, LogsIn
        <4>5. StoredOrLost(unwritten, chroma, l)
          BY <4>4 DEF LogInv
        <4>6. l \in Ids
          <5>1. trace[n] \in Events
            BY <4>4, ElementOfSeq, LenProperties DEF IngestTyped, Kept
          <5>. QED  BY <4>4, <5>1, ItemTypes DEF Events
        <4>. QED  BY <3>3, <4>1, <4>5, <4>6 DEF StoredOrLost, InCollection
      <3>. QED  BY <3>2, <3>3
    <2>3. ASSUME NEW l \in Ids
          PROVE  chroma[l] <= Copies(l) * (1 + stops) + posts
      <3>1. Copies(l) = Cardinality(HavingLog(l))
        BY DEF Copies, HavingLog
      <3>2. PICK c \in Nat, d \in Nat : c = Cardinality(HavingLog(l)) /\ d = Cardinality(Passed(l)) /\ d <= c
        BY LogCounts
      <3>3. c * stops \in Nat /\ c * (stops + 1) = c * stops + c
        BY <2>0, <3>2, Products
      <3>4. chroma[l] \in Nat /\ chroma[l] <= c * stops + (IF phase = "stopped" THEN 0 ELSE d) + posts
        BY <2>0, <3>2 DEF LogInv
      <3>5. 1 + stops = stops + 1
        BY <2>0
      <3>6. chroma[l] <= c * stops + c + posts
        <4>1. PICK q \in Nat, copies \in Nat : q = c * stops /\ copies = chroma[l]
          BY <3>3, <3>4, Zenon
        <4>2. PICK passed \in Nat : passed = (IF phase = "stopped" THEN 0 ELSE d) /\ passed <= c
          BY <3>2
        <4>3. copies <= q + passed + posts /\ posts \in Nat
          BY <2>0, <3>4, <4>1, <4>2, Zenon
        <4>4. copies <= q + c + posts
          BY <3>2, <4>2, <4>3, NoMore, Zenon
        <4>. QED  BY <4>1, <4>4, Zenon
      <3>. QED  BY <3>1, <3>2, <3>3, <3>5, <3>6
    <2>. QED  BY <2>1, <2>2, <2>3 DEF LogsSearchable
  <1>. QED  BY <1>1, <1>2, LogStep, IngestTypedHolds, PTL DEF IngestSpec

-----------------------------------------------------------------------------
(* Catching up.  After a reassignment the history goes back to an older    *)
(* record; Replay says that the newer ones are handled again before the    *)
(* position is past them.                                                  *)

\* The events t of a process: each is of an item its handler took, and one with
\* an offset is of the message of the partition c at that offset.
OfTheLog(t, c) ==
    \A n \in DOMAIN t :
        /\ ~ Raises(t[n].topic, t[n].item)
        /\ t[n].o # 0 =>
              /\ t[n].o \in 1 .. Len(c) /\ t[n].topic = c[t[n].o].topic
              /\ t[n].item \in ToSet(Decoded(c[t[n].o]))

\* An event k before which the consumer was further on is followed by another
\* delivery of what it had handled, once it is past that again.
Redelivered(t, p) ==
    \A n, k \in DOMAIN t :
        (n < k /\ t[k].o # 0 /\ t[k].o < t[n].o /\ t[n].o <= p) =>
           \E l \in DOMAIN t : l > k /\ t[l].o = t[n].o /\ t[l].item = t[n].item

\* Without a redelivery the events come in the order of the partition.
Ascending(t, p) ==
    \A n \in DOMAIN t :
        /\ t[n].o <= p
        /\ \A k \in DOMAIN t : (n < k /\ t[k].o # 0) => t[n].o <= t[k].o

\* What the history owes to the partition.
Replay ==
    /\ OfTheLog(trace, content)
    /\ Redelivered(trace, position)
    /\ committed = 0 => Ascending(trace, position)

\* The offset of an event is a number.
LEMMA EventOffsets == ASSUME NEW t \in Seq(Events) PROVE \A n \in DOMAIN t : t[n] \in Events /\ t[n].o \in Nat
  <1>. SUFFICES ASSUME NEW n \in DOMAIN t PROVE t[n] \in Events /\ t[n].o \in Nat
    OBVIOUS
  <1>1. n \in 1 .. Len(t)
    BY LenProperties
  <1>2. t[n] \in Events
    BY <1>1, ElementOfSeq
  <1>. QED  BY <1>2 DEF Events

\* The history after a record.
LEMMA ReplayOfRecord ==
    ASSUME NEW t \in Seq(Events), NEW t2 \in Seq(Events), NEW c \in Seq(Message), NEW p \in 1 .. Len(c),
           NEW q \in Nat, p = q + 1, NEW at,
           Extends(t2, t, p, c[p].topic, Decoded(c[p]), at), OfTheLog(t, c), Redelivered(t, q)
    PROVE  /\ OfTheLog(t2, c) /\ Redelivered(t2, p)
           /\ Ascending(t, q) => Ascending(t2, p)
  <1>1. /\ Len(t) \in Nat /\ Len(t2) \in Nat /\ DOMAIN t = 1 .. Len(t) /\ DOMAIN t2 = 1 .. Len(t2)
        /\ Len(t) <= Len(t2) /\ Len(c) \in Nat /\ p \in Nat
    BY LenProperties DEF Extends
  <1>2. \A n \in DOMAIN t : n \in DOMAIN t2 /\ t2[n] = t[n] /\ t[n].o \in Nat
    BY <1>1, EventOffsets DEF Extends
  <1>3. \A n \in DOMAIN t2 : n \in DOMAIN t \/ n \in Len(t) + 1 .. Len(t2)
    BY <1>1
  <1>4. \A n \in Len(t) + 1 .. Len(t2) :
           /\ t2[n].o = p /\ t2[n].topic = c[p].topic /\ t2[n].item \in ToSet(Decoded(c[p]))
           /\ ~ Raises(c[p].topic, t2[n].item) /\ n \in DOMAIN t2 /\ \A k \in DOMAIN t : k < n
    BY <1>1 DEF Extends
  <1>5. OfTheLog(t2, c)
    <2>. SUFFICES ASSUME NEW n \in DOMAIN t2
                  PROVE  /\ ~ Raises(t2[n].topic, t2[n].item)
                         /\ t2[n].o # 0 =>
                               /\ t2[n].o \in 1 .. Len(c) /\ t2[n].topic = c[t2[n].o].topic
                               /\ t2[n].item \in ToSet(Decoded(c[t2[n].o]))
      BY DEF OfTheLog
    <2>1. CASE n \in DOMAIN t
      BY <1>2, <2>1 DEF OfTheLog
    <2>2. CASE n \in Len(t) + 1 .. Len(t2)
      BY <1>4, <2>2
    <2>. QED  BY <1>3, <2>1, <2>2
  <1>6. Redelivered(t2, p)
    <2>. SUFFICES ASSUME NEW n \in DOMAIN t2, NEW k \in DOMAIN t2, n < k, t2[k].o # 0,
                         t2[k].o < t2[n].o, t2[n].o <= p
                  PROVE  \E l \in DOMAIN t2 : l > k /\ t2[l].o = t2[n].o /\ t2[l].item = t2[n].item
      BY DEF Redelivered
    <2>1. k \in DOMAIN t
      <3>1. CASE k \in Len(t) + 1 .. Len(t2)
        <4>1. t2[k].o = p /\ t2[n].o \in Nat
          BY <1>1, <1>2, <1>3, <1>4, <3>1
        <4>. QED  BY <1>1, <4>1
      <3>. QED  BY <1>3, <3>1
    <2>2. n \in DOMAIN t
      BY <1>1, <2>1
    <2>3. t2[k] = t[k] /\ t2[n] = t[n] /\ t[n].o \in Nat /\ t[k].o \in Nat
      BY <1>2, <2>1, <2>2
    <2>4. CASE t[n].o <= q
      <3>1. PICK l \in DOMAIN t : l > k /\ t[l].o = t[n].o /\ t[l].item = t[n].item
        BY <2>1, <2>2, <2>3, <2>4 DEF Redelivered
      <3>. QED  BY <1>2, <2>3, <3>1
    <2>5. CASE t[n].o = p
      <3>1. t[n].item \in ToSet(Decoded(c[p])) /\ ~ Raises(c[p].topic, t[n].item)
        BY <1>1, <2>2, <2>5 DEF OfTheLog
      <3>2. PICK j \in DOMAIN Decoded(c[p]) : Decoded(c[p])[j] = t[n].item
        BY <3>1 DEF ToSet
      <3>3. j \in 1 .. Len(Decoded(c[p]))
        <4>1. c[p] \in Message
          BY ElementOfSeq
        <4>2. Decoded(c[p]) \in Seq(Items)
          BY <4>1, DecodedTypes
        <4>. QED  BY <3>2, <4>2, LenProperties
      <3>4. PICK l \in Len(t) + 1 .. Len(t2) : t2[l].item = Decoded(c[p])[j]
        BY <3>1, <3>2, <3>3 DEF Extends
      <3>. QED  BY <1>4, <2>1, <2>3, <2>5, <3>2, <3>4
    <2>. QED  BY <1>1, <2>3, <2>4, <2>5
  <1>7. ASSUME Ascending(t, q)
        PROVE  Ascending(t2, p)
    <2>1. ASSUME NEW n \in DOMAIN t2
          PROVE  t2[n].o <= p
      <3>1. CASE n \in DOMAIN t
        BY <1>1, <1>2, <1>7, <3>1 DEF Ascending
      <3>2. CASE n \in Len(t) + 1 .. Len(t2)
        BY <1>1, <1>4, <3>2
      <3>. QED  BY <1>3, <3>1, <3>2
    <2>2. ASSUME NEW n \in DOMAIN t2, NEW k \in DOMAIN t2, n < k, t2[k].o # 0
          PROVE  t2[n].o <= t2[k].o
      <3>1. CASE k \in DOMAIN t
        <4>1. n \in DOMAIN t
          BY <1>1, <2>2, <3>1
        <4>. QED  BY <1>2, <1>7, <2>2, <3>1, <4>1 DEF Ascending
      <3>2. CASE k \in Len(t) + 1 .. Len(t2)
        BY <1>4, <2>1, <3>2
      <3>. QED  BY <1>3, <3>1, <3>2
    <2>. QED  BY <2>1, <2>2 DEF Ascending
  <1>. QED  BY <1>5, <1>6, <1>7

\* The history after a body.
LEMMA ReplayOfBody ==
    ASSUME NEW t \in Seq(Events), NEW t2 \in Seq(Events), NEW c, NEW topic, NEW items,
           NEW q \in Nat, NEW at,
           Extends(t2, t, 0, topic, items, at), OfTheLog(t, c), Redelivered(t, q)
    PROVE  /\ OfTheLog(t2, c) /\ Redelivered(t2, q)
           /\ Ascending(t, q) => Ascending(t2, q)
  <1>1. /\ Len(t) \in Nat /\ Len(t2) \in Nat /\ DOMAIN t = 1 .. Len(t) /\ DOMAIN t2 = 1 .. Len(t2)
        /\ Len(t) <= Len(t2)
    BY LenProperties DEF Extends
  <1>2. \A n \in DOMAIN t : n \in DOMAIN t2 /\ t2[n] = t[n] /\ t[n].o \in Nat
    BY <1>1, EventOffsets DEF Extends
  <1>3. \A n \in DOMAIN t2 : n \in DOMAIN t \/ n \in Len(t) + 1 .. Len(t2)
    BY <1>1
  <1>4. \A n \in Len(t) + 1 .. Len(t2) :
           t2[n].o = 0 /\ t2[n].topic = topic /\ ~ Raises(topic, t2[n].item)
    BY <1>1 DEF Extends
  <1>5. OfTheLog(t2, c)
    <2>. SUFFICES ASSUME NEW n \in DOMAIN t2
                  PROVE  /\ ~ Raises(t2[n].topic, t2[n].item)
                         /\ t2[n].o # 0 =>
                               /\ t2[n].o \in 1 .. Len(c) /\ t2[n].topic = c[t2[n].o].topic
                               /\ t2[n].item \in ToSet(Decoded(c[t2[n].o]))
      BY DEF OfTheLog
    <2>1. CASE n \in DOMAIN t
      BY <1>2, <2>1 DEF OfTheLog
    <2>2. CASE n \in Len(t) + 1 .. Len(t2)
      BY <1>4, <2>2
    <2>. QED  BY <1>3, <2>1, <2>2
  <1>6. Redelivered(t2, q)
    <2>. SUFFICES ASSUME NEW n \in DOMAIN t2, NEW k \in DOMAIN t2, n < k, t2[k].o # 0,
                         t2[k].o < t2[n].o, t2[n].o <= q
                  PROVE  \E l \in DOMAIN t2 : l > k /\ t2[l].o = t2[n].o /\ t2[l].item = t2[n].item
      BY DEF Redelivered
    <2>1. k \in DOMAIN t
      BY <1>3, <1>4
    <2>2. n \in DOMAIN t
      BY <1>1, <2>1
    <2>3. t2[k] = t[k] /\ t2[n] = t[n]
      BY <1>2, <2>1, <2>2
    <2>4. PICK l \in DOMAIN t : l > k /\ t[l].o = t[n].o /\ t[l].item = t[n].item
      BY <2>1, <2>2, <2>3 DEF Redelivered
    <2>. QED  BY <1>2, <2>3, <2>4
  <1>7. ASSUME Ascending(t, q)
        PROVE  Ascending(t2, q)
    <2>1. ASSUME NEW n \in DOMAIN t2
          PROVE  t2[n].o <= q
      BY <1>2, <1>3, <1>4, <1>7 DEF Ascending
    <2>2. ASSUME NEW n \in DOMAIN t2, NEW k \in DOMAIN t2, n < k, t2[k].o # 0
          PROVE  t2[n].o <= t2[k].o
      <3>1. k \in DOMAIN t
        BY <1>3, <1>4, <2>2
      <3>2. n \in DOMAIN t
        BY <1>1, <2>2, <3>1
      <3>. QED  BY <1>2, <1>7, <2>2, <3>1, <3>2 DEF Ascending
    <2>. QED  BY <2>1, <2>2 DEF Ascending
  <1>. QED  BY <1>5, <1>6, <1>7

\* The position moves back, or on with nothing redelivered yet.
LEMMA ReplayAssigned ==
    ASSUME NEW t \in Seq(Events), NEW p \in Nat, NEW q \in Nat, Redelivered(t, p)
    PROVE  /\ q <= p => Redelivered(t, q)
           /\ Ascending(t, p) /\ p <= q => Redelivered(t, q) /\ Ascending(t, q)
  <1>1. \A n \in DOMAIN t : t[n].o \in Nat
    BY EventOffsets
  <1>2. ASSUME q <= p PROVE Redelivered(t, q)
    BY <1>1, <1>2 DEF Redelivered
  <1>3. ASSUME Ascending(t, p), p <= q PROVE Redelivered(t, q) /\ Ascending(t, q)
    <2>1. Redelivered(t, q)
      <3>. SUFFICES ASSUME NEW n \in DOMAIN t, NEW k \in DOMAIN t, n < k, t[k].o # 0, t[k].o < t[n].o
                    PROVE  FALSE
        BY DEF Redelivered
      <3>1. t[n].o <= t[k].o /\ t[n].o \in Nat /\ t[k].o \in Nat
        BY <1>1, <1>3 DEF Ascending
      <3>. QED  BY <3>1
    <2>2. Ascending(t, q)
      BY <1>1, <1>3 DEF Ascending
    <2>. QED  BY <2>1, <2>2
  <1>. QED  BY <1>2, <1>3

\* Every step of ingestion keeps the order in which the log was replayed.
LEMMA ReplayStep == IngestTyped /\ IngestTyped' /\ Replay /\ [IngestNext]_<<stores, vars>> => Replay'
  <1>. SUFFICES ASSUME IngestTyped, IngestTyped', Replay, [IngestNext]_<<stores, vars>> PROVE Replay'
    OBVIOUS
  <1>1. /\ trace \in Seq(Events) /\ trace' \in Seq(Events) /\ content \in Seq(Message) /\ content' \in Seq(Message)
        /\ Len(content) = Len(log) /\ Len(log) \in Nat /\ Len(content') \in Nat
        /\ position \in 0 .. Len(log) /\ committed \in 0 .. Len(log) /\ position' \in Nat /\ committed' \in Nat
        /\ Consuming => committed <= position
        /\ phase = "stopped" => trace = << >>
    BY LenProperties DEF IngestTyped, Kept, IInv, TypeOK, ReadIsAccountedFor
  <1>2. OfTheLog(trace, content) /\ Redelivered(trace, position) /\ (committed = 0 => Ascending(trace, position))
    BY DEF Replay
  <1>3. CASE IngestDispatch
    <2>1. /\ position' = position + 1 /\ position' \in 1 .. Len(content) /\ content' = content /\ committed' = committed
          /\ Extends(trace', trace, position', content[position'].topic, Decoded(content[position']), now)
      BY <1>3, DispatchProperties DEF Handles
    <2>2. PICK p \in 1 .. Len(content), t2 \in Seq(Events) : p = position' /\ t2 = trace'
      BY <1>1, <2>1
    <2>3. Extends(t2, trace, p, content[p].topic, Decoded(content[p]), now) /\ p = position + 1
      BY <2>1, <2>2
    <2>4. /\ OfTheLog(t2, content) /\ Redelivered(t2, p)
          /\ Ascending(trace, position) => Ascending(t2, p)
      <3>1. PICK q \in Nat : q = position
        BY <1>1
      <3>2. Redelivered(trace, q) /\ p = q + 1
        BY <1>2, <2>3, <3>1
      <3>3. /\ OfTheLog(t2, content) /\ Redelivered(t2, p)
            /\ Ascending(trace, q) => Ascending(t2, p)
        BY <1>1, <1>2, <2>3, <3>2, ReplayOfRecord
      <3>. QED  BY <3>1, <3>3
    <2>. QED  BY <1>2, <2>1, <2>2, <2>4 DEF Replay
  <1>4. CASE PostBody
    <2>1. PICK b \in Body : UNCHANGED <<content, now, vars>> /\ Handles(0, b.topic, b.items)
      BY <1>4, PostProperties
    <2>2. PICK t2 \in Seq(Events) : t2 = trace'
      BY <1>1
    <2>3. Extends(t2, trace, 0, b.topic, b.items, now) /\ UNCHANGED <<content, position, committed>>
      BY <2>1, <2>2 DEF Handles, vars
    <2>4. /\ OfTheLog(t2, content) /\ Redelivered(t2, position)
          /\ Ascending(trace, position) => Ascending(t2, position)
      BY <1>1, <1>2, <2>3, ReplayOfBody
    <2>. QED  BY <1>2, <2>2, <2>3, <2>4 DEF Replay
  <1>5. CASE trace' = << >>
    <2>1. DOMAIN trace' = {}
      BY <1>5
    <2>. QED  BY <2>1 DEF Replay, OfTheLog, Redelivered, Ascending
  <1>6. CASE IngestPublish
    <2>1. /\ UNCHANGED <<trace, position, committed>> /\ Len(content') = Len(content) + 1
          /\ \A o \in 1 .. Len(content) : content'[o] = content[o] /\ o \in 1 .. Len(content')
      BY <1>1, <1>6, PublishProperties
    <2>2. OfTheLog(trace, content')
      BY <1>2, <2>1 DEF OfTheLog
    <2>. QED  BY <1>2, <2>1, <2>2 DEF Replay
  <1>7. CASE ConsumerStep /\ phase # "stopped"
    <2>1. UNCHANGED <<content, trace>>
      BY <1>7 DEF ConsumerStep, stores
    <2>2. CASE Reassign
      <3>1. committed' = committed /\ position' = IF committed = 0 THEN Len(log) ELSE committed
        BY <2>2 DEF Reassign, Assigned, FetchPosition
      <3>2. PICK q \in Nat : q = position'
        BY <1>1
      <3>3. CASE committed = 0
        <4>1. position <= q
          BY <1>1, <3>1, <3>2, <3>3
        <4>2. Redelivered(trace, q) /\ Ascending(trace, q)
          BY <1>1, <1>2, <3>3, <4>1, ReplayAssigned
        <4>. QED  BY <1>2, <2>1, <3>1, <3>2, <4>2 DEF Replay
      <3>4. CASE committed # 0
        <4>1. q <= position
          BY <1>1, <2>2, <3>1, <3>2, <3>4 DEF Reassign
        <4>2. Redelivered(trace, q)
          BY <1>1, <1>2, <4>1, ReplayAssigned
        <4>. QED  BY <1>2, <2>1, <3>1, <3>2, <3>4, <4>2 DEF Replay
      <3>. QED  BY <3>3, <3>4
    <2>3. CASE Commit
      <3>1. position' = position /\ committed' = position
        BY <2>3 DEF Commit, CommitOffset
      <3>2. committed' = 0 => committed = 0
        BY <1>1, <2>3, <3>1 DEF Commit, Consuming
      <3>. QED  BY <1>2, <2>1, <3>1, <3>2 DEF Replay
    <2>4. CASE CommitFails \/ PollFails \/ BackoffOver
      <3>1. position' = position /\ committed' = committed
        BY <2>4 DEF CommitFails, PollFails, BackoffOver
      <3>. QED  BY <1>2, <2>1, <3>1 DEF Replay
    <2>5. ~ Start /\ ~ StartFails
      BY <1>7 DEF Start, StartFails
    <2>. QED  BY <1>7, <2>2, <2>3, <2>4, <2>5 DEF ConsumerStep
  <1>8. CASE ConsumerStep /\ phase = "stopped"
    <2>1. trace' = << >>
      BY <1>1, <1>8 DEF ConsumerStep, stores
    <2>. QED  BY <1>5, <2>1
  <1>9. CASE IngestStop
    BY <1>5, <1>9 DEF IngestStop
  <1>10. CASE GetTopology \/ Tick \/ UNCHANGED <<stores, vars>>
    <2>1. UNCHANGED <<content, trace, position, committed>>
      BY <1>10 DEF GetTopology, Tick, stores, vars
    <2>. QED  BY <1>2, <2>1 DEF Replay
  <1>. QED  BY <1>3, <1>4, <1>6, <1>7, <1>8, <1>9, <1>10 DEF IngestNext

-----------------------------------------------------------------------------
(* What a consumer that has caught up leaves in the stores.                *)

\* The newest items in the log of some events are of the last of them.
LEMMA NewestIsLast ==
    ASSUME IngestTyped, Replay, \A o \in HandledOffsets : o <= position,
           NEW E, E \subseteq DOMAIN trace, \A n \in E : trace[n].o # 0,
           \A n \in E, l \in DOMAIN trace :
               (trace[l].topic = trace[n].topic /\ trace[l].item = trace[n].item) => l \in E,
           NEW i \in NewestInLog(E)
    PROVE  \E e \in E : i = trace[e].item /\ \A f \in E : f <= e
  <1>1. PICK e \in E : /\ i = trace[e].item
                       /\ \A f \in E : trace[f].o <= trace[e].o
                       /\ \A f \in E : trace[f].o = trace[e].o => f <= e
    BY DEF NewestInLog
  <1>2. /\ trace \in Seq(Events) /\ DOMAIN trace \subseteq Nat /\ \A n \in DOMAIN trace : trace[n].o \in Nat
    BY LenProperties, EventOffsets DEF IngestTyped, Kept
  <1>3. ASSUME NEW f \in E, ~ (f <= e)
        PROVE  FALSE
    <2>1. e < f /\ e \in DOMAIN trace /\ f \in DOMAIN trace
      BY <1>2, <1>3
    <2>2. trace[f].o < trace[e].o
      BY <1>1, <1>2, <1>3, <2>1
    <2>3. trace[e].o <= position
      BY <2>1 DEF HandledOffsets
    <2>4. PICK l \in DOMAIN trace : l > f /\ trace[l].o = trace[e].o /\ trace[l].item = trace[e].item
      BY <2>1, <2>2, <2>3 DEF Replay, Redelivered
    <2>5. trace[l].topic = trace[e].topic
      BY <2>1, <2>4 DEF Replay, OfTheLog
    <2>6. l \in E
      BY <2>4, <2>5
    <2>7. l <= e
      BY <1>1, <2>4, <2>6
    <2>. QED  BY <1>2, <2>1, <2>4, <2>7
  <1>. QED  BY <1>1, <1>3

\* A function is the empty sequence if it has an empty domain.
LEMMA EmptyFunction ==
    ASSUME NEW f \in Metadata
    PROVE  f # << >> <=> DOMAIN f # {}
  <1>1. DOMAIN << >> = {} /\ f = [a \in DOMAIN f |-> f[a]]
    BY DEF Metadata
  <1>2. << >> = [a \in DOMAIN << >> |-> << >>[a]]
    OBVIOUS
  <1>3. CASE DOMAIN f = {}
    BY <1>1, <1>2, <1>3
  <1>. QED  BY <1>1, <1>3

\* The newest element of a ring.
LEMMA NewestOne ==
    ASSUME NEW S, NEW ring \in Seq(S), ring # << >>
    PROVE  Newest(ring, 1)[1] = Last(ring)
  <1>1. Len(ring) \in Nat /\ Len(ring) >= 1
    BY LenProperties, EmptySeq
  <1>2. CASE Len(ring) = 1
    BY <1>2 DEF Newest, Last
  <1>3. CASE Len(ring) > 1
    <2>1. Newest(ring, 1) = SubSeq(ring, Len(ring), Len(ring))
      BY <1>1, <1>3 DEF Newest
    <2>2. SubSeq(ring, Len(ring), Len(ring))[1] = ring[Len(ring)]
      BY <1>1
    <2>. QED  BY <2>1, <2>2 DEF Last
  <1>. QED  BY <1>1, <1>2, <1>3

\* What the readers find of the rings a caught-up consumer left.
LEMMA RingReaders ==
    ASSUME IngestTyped, NEW s \in Service
    PROVE  /\ mem.by[s] \in Seq(Rows) /\ mem.all \in Seq(Rows) /\ mem.metrics[s] \in Seq(Points)
           /\ mem.registry[s] \in Metadata
           /\ LatestForService(s) = ServiceDeployments(s, 0, 1)
           /\ ListDeployments(0, MaxAll) = mem.all
           /\ Series(s, MaxNow) = mem.metrics[s]
  <1>1. /\ mem.by[s] \in Seq(Rows) /\ mem.all \in Seq(Rows) /\ mem.metrics[s] \in Seq(Points)
        /\ mem.registry[s] \in Metadata
    BY DEF IngestTyped, Kept, Stores
  <1>2. ASSUME NEW rows \in Seq(Rows)
        PROVE  Since(rows, 0) = rows
    <2>1. \A d \in ToSet(rows) : d \in Rows
      BY ElementOfSeq, LenProperties DEF ToSet
    <2>2. ToSet(rows) \subseteq {d \in ToSet(rows) : d.time >= 0}
      BY <2>1 DEF Rows
    <2>. QED  BY <2>2, SelectAll DEF Since
  <1>3. LatestForService(s) = ServiceDeployments(s, 0, 1)
    BY <1>1, <1>2 DEF LatestForService, ServiceDeployments
  <1>4. ListDeployments(0, MaxAll) = mem.all
    <2>1. Len(mem.all) <= MaxAll
      BY DEF IngestTyped, Kept, RingsFit
    <2>. QED  BY <1>1, <1>2, <2>1 DEF ListDeployments, Newest
  <1>5. Series(s, MaxNow) = mem.metrics[s]
    <2>1. \A p \in ToSet(mem.metrics[s]) : p \in Points
      BY <1>1, ElementOfSeq, LenProperties DEF ToSet
    <2>2. \A p \in ToSet(mem.metrics[s]) : p.time + MaxNow >= now
      BY <2>1, RingAssumption DEF IngestTyped, Points
    <2>3. ToSet(mem.metrics[s]) \subseteq {p \in ToSet(mem.metrics[s]) : p.time + MaxNow >= now}
      BY <2>2
    <2>. QED  BY <1>1, <2>3, SelectAll DEF Series
  <1>. QED  BY <1>1, <1>3, <1>4, <1>5

\* However often the consumer was sent back (kafka_consumer.py:253), once it has
\* caught up the stores hold what is newest in the log (service_registry.py:84,
\* deployment_store.py:35).
THEOREM StoresCatchUp == IngestSpec => []CaughtUpStoresCurrent
  <1>1. IngestInit => Replay
    BY DEF IngestInit, Replay, OfTheLog, Redelivered, Ascending
  <1>2. IngestTyped /\ Replay => CaughtUpStoresCurrent
    <2>. SUFFICES ASSUME IngestTyped, Replay, \A o \in HandledOffsets : o <= position,
                         NEW s \in Service, \A n \in DOMAIN trace : trace[n].item.service = s => trace[n].o # 0
                  PROVE  /\ HasMetadata(s) <=> \E n \in EventsOf("spans", s) : trace[n].item.attrs # <<>>
                         /\ \A a \in DOMAIN mem.registry[s] :
                               \A i \in NewestInLog({n \in EventsOf("spans", s) : a \in DOMAIN trace[n].item.attrs}) :
                                  mem.registry[s][a] = i.attrs[a]
                         /\ \A i \in NewestInLog(EventsOf("deploys", s)) :
                               LET all == ListDeployments(0, MaxAll)
                                   listed == Select(all, {d \in ToSet(all) : d.service = s})
                               IN
                               /\ LatestForService(s) = ServiceDeployments(s, 0, 1)
                               /\ LatestForService(s)[1].id = i.id
                               /\ listed # <<>> => Last(listed).id = i.id
                         /\ \A i \in NewestInLog(EventsOf("metrics", s)) :
                               Last(Series(s, MaxNow)).id = i.id
      BY DEF CaughtUpStoresCurrent
    <2>1. /\ trace \in Seq(Events) /\ RegistryOf(mem, trace) /\ DeploysOf(mem, trace) /\ MetricsOf(mem, trace)
          /\ \A n \in DOMAIN trace : n \in Nat /\ trace[n] \in Events
      BY EventOffsets, LenProperties DEF IngestTyped, Kept
    <2>2. \A topic : EventsOf(topic, s) = EventsIn(trace, topic, s) /\ EventsOf(topic, s) \subseteq DOMAIN trace
      BY DEF EventsOf, EventsIn
    <2>3. HasMetadata(s) <=> \E n \in EventsOf("spans", s) : trace[n].item.attrs # <<>>
      <3>1. HasMetadata(s) <=> DOMAIN mem.registry[s] # {}
        BY RingReaders, EmptyFunction DEF HasMetadata
      <3>2. \A n \in DOMAIN trace : trace[n].item.attrs # << >> <=> DOMAIN trace[n].item.attrs # {}
        <4>. SUFFICES ASSUME NEW n \in DOMAIN trace
                      PROVE  trace[n].item.attrs # << >> <=> DOMAIN trace[n].item.attrs # {}
          OBVIOUS
        <4>1. trace[n].item \in Items
          BY <2>1 DEF Events
        <4>2. trace[n].item.attrs \in Metadata
          BY <4>1, ItemTypes
        <4>. QED  BY <4>2, EmptyFunction
      <3>3. DOMAIN mem.registry[s] # {} <=> \E n \in EventsOf("spans", s) : DOMAIN trace[n].item.attrs # {}
        BY <2>1, <2>2 DEF RegistryOf
      <3>. QED  BY <2>2, <3>1, <3>2, <3>3
    <2>4. ASSUME NEW a \in DOMAIN mem.registry[s],
                 NEW i \in NewestInLog({n \in EventsOf("spans", s) : a \in DOMAIN trace[n].item.attrs})
          PROVE  mem.registry[s][a] = i.attrs[a]
      <3>. DEFINE E == {n \in EventsOf("spans", s) : a \in DOMAIN trace[n].item.attrs}
      <3>1. /\ E \subseteq DOMAIN trace /\ \A n \in E : trace[n].o # 0
            /\ \A n \in E, l \in DOMAIN trace :
                   (trace[l].topic = trace[n].topic /\ trace[l].item = trace[n].item) => l \in E
        BY DEF EventsOf
      <3>2. i \in NewestInLog(E)
        BY <2>4
      <3>. HIDE DEF E
      <3>3. PICK e \in E : i = trace[e].item /\ \A f \in E : f <= e
        BY <3>1, <3>2, NewestIsLast
      <3>. USE DEF E
      <3>4. PICK n \in EventsIn(trace, "spans", s) :
               /\ a \in DOMAIN trace[n].item.attrs /\ mem.registry[s][a] = trace[n].item.attrs[a]
               /\ \A k \in EventsIn(trace, "spans", s) : k > n => a \notin DOMAIN trace[k].item.attrs
        BY <2>1 DEF RegistryOf
      <3>5. n \in E /\ n \in Nat /\ e \in Nat
        BY <2>1, <2>2, <3>3, <3>4
      <3>6. n <= e /\ ~ (e > n)
        BY <2>2, <3>3, <3>4, <3>5
      <3>7. n = e
        BY <3>5, <3>6
      <3>. QED  BY <3>3, <3>4, <3>7
    <2>5. ASSUME NEW topic, NEW i \in NewestInLog(EventsOf(topic, s))
          PROVE  \E e \in EventsIn(trace, topic, s) :
                     i = trace[e].item /\ \A f \in EventsIn(trace, topic, s) : f <= e
      <3>. DEFINE E == EventsOf(topic, s)
      <3>1. /\ E \subseteq DOMAIN trace /\ \A n \in E : trace[n].o # 0
            /\ \A n \in E, l \in DOMAIN trace :
                   (trace[l].topic = trace[n].topic /\ trace[l].item = trace[n].item) => l \in E
        BY DEF EventsOf
      <3>2. i \in NewestInLog(E)
        BY <2>5
      <3>3. E = EventsIn(trace, topic, s)
        BY <2>2
      <3>. HIDE DEF E
      <3>4. \E e \in E : i = trace[e].item /\ \A f \in E : f <= e
        BY <3>1, <3>2, NewestIsLast
      <3>. QED  BY <3>3, <3>4
    <2>6. ASSUME NEW i \in NewestInLog(EventsOf("deploys", s))
          PROVE  /\ LatestForService(s) = ServiceDeployments(s, 0, 1)
                 /\ LatestForService(s)[1].id = i.id
                 /\ Select(mem.all, {d \in ToSet(mem.all) : d.service = s}) # << >> =>
                       Last(Select(mem.all, {d \in ToSet(mem.all) : d.service = s})).id = i.id
      <3>1. PICK e \in EventsIn(trace, "deploys", s) :
               i = trace[e].item /\ \A f \in EventsIn(trace, "deploys", s) : f <= e
        BY <2>5, <2>6
      <3>2. mem.by[s] # << >> /\ Last(mem.by[s]).id = i.id
        BY <2>1, <3>1 DEF DeploysOf, LastIs
      <3>3. LatestForService(s)[1] = Last(mem.by[s])
        BY <3>2, RingReaders, NewestOne DEF LatestForService
      <3>4. ASSUME Select(mem.all, {d \in ToSet(mem.all) : d.service = s}) # << >>
            PROVE  Last(Select(mem.all, {d \in ToSet(mem.all) : d.service = s})).id = i.id
        <4>. DEFINE all == mem.all
                    wanted == {d \in ToSet(all) : d.service = s}
        <4>1. all \in Seq(Rows)
          BY RingReaders
        <4>2. DOMAIN all = 1 .. Len(all) /\ \A j \in 1 .. Len(all) : all[j] \in wanted <=> all[j].service = s
          BY <4>1, LenProperties DEF ToSet
        <4>3. Select(all, wanted) # << >>
          BY <3>4
        <4>. HIDE DEF all, wanted
        <4>4. PICK j \in 1 .. Len(all) :
                 /\ all[j] \in wanted /\ Last(Select(all, wanted)) = all[j]
                 /\ \A k \in 1 .. Len(all) : k > j => all[k] \notin wanted
          BY <4>1, <4>3, SelectProperties DEF SelectedUpTo
        <4>5. LastOfAll(all, s, j)
          BY <4>2, <4>4 DEF LastOfAll
        <4>6. all[j].id = i.id
          BY <2>1, <3>1, <4>5 DEF DeploysOf, all
        <4>. QED  BY <4>4, <4>6 DEF all, wanted
      <3>. QED  BY <3>2, <3>3, <3>4, RingReaders
    <2>7. ASSUME NEW i \in NewestInLog(EventsOf("metrics", s))
          PROVE  Last(Series(s, MaxNow)).id = i.id
      <3>1. PICK e \in EventsIn(trace, "metrics", s) :
               i = trace[e].item /\ \A f \in EventsIn(trace, "metrics", s) : f <= e
        BY <2>5, <2>7
      <3>2. Last(mem.metrics[s]).id = i.id
        BY <2>1, <3>1 DEF MetricsOf, LastIs
      <3>. QED  BY <3>2, RingReaders
    <2>8. ListDeployments(0, MaxAll) = mem.all
      BY RingReaders
    <2>. QED  BY <2>3, <2>4, <2>6, <2>7, <2>8
  <1>. QED  BY <1>1, <1>2, ReplayStep, IngestTypedHolds, PTL DEF IngestSpec
=============================================================================
