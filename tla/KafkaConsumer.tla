---------------------------- MODULE KafkaConsumer ----------------------------
(***************************************************************************)
(* KafkaConsumerService (app/consumer/kafka_consumer.py): the poll loop of *)
(* one consumer group on one partition, its manual commits, and stops,     *)
(* crashes, restarts and partition reassignments.                          *)
(*                                                                         *)
(* A dispatch never suspends (the span, metric, log and deploy handlers    *)
(* all return without waiting), so it is one step; the commit that follows *)
(* is a round trip and a step of its own.                                  *)
(***************************************************************************)
EXTENDS Naturals, Sequences, FiniteSets

CONSTANTS
    MaxLog,    \* bound: records published
    MaxStops   \* bound: stops, crashes, reassignments and failed polls

ASSUME BoundsAssumption == MaxLog \in Nat /\ MaxStops \in Nat

VARIABLES
    log,         \* the partition: how the dispatch of each record ends
    committed,   \* the group's committed offset, 0 when it has none
    phase,       \* where the consumer task is
    position,    \* records the consumer has been given
    dispatched,  \* history: records handed to a _process_ method
    forgone,     \* history: records a reset to "latest" jumped over
    since,       \* history: length of the log at the group's first start
    stops        \* bounded count of stops and reassignments

vars == <<log, committed, phase, position, dispatched, forgone, since, stops>>

-----------------------------------------------------------------------------

(* How the dispatch of a message ends.  It "returns" for every message a   *)
(* model accepts, whatever its handler made of it (the handlers swallow    *)
(* their exceptions), for bytes that are not JSON, for objects no model    *)
(* accepts, for a list cut short by a malformed item, and when no handler  *)
(* is configured.  It "raises" for a record without a value: json.loads    *)
(* raises a TypeError, which the decoding does not catch.                  *)
Ending == {"returns", "raises"}

\* Records of the log.
Offsets == 1 .. Len(log)

-----------------------------------------------------------------------------

Init ==
    /\ log \in {<<>>, <<"returns">>}
    /\ committed = 0
    /\ phase = "stopped"
    /\ position = 0
    /\ dispatched = {}
    /\ forgone = {}
    /\ since = MaxLog
    /\ stops = 0

\* javi-collector publishes a record.
Publish ==
    /\ Len(log) < MaxLog
    /\ \E m \in Ending : log' = Append(log, m)
    /\ UNCHANGED <<committed, phase, position, dispatched, forgone, since, stops>>

\* Mutant: the committed offset is ignored on assignment.
FetchPositionEarliest(p) == p = 0

\* Where an assigned consumer starts to read: the committed offset, or the
\* end of the log when there is none (auto_offset_reset="latest").
FetchPosition(p) == p = IF committed = 0 THEN Len(log) ELSE committed

\* The partition is assigned with nothing fetched yet.
Assigned ==
    /\ FetchPosition(position')
    /\ forgone' = IF committed = 0 THEN Offsets ELSE forgone

(* start, in a process that comes up: the consumer joins the group and the  *)
(* poll loop begins.                                                       *)
Start ==
    /\ phase = "stopped"
    /\ phase' = "polling"
    /\ Assigned
    /\ since' = IF since < Len(log) THEN since ELSE Len(log)
    /\ UNCHANGED <<log, committed, dispatched, stops>>

(* start raises (no broker answers): the lifespan logs it and serves HTTP  *)
(* without a consumer.  Nothing starts one again until the process ends.   *)
StartFails ==
    /\ phase = "stopped"
    /\ phase' = "abandoned"
    /\ UNCHANGED <<log, committed, position, dispatched, forgone, since, stops>>

\* The poll loop runs.
Consuming == phase \in {"polling", "committing", "backoff"}

\* Mutant: a record that raises is polled again.
AdvanceUnlessRaised(m) == IF m = "raises" THEN position ELSE position + 1

\* getone moves the position on as it hands out the record.
Advance(m) == position + 1

(* _consume_loop takes a record and dispatches it by its topic.  An        *)
(* exception skips the commit and sends the loop to sleep.                 *)
Dispatch ==
    /\ phase = "polling"
    /\ position < Len(log)
    /\ LET o == position + 1
       IN  /\ position' = Advance(log[o])
           /\ dispatched' = dispatched \cup {o}
           /\ phase' = IF log[o] = "raises" THEN "backoff" ELSE "committing"
    /\ UNCHANGED <<log, committed, forgone, since, stops>>

\* Mutant: the end of the fetched log is committed.
CommitOffsetFetched == Len(log)

\* commit() without arguments commits the consumer's position.
CommitOffset == position

\* await self._consumer.commit() succeeds.
Commit ==
    /\ phase = "committing"
    /\ phase' = "polling"
    /\ committed' = CommitOffset
    /\ UNCHANGED <<log, position, dispatched, forgone, since, stops>>

\* The commit fails; the loop logs it and polls on.
CommitFails ==
    /\ phase = "committing"
    /\ phase' = "polling"
    /\ UNCHANGED <<log, committed, position, dispatched, forgone, since, stops>>

\* Fetching the next record raises (no broker, an authorisation lost): the loop
\* sleeps as after any exception.
PollFails ==
    /\ phase = "polling"
    /\ stops < MaxStops
    /\ stops' = stops + 1
    /\ phase' = "backoff"
    /\ UNCHANGED <<log, committed, position, dispatched, forgone, since>>

\* The loop's sleep after an exception is over: it polls on from its position.
BackoffOver ==
    /\ phase = "backoff"
    /\ phase' = "polling"
    /\ UNCHANGED <<log, committed, position, dispatched, forgone, since, stops>>

(* stop cancels the task, or the process crashes: whatever the task was    *)
(* doing is dropped.  A commit in flight may still reach the broker.       *)
Stop ==
    /\ phase # "stopped"
    /\ stops < MaxStops
    /\ stops' = stops + 1
    /\ phase' = "stopped"
    /\ \/ UNCHANGED committed
       \/ phase = "committing" /\ committed' = CommitOffset
    /\ UNCHANGED <<log, position, dispatched, forgone, since>>

(* The broker takes the partition away and gives it back (a missed         *)
(* heartbeat, another replica joining): the consumer restarts from the     *)
(* committed offset without noticing.                                      *)
Reassign ==
    /\ Consuming
    /\ stops < MaxStops
    /\ stops' = stops + 1
    /\ Assigned
    /\ UNCHANGED <<log, committed, phase, dispatched, since>>

Next ==
    \/ Publish
    \/ Start
    \/ StartFails
    \/ Dispatch
    \/ Commit
    \/ CommitFails
    \/ PollFails
    \/ BackoffOver
    \/ Stop
    \/ Reassign

Spec == Init /\ [][Next]_vars

(* asyncio runs a task whose await has completed, aiokafka answers or      *)
(* fails a commit and a start, and the deployment restarts a process that  *)
(* ended.  That a start succeeds is not assumed.                           *)
Fairness ==
    /\ WF_vars(Start \/ StartFails)
    /\ WF_vars(Dispatch)
    /\ WF_vars(Commit \/ CommitFails)
    /\ WF_vars(BackoffOver)

FairSpec == Spec /\ Fairness

-----------------------------------------------------------------------------
(* Properties.                                                             *)

\* Every variable has the type of the state it models.
TypeOK ==
    /\ log \in Seq(Ending)
    /\ committed \in 0 .. Len(log)
    /\ phase \in {"stopped", "abandoned", "polling", "committing", "backoff"}
    /\ position \in 0 .. Len(log)
    /\ dispatched \subseteq Offsets
    /\ forgone \subseteq Offsets
    /\ since \in 0 .. MaxLog
    /\ stops \in 0 .. MaxStops

\* The promise of the commit discipline (kafka_consumer.py:253): the poll loop
\* with its swallowed errors, failed commits, stops and reassignments hands
\* every record to the application before the group acknowledges it.
Promise == INSTANCE AtLeastOnce
           WITH published <- Len(log), delivered <- dispatched, acked <- committed

AcknowledgesOnlyDelivered == Promise!Spec

\* A commit never takes the group back: a late commit, one in flight when the
\* process stops, or one after a reassignment does not undo an earlier one.
CommitsMonotone == [][committed' >= committed]_vars

\* No record blocks the partition: whatever its shape and wherever the process
\* stops, each published record is eventually handed to the application,
\* unless a reset to "latest" jumped over it, or the start of the consumer
\* failed and the process stays up without one for good (main.py:274).
EventuallyDispatched ==
    \A o \in 1 .. MaxLog :
        (o \in Offsets) ~> (o \in dispatched \cup forgone \/ [](phase = "abandoned"))

\* What ARCHITECTURE.md:78 and :165 say of a crash ("the same message may be
\* processed twice"): after the group's first start no record is jumped over.
NoRecordSkipped ==
    \A o \in Offsets : since < o /\ o <= position => o \in dispatched
=============================================================================
