--------------------------- MODULE LifecycleProofs ---------------------------
(***************************************************************************)
(* Theorems of Lifecycle, whatever the configuration may enable: the order *)
(* of start-up and shutdown keeps every client open as long as a task that *)
(* uses it lives, a completed shutdown leaves nothing behind, and only a   *)
(* living process answers that it is ready.                                *)
(*                                                                         *)
(* The inductive invariant relates the clients and tasks to the position   *)
(* of the lifespan in StartUp or ShutDown.                                 *)
(***************************************************************************)
EXTENDS Lifecycle, TLAPS

\* The task of an engine is over or was never made.
Over(e) == task[e] \in {"none", "ended"}

\* During start-up an engine before its turn has no task, and the alerter is
\* open from its step on.
StartUpInv ==
    phase = "starting" =>
        /\ at \in 1 .. 14
        /\ at <= 5 => \A e \in Engine : task[e] = "none"
        /\ at >= 5 => client["alerter"] = "open"

\* During shutdown everything up to the position is stopped, flushed or closed.
ShutDownInv ==
    phase = "stopping" =>
        /\ at \in 1 .. 14
        /\ at > 1 => ~ready
        /\ \A i \in 1 .. 14 : i < at /\ ShutDown[i] \in Engine => Over(ShutDown[i])
        /\ at > 11 => ~bucket
        /\ at <= 12 => client["alerter"] = "open"
        /\ at > 12 => client["alerter"] # "open"
        /\ at > 13 => client["clickhouse"] # "open"

\* Only the detector trains and dies; probes end before the shutdown begins.
OtherInv ==
    /\ \A e \in Engine : task[e] \in {"training", "dead"} => e = "detector"
    /\ phase = "serving" => client["alerter"] = "open"
    /\ probe # "none" => phase = "serving"

IInv ==
    /\ TypeOK
    /\ StartUpInv
    /\ ShutDownInv
    /\ OtherInv
    /\ TasksUseOpenClients
    /\ ShutDownComplete

-----------------------------------------------------------------------------
(* The two sequences.                                                      *)

\* Where the clients stand in the order of start-up, and that all engines follow.
LEMMA StartUpOrder ==
    ASSUME NEW n \in 1 .. 14
    PROVE  /\ StartUp[n] = "redis" <=> n = 1
           /\ StartUp[n] = "clickhouse" <=> n = 2
           /\ StartUp[n] = "alerter" <=> n = 4
           /\ StartUp[n] = "ready" <=> n = 14
           /\ StartUp[n] \in Engine => n \in 5 .. 13
  BY DEF StartUp, Engine

\* Every engine stops before the flush, which comes before the clients are closed.
LEMMA ShutDownOrder ==
    /\ \A n \in 1 .. 14 :
          /\ ShutDown[n] = "unready" <=> n = 1
          /\ ShutDown[n] \in Engine <=> n \in 2 .. 10
          /\ ShutDown[n] = "flush" <=> n = 11
          /\ ShutDown[n] = "alerter" <=> n = 12
          /\ ShutDown[n] = "clickhouse" <=> n = 13
          /\ ShutDown[n] = "redis" <=> n = 14
    /\ \A e \in Engine : \E n \in 2 .. 10 : ShutDown[n] = e
  <1>1. ASSUME NEW n \in 1 .. 14
        PROVE  /\ ShutDown[n] = "unready" <=> n = 1
               /\ ShutDown[n] \in Engine <=> n \in 2 .. 10
               /\ ShutDown[n] = "flush" <=> n = 11
               /\ ShutDown[n] = "alerter" <=> n = 12
               /\ ShutDown[n] = "clickhouse" <=> n = 13
               /\ ShutDown[n] = "redis" <=> n = 14
    BY DEF ShutDown, Engine
  <1>2. ASSUME NEW e \in Engine
        PROVE  \E n \in 2 .. 10 : ShutDown[n] = e
    <2>1. /\ ShutDown[2] = "forecaster" /\ ShutDown[3] = "jvm" /\ ShutDown[4] = "burn"
          /\ ShutDown[5] = "rca" /\ ShutDown[6] = "detector" /\ ShutDown[7] = "baseline"
          /\ ShutDown[8] = "var" /\ ShutDown[9] = "granger" /\ ShutDown[10] = "kafka"
      BY DEF ShutDown
    <2>. QED  BY <2>1 DEF Engine
  <1>. QED  BY <1>1, <1>2

\* After the last engine's turn every task is over.
LEMMA AllOver ==
    ASSUME IInv, phase = "stopping", at > 10
    PROVE  \A e \in Engine : Over(e)
  BY ShutDownOrder DEF IInv, ShutDownInv

-----------------------------------------------------------------------------

\* Before the start-up nothing is open and nothing runs.
LEMMA InitIInv == Init => IInv
  <1>. SUFFICES ASSUME Init PROVE IInv
    OBVIOUS
  <1>1. \A e \in Engine : task[e] = "none"
    BY DEF Init
  <1>2. TypeOK
    <2>1. pending \in 0 .. MaxPending
      BY LifecycleAssumption DEF Init
    <2>2. client \in [Client -> {"absent", "open", "closed"}]
      BY DEF Init
    <2>3. task \in [Engine -> {"none", "training", "running", "dead", "ended"}]
      BY DEF Init
    <2>4. enabled \subseteq Settings /\ at \in 1 .. 15
      BY DEF Init
    <2>5. /\ phase = "starting" /\ bucket \in BOOLEAN /\ ready \in BOOLEAN
          /\ probe = "none" /\ answer = "none"
      BY DEF Init
    <2>. QED  BY <2>1, <2>2, <2>3, <2>4, <2>5 DEF TypeOK
  <1>3. StartUpInv /\ ShutDownInv /\ OtherInv
    BY <1>1 DEF Init, StartUpInv, ShutDownInv, OtherInv
  <1>4. TasksUseOpenClients /\ ShutDownComplete
    BY <1>1 DEF Init, TasksUseOpenClients, ShutDownComplete, Alive, UsesAlerter,
                UsesClickHouse, Engine
  <1>. QED  BY <1>2, <1>3, <1>4 DEF IInv

\* A step of the start-up keeps the invariant.
LEMMA StartUpKeeps ==
    ASSUME IInv, StartUpStep
    PROVE  IInv'
  <1>. USE DEF IInv, TypeOK, StartUpInv, ShutDownInv, OtherInv, Client, Starting
  <1>0. phase = "starting" /\ at \in 1 .. 14 /\ probe = "none"
    BY DEF StartUpStep, Connect, Load, StartAlerter, StartEngine, MarkReady
  <1>1. CASE Connect
    <2>1. at \in 1 .. 2
      BY <1>0, <1>1, StartUpOrder DEF Connect
    <2>2. \A e \in Engine : ~Alive(e) /\ ~Alive(e)'
      BY <1>0, <1>1, <2>1 DEF Connect, Alive
    <2>3. TypeOK' /\ StartUpInv' /\ ShutDownInv' /\ OtherInv'
      BY <1>0, <1>1, <2>1 DEF Connect
    <2>4. TasksUseOpenClients' /\ ShutDownComplete'
      BY <1>0, <1>1, <2>2 DEF Connect, TasksUseOpenClients, ShutDownComplete, UsesAlerter,
                              UsesClickHouse, Engine
    <2>. QED  BY <2>3, <2>4
  <1>2. CASE Load
    <2>1. at \in 1 .. 13
      BY <1>0, <1>2, StartUpOrder DEF Load
    <2>2. at # 4 /\ at # 5
      BY <1>0, <1>2 DEF Load, StartUp
    <2>. QED  BY <1>0, <1>2, <2>1, <2>2 DEF Load, TasksUseOpenClients, ShutDownComplete, Alive
  <1>3. CASE StartAlerter
    <2>1. at = 4
      BY <1>0, <1>3, StartUpOrder DEF StartAlerter
    <2>. QED
      BY <1>0, <1>3, <2>1 DEF StartAlerter, TasksUseOpenClients, ShutDownComplete, Alive
  <1>4. CASE StartEngine
    <2>1. PICK e \in Engine :
            /\ Starting(e)
            /\ \/ Wanted(e) /\ task' = [task EXCEPT ![e] = IF e = "detector" THEN "training" ELSE "running"]
               \/ UNCHANGED task
      BY <1>4 DEF StartEngine
    <2>2. at \in 5 .. 13
      BY <1>0, <2>1, StartUpOrder
    <2>3. UNCHANGED <<enabled, phase, client, bucket, pending, ready, probe, answer>> /\ at' = at + 1
      BY <1>4 DEF StartEngine
    <2>4. TypeOK' /\ StartUpInv' /\ ShutDownInv' /\ OtherInv'
      BY <1>0, <2>1, <2>2, <2>3
    <2>5. TasksUseOpenClients'
      BY <1>0, <2>1, <2>2, <2>3 DEF TasksUseOpenClients, Alive, Wanted, UsesAlerter,
                                    UsesClickHouse, Engine
    <2>6. ShutDownComplete'
      BY <1>0, <2>3 DEF ShutDownComplete
    <2>. QED  BY <2>4, <2>5, <2>6
  <1>5. CASE MarkReady
    <2>1. at = 14
      BY <1>0, <1>5, StartUpOrder DEF MarkReady
    <2>. QED
      BY <1>0, <1>5, <2>1 DEF MarkReady, TasksUseOpenClients, ShutDownComplete, Alive
  <1>. QED  BY <1>1, <1>2, <1>3, <1>4, <1>5 DEF StartUpStep

\* A step of the running process keeps it, in every phase it is possible in.
LEMMA RunningKeeps ==
    ASSUME IInv, Running
    PROVE  IInv'
  <1>. USE DEF IInv, TypeOK, StartUpInv, ShutDownInv, OtherInv, Over
  <1>1. CASE Ingest
    <2>1. phase = "stopping" => at <= 11
      BY <1>1, AllOver, ShutDownOrder DEF Ingest, Engine
    <2>2. phase # "done"
      BY <1>1 DEF Ingest, ShutDownComplete, Engine
    <2>3. TypeOK'
      BY <1>1, LifecycleAssumption DEF Ingest, Scheduled
    <2>4. StartUpInv' /\ ShutDownInv' /\ OtherInv' /\ TasksUseOpenClients'
      BY <1>1, <2>1 DEF Ingest, TasksUseOpenClients, Alive
    <2>5. ShutDownComplete'
      BY <1>1, <2>2 DEF Ingest, ShutDownComplete
    <2>. QED  BY <2>3, <2>4, <2>5
  <1>2. CASE Persist
    <2>1. TypeOK'
      BY <1>2, LifecycleAssumption DEF Persist
    <2>. QED  BY <1>2, <2>1 DEF Persist, TasksUseOpenClients, ShutDownComplete, Alive
  <1>3. CASE FirstTraining
    <2>1. PICK end \in {"running", "dead"} : task' = [task EXCEPT !["detector"] = end]
      BY <1>3 DEF FirstTraining
    <2>2. /\ task["detector"] = "training"
          /\ UNCHANGED <<enabled, phase, at, client, bucket, pending, ready, probe, answer>>
      BY <1>3 DEF FirstTraining
    <2>3. "detector" \in Engine /\ "detector" \in UsesAlerter /\ "detector" \in UsesClickHouse
      BY DEF Engine, UsesAlerter, UsesClickHouse
    <2>4. phase # "done" /\ phase # "aborted"
      BY <2>2, <2>3 DEF ShutDownComplete
    <2>5. TypeOK' /\ StartUpInv' /\ OtherInv'
      BY <2>1, <2>2, <2>3
    <2>6. ShutDownInv'
      BY <2>1, <2>2, <2>3
    <2>7. TasksUseOpenClients'
      BY <2>1, <2>2, <2>3 DEF TasksUseOpenClients, Alive, UsesAlerter, UsesClickHouse, Engine
    <2>8. ShutDownComplete'
      BY <2>2, <2>4 DEF ShutDownComplete
    <2>. QED  BY <2>5, <2>6, <2>7, <2>8
  <1>4. CASE Probe \/ Pinged \/ Answer
    BY <1>4 DEF Probe, Pinged, Answer, TasksUseOpenClients, ShutDownComplete, Alive
  <1>. QED  BY <1>1, <1>2, <1>3, <1>4 DEF Running

\* A step of the shutdown keeps it; the last client is closed after everything else.
LEMMA ShutDownKeeps ==
    ASSUME IInv, ShutDownStep
    PROVE  IInv'
  <1>. USE DEF IInv, TypeOK, StartUpInv, ShutDownInv, OtherInv, Over, Stopping
  <1>0. phase = "stopping" /\ at \in 1 .. 14 /\ probe = "none"
    BY DEF ShutDownStep, Unready, StopEngine, StopRaises, Flush, Close, CloseRedis
  <1>1. CASE Unready
    <2>1. at = 1
      BY <1>0, <1>1, ShutDownOrder DEF Unready
    <2>2. at' = 2 /\ ready' = FALSE
      BY <1>1, <2>1 DEF Unready
    <2>3. UNCHANGED <<enabled, phase, client, task, bucket, pending, probe, answer>>
      BY <1>1 DEF Unready
    <2>4. ShutDown[1] \notin Engine
      BY ShutDownOrder
    <2>5. ShutDownInv'
      BY <1>0, <2>1, <2>2, <2>3, <2>4
    <2>6. TypeOK' /\ StartUpInv' /\ OtherInv'
      <3>1. at' \in 1 .. 15
        BY <2>2
      <3>2. ready' \in BOOLEAN
        BY <2>2, Zenon
      <3>3. TypeOK'
        BY <2>3, <3>1, <3>2
      <3>. QED  BY <1>0, <2>3, <3>3
    <2>7. TasksUseOpenClients' /\ ShutDownComplete'
      BY <1>0, <2>3 DEF TasksUseOpenClients, ShutDownComplete, Alive
    <2>. QED  BY <2>5, <2>6, <2>7
  <1>2. CASE StopEngine
    <2>1. PICK e \in Engine :
            /\ ShutDown[at] = e
            /\ task' = [task EXCEPT ![e] = IF @ = "none" THEN @ ELSE "ended"]
      BY <1>2 DEF StopEngine
    <2>2. at \in 2 .. 10
      BY <1>0, <2>1, ShutDownOrder
    <2>3. UNCHANGED <<enabled, phase, client, bucket, pending, ready, probe, answer>> /\ at' = at + 1
      BY <1>2 DEF StopEngine
    <2>4. TypeOK' /\ StartUpInv' /\ OtherInv'
      BY <1>0, <2>1, <2>2, <2>3
    <2>5. Over(e)' /\ \A d \in Engine : Over(d) => Over(d)'
      BY <2>1
    <2>6. ASSUME NEW i \in 1 .. 14, i < at', ShutDown[i] \in Engine
          PROVE  Over(ShutDown[i])'
      BY <1>0, <2>1, <2>2, <2>3, <2>5, <2>6
    <2>7. ShutDownInv'
      BY <1>0, <2>2, <2>3, <2>6
    <2>8. TasksUseOpenClients'
      BY <2>1, <2>3 DEF TasksUseOpenClients, Alive, UsesAlerter, UsesClickHouse, Engine
    <2>9. ShutDownComplete'
      BY <1>0, <2>3 DEF ShutDownComplete
    <2>. QED  BY <2>4, <2>7, <2>8, <2>9
  <1>3. CASE StopRaises
    <2>1. task["detector"] = "dead"
      BY <1>3 DEF StopRaises
    <2>. QED
      BY <1>0, <1>3, <2>1 DEF StopRaises, TasksUseOpenClients, ShutDownComplete, Alive
  <1>4. CASE Flush
    <2>1. at = 11
      BY <1>0, <1>4, ShutDownOrder DEF Flush
    <2>2. TypeOK'
      <3>1. pending' \in 0 .. MaxPending
        BY <1>4, LifecycleAssumption DEF Flush, Scheduled
      <3>2. at' \in 1 .. 15 /\ bucket' = FALSE
        BY <1>4, <2>1 DEF Flush
      <3>3. UNCHANGED <<enabled, phase, client, task, ready, probe, answer>>
        BY <1>4 DEF Flush
      <3>. QED  BY <3>1, <3>2, <3>3
    <2>3. ShutDownInv' /\ StartUpInv' /\ OtherInv'
      BY <1>0, <1>4, <2>1, ShutDownOrder DEF Flush
    <2>. QED
      BY <1>0, <1>4, <2>2, <2>3 DEF Flush, TasksUseOpenClients, ShutDownComplete, Alive
  <1>5. CASE Close
    <2>1. PICK c \in {"alerter", "clickhouse"} :
            /\ ShutDown[at] = c
            /\ client' = [client EXCEPT ![c] = IF @ = "open" THEN "closed" ELSE @]
      BY <1>5 DEF Close
    <2>2. (c = "alerter" /\ at = 12) \/ (c = "clickhouse" /\ at = 13)
      BY <1>0, <2>1, ShutDownOrder
    <2>3. UNCHANGED <<enabled, phase, task, bucket, pending, ready, probe, answer>> /\ at' = at + 1
      BY <1>5 DEF Close
    <2>4. \A e \in Engine : Over(e)
      BY <1>0, <2>2, AllOver
    <2>5. TypeOK' /\ StartUpInv' /\ OtherInv'
      BY <1>0, <2>1, <2>2, <2>3 DEF Client
    <2>6. ASSUME NEW i \in 1 .. 14, i < at', ShutDown[i] \in Engine
          PROVE  Over(ShutDown[i])'
      BY <2>3, <2>4, <2>6
    <2>7. ShutDownInv'
      BY <1>0, <2>1, <2>2, <2>3, <2>6 DEF Client
    <2>8. TasksUseOpenClients' /\ ShutDownComplete'
      BY <1>0, <2>3, <2>4 DEF TasksUseOpenClients, ShutDownComplete, Alive, UsesAlerter,
                              UsesClickHouse, Engine
    <2>. QED  BY <2>5, <2>7, <2>8
  <1>6. CASE CloseRedis
    <2>1. at = 14
      BY <1>0, <1>6, ShutDownOrder DEF CloseRedis
    <2>2. \A e \in Engine : Over(e)
      BY <1>0, <2>1, AllOver
    <2>3. TypeOK' /\ StartUpInv' /\ ShutDownInv' /\ OtherInv'
      BY <1>0, <1>6, <2>1, LifecycleAssumption DEF CloseRedis, Client
    <2>4. TasksUseOpenClients'
      BY <1>6, <2>2 DEF CloseRedis, TasksUseOpenClients, Alive, UsesAlerter, UsesClickHouse, Engine
    <2>5. ShutDownComplete'
      BY <1>0, <1>6, <2>1, <2>2 DEF CloseRedis, ShutDownComplete, Client
    <2>. QED  BY <2>3, <2>4, <2>5
  <1>. QED  BY <1>1, <1>2, <1>3, <1>4, <1>5, <1>6 DEF ShutDownStep

-----------------------------------------------------------------------------

\* The invariant is inductive.
LEMMA NextIInv == IInv /\ [Next]_vars => IInv'
  <1>. SUFFICES ASSUME IInv, [Next]_vars PROVE IInv'
    OBVIOUS
  <1>1. CASE RequestStop
    BY <1>1, ShutDownOrder
       DEF RequestStop, IInv, TypeOK, StartUpInv, ShutDownInv, OtherInv, TasksUseOpenClients,
           ShutDownComplete, Alive
  <1>2. CASE UNCHANGED vars
    BY <1>2 DEF vars, IInv, TypeOK, StartUpInv, ShutDownInv, OtherInv, TasksUseOpenClients,
                ShutDownComplete, Alive, Over
  <1>. QED  BY <1>1, <1>2, StartUpKeeps, RunningKeeps, ShutDownKeeps DEF Next

\* The relation of clients and tasks to the position of the lifespan always holds.
THEOREM InvariantHolds == Spec => []IInv
  BY InitIInv, NextIInv, PTL DEF Spec

\* Type correctness of the lifespan for every configuration.
THEOREM TypeCorrect == Spec => []TypeOK
  <1>1. IInv => TypeOK
    BY DEF IInv
  <1>. QED  BY InvariantHolds, <1>1, PTL

\* No task outlives a client it uses (main.py:346-372).
THEOREM ClientsOutliveTasks == Spec => []TasksUseOpenClients
  <1>1. IInv => TasksUseOpenClients
    BY DEF IInv
  <1>. QED  BY InvariantHolds, <1>1, PTL

\* A shutdown that ran to its end leaves nothing behind, and only a dead
\* detector keeps it from getting there.
THEOREM NothingIsLeft == Spec => []ShutDownComplete
  <1>1. IInv => ShutDownComplete
    BY DEF IInv
  <1>. QED  BY InvariantHolds, <1>1, PTL

\* A probe answers "ready" only for a serving process whose forecaster lives and
\* whose detector has not died (health.py:105-110).
THEOREM OnlyTheLivingAreReady == Spec => ReadyMeansAlive
  <1>1. IInv /\ [Next]_vars =>
            [probe # "none" /\ probe' = "none" /\ answer' = "ready" =>
                 phase = "serving" /\ Alive("forecaster") /\ task["detector"] # "dead"]_vars
    <2>. SUFFICES ASSUME IInv, Next, probe # "none", probe' = "none", answer' = "ready"
                  PROVE  phase = "serving" /\ Alive("forecaster") /\ task["detector"] # "dead"
      BY DEF vars
    <2>1. phase = "serving"
      BY DEF IInv, OtherInv
    <2>2. Answer
      BY <2>1 DEF Next, StartUpStep, ShutDownStep, Running, Connect, Load, StartAlerter,
                  StartEngine, MarkReady, Starting, Ingest, Persist, FirstTraining, Probe, Pinged,
                  RequestStop, Unready, StopEngine, StopRaises, Flush, Close, CloseRedis, Stopping
    <2>3. ChecksPass
      BY <2>2 DEF Answer
    <2>. QED  BY <2>1, <2>3 DEF ChecksPass, Alive
  <1>. QED  BY InvariantHolds, <1>1, PTL DEF Spec, ReadyMeansAlive
=============================================================================
