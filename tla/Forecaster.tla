------------------------------ MODULE Forecaster ------------------------------
(***************************************************************************)
(* The forecast pipeline: Forecaster (app/engine/forecaster.py) with its   *)
(* periodic loop and the runs asked for over POST /api/forecast/run, and   *)
(* what a run writes: the ForecastStore, the hour-of-week baselines and    *)
(* the AccuracyTracker.                                                    *)
(*                                                                         *)
(* A run reads its points, waits for a thread to fit a model and, when it  *)
(* predicts an anomaly, for the alert's delivery; between the waits it is  *)
(* one step.  Numbers are left out: a fit succeeds or fails, a prediction  *)
(* is anomalous or not, and a forecast is how much of its series was known *)
(* when its run read it.  Points are in the order of their arrival: a late *)
(* span appends an older minute after a newer one, or a minute once more.  *)
(* The ring's end and clocks that run ahead are left out.                  *)
(***************************************************************************)
EXTENDS Integers, FiniteSets, SequencesExt

CONSTANTS
    Key,           \* <<service, metric>> pairs
    Caller,        \* HTTP requests that may run at the same time
    MinPoints,     \* min_data_points
    Window,        \* window_minutes
    Ttl,           \* ttl_seconds, in minutes
    MaxParallel,   \* the loop's semaphore, 8 in the code
    MaxLen,        \* maxlen of the tracker's deques
    MaxLate,       \* bound: minutes by which a span is late
    MaxPoints,     \* bound: points of a series
    MaxMinute,     \* bound: the minute at which a behaviour ends
    MaxCycles,     \* bound: cycles of the loop
    MaxCalls       \* bound: requests

ASSUME KeyAssumption == IsFiniteSet(Key) /\ IsFiniteSet(Caller) /\ "loop" \notin Caller
ASSUME SettingsAssumption ==
    /\ MinPoints \in Nat \ {0} /\ Window \in Nat /\ MaxLen \in Nat \ {0}
    /\ Ttl \in Nat \ {0}
    /\ MaxParallel \in Nat \ {0}
ASSUME BoundsAssumption ==
    /\ MaxMinute \in Nat \ {0} /\ MaxLate \in Nat /\ MaxPoints \in Nat
    /\ MaxCycles \in Nat /\ MaxCalls \in Nat

VARIABLES
    now,         \* the current minute
    open,        \* the minute of the open bucket behind each key, or 0
    series,      \* the minutes of the points of each key, as they arrived
    stage,       \* where the loop is
    pending,     \* tasks of the cycle waiting for the semaphore
    runs,        \* runs of the loop and of requests in progress
    forecasts,   \* ForecastStore: per key the entry stored last
    preds,       \* AccuracyTracker: prediction records per key
    counts,      \* BaselineStore: how often each point was counted
    due,         \* history: the points of each key this cycle could see
    owed,        \* history: the points its forecast must know
    cycles,      \* bounded count of cycles
    calls        \* bounded count of requests

stores == <<forecasts, preds, counts>>
bounds == <<cycles, calls>>
vars == <<now, open, series, stage, pending, runs, stores, due, owed, bounds>>

-----------------------------------------------------------------------------

Minute == 1 .. MaxMinute

\* Points are their positions in the series.
Position == 1 .. MaxPoints

\* seen: the length of the series when the run read it.
Run == [caller : Caller \cup {"loop"}, key : Key, points : SUBSET Position,
        seen : Position, phase : {"fitting", "alerting"}]

\* What the stored forecast's run saw of the series and the minute it was
\* stored; live while it has not been dropped.
Entry == [seen : 0 .. MaxPoints, at : 0 .. MaxMinute, live : BOOLEAN]

\* predicted_for, what its run saw of the series, and the point it was
\* compared with, 0 while there is none.
Prediction == [for : 1 .. MaxMinute + 1, made : Position, by : 0 .. MaxPoints]

\* get_series with a window.
Points(k) == {i \in DOMAIN series[k] : now - series[k][i] <= Window}

EnoughPoints(k) == Cardinality(Points(k)) >= MinPoints

\* timestamps[-1], the point that arrived last.
LastPoint(points) == Max(points)

LoopRuns == {r \in runs : r.caller = "loop"}

Init ==
    /\ now = 1
    /\ open = [k \in Key |-> 0]
    /\ series = [k \in Key |-> <<>>]
    /\ stage = "sleeping"
    /\ pending = {}
    /\ runs = {}
    /\ forecasts = [k \in Key |-> [seen |-> 0, at |-> 0, live |-> FALSE]]
    /\ preds = [k \in Key |-> <<>>]
    /\ counts = [k \in Key |-> [i \in Position |-> 0]]
    /\ due = [k \in Key |-> 0]
    /\ owed = [k \in Key |-> 0]
    /\ cycles = 0
    /\ calls = 0

Tick ==
    /\ now < MaxMinute
    /\ now' = now + 1
    /\ UNCHANGED <<open, series, stage, pending, runs, stores, due, owed, bounds>>

\* A span of another minute than the open bucket's, in time or late: the
\* feature store appends the point of the bucket that was open.
Span(k, m) ==
    /\ m # open[k]
    /\ m <= now /\ now - m <= MaxLate
    /\ Len(series[k]) < MaxPoints
    /\ open' = [open EXCEPT ![k] = m]
    /\ series' = [series EXCEPT ![k] = IF open[k] = 0 THEN @ ELSE Append(@, open[k])]
    /\ UNCHANGED <<now, stage, pending, runs, stores, due, owed, bounds>>

-----------------------------------------------------------------------------
(* _forecast_service_metric.                                               *)

\* Mutant: only the last point is counted.
CountedNewest(k, points) ==
    [counts EXCEPT ![k] = [i \in Position |-> @[i] + IF i = LastPoint(points) THEN 1 ELSE 0]]

\* BaselineStore.update for every point of the window.
Counted(k, points) ==
    [counts EXCEPT ![k] = [i \in Position |-> @[i] + IF i \in points THEN 1 ELSE 0]]

\* A run has enough points: it counts them and starts the fit.
Begin(caller, k) ==
    /\ counts' = Counted(k, Points(k))
    /\ runs' = runs \cup
          {[caller |-> caller, key |-> k, points |-> Points(k), seen |-> Len(series[k]),
            phase |-> "fitting"]}

\* Mutant: a prediction matches the observation of its own minute only.
MatchesExactly(p, m) == p.by = 0 /\ p.for = m

\* An unresolved record within 90 seconds of an observation.
Matches(p, m) == p.by = 0 /\ p.for - m \in {-1, 0, 1}

\* record_actual with point i of series s: the first record that matches is
\* resolved.
Resolved(q, s, i) ==
    LET hits == {j \in DOMAIN q : Matches(q[j], s[i])} IN
    IF hits = {} THEN q
    ELSE [q EXCEPT ![CHOOSE j \in hits : \A l \in hits : j <= l].by = i]

\* deque(maxlen=MaxLen).append
Appended(q, p) == SubSeq(Append(q, p), 1 + (IF Len(q) = MaxLen THEN 1 ELSE 0), Len(q) + 1)

\* record_prediction for the minute after the last point, then record_actual
\* for every point of the window, in the order of their arrival.
Tracked(q, s, r) ==
    MapThenFoldSet(LAMBDA i, p : Resolved(p, s, i),
                   Appended(q, [for |-> s[LastPoint(r.points)] + 1,
                                made |-> r.seen, by |-> 0]),
                   LAMBDA i : i, Max, r.points)

\* Mutant: the key of a stored forecast leaves out the service.
StoreKeyMetric(k) == CHOOSE j \in Key : TRUE

\* _make_key
StoreKey(k) == k

\* ForecastStore.set
Set(k, seen) ==
    forecasts' = [forecasts EXCEPT ![StoreKey(k)] =
        [seen |-> seen, at |-> now, live |-> TRUE]]

\* The sets of forecasts that may be the expired ones: within the minute in
\* which it becomes ttl_seconds old a forecast has expired or not.
Expiries ==
    {gone \in SUBSET {k \in Key : forecasts[k].live /\ now - forecasts[k].at >= Ttl} :
        \A k \in Key : forecasts[k].live /\ now - forecasts[k].at > Ttl => k \in gone}

Without(gone) ==
    [k \in Key |-> [forecasts[k] EXCEPT !.live = @ /\ k \notin gone]]

\* ForecastStore.get drops an expired forecast.
Read(k) == \E gone \in Expiries : forecasts' = Without(gone \cap {StoreKey(k)})

\* The end of a run.
Track(r) ==
    /\ preds' = [preds EXCEPT ![r.key] = Tracked(@, series[r.key], r)]
    /\ runs' = runs \ {r}

\* The loop's task for k gets a permit of the semaphore and reads its points.
\* Runs of the key that read theirs before may still overwrite its forecast.
LoopTask(k) ==
    /\ stage = "forecasting"
    /\ k \in pending
    /\ Cardinality(LoopRuns) < MaxParallel
    /\ pending' = pending \ {k}
    /\ \/ /\ EnoughPoints(k)
          /\ Begin("loop", k)
          /\ owed' = [owed EXCEPT ![k] = Min({due[k]} \cup
                {r.seen : r \in {r \in runs : r.key = k /\ r.phase = "fitting"}})]
          /\ UNCHANGED due
       \/ /\ ~EnoughPoints(k)
          /\ due' = [due EXCEPT ![k] = 0]
          /\ UNCHANGED <<runs, counts, owed>>
    /\ UNCHANGED <<now, open, series, stage, forecasts, preds, bounds>>

\* trigger_forecast: a request with enough points.
ApiRun(c, k) ==
    /\ \A r \in runs : r.caller # c
    /\ calls < MaxCalls
    /\ calls' = calls + 1
    /\ EnoughPoints(k)
    /\ Begin(c, k)
    /\ UNCHANGED <<now, open, series, stage, pending, forecasts, preds, due, owed, cycles>>

\* Mutant: a task of the loop that failed is awaited for ever.
EndedHolding(r) ==
    IF r.caller = "loop" THEN (runs \ {r}) \cup {[r EXCEPT !.phase = "failed"]}
    ELSE runs \ {r}

Ended(r) == runs \ {r}

\* The fit, the prediction or the analysis fails: nothing is stored.  A request
\* still reads the store when the failure was caught.
RunFails(r) ==
    /\ r.phase = "fitting"
    /\ runs' = Ended(r)
    /\ due' = IF r.caller = "loop" THEN [due EXCEPT ![r.key] = 0] ELSE due
    /\ \/ UNCHANGED forecasts
       \/ r.caller # "loop" /\ Read(r.key)
    /\ UNCHANGED <<now, open, series, stage, pending, preds, counts, owed, bounds>>

\* The fit succeeds and there is no alert to deliver: nothing anomalous is
\* predicted, or the alerter's cooldown holds it back.
Forecast(r) ==
    /\ r.phase = "fitting"
    /\ Set(r.key, r.seen)
    /\ Track(r)
    /\ UNCHANGED <<now, open, series, stage, pending, counts, due, owed, bounds>>

\* An anomaly is predicted: the forecast is stored and the delivery begins.
ForecastAnomaly(r) ==
    /\ r.phase = "fitting"
    /\ Set(r.key, r.seen)
    /\ runs' = (runs \ {r}) \cup {[r EXCEPT !.phase = "alerting"]}
    /\ UNCHANGED <<now, open, series, stage, pending, preds, counts, due, owed, bounds>>

\* The alerter returns, delivered or not; a request reads the forecast back.
Alerted(r) ==
    /\ r.phase = "alerting"
    /\ Track(r)
    /\ IF r.caller = "loop" THEN UNCHANGED forecasts ELSE Read(r.key)
    /\ UNCHANGED <<now, open, series, stage, pending, counts, due, owed, bounds>>

-----------------------------------------------------------------------------
(* _run_cycle.                                                             *)

\* No cycle is in progress.
NothingDue ==
    /\ due' = [k \in Key |-> 0]
    /\ owed' = [k \in Key |-> 0]

StartCycle ==
    /\ stage = "sleeping"
    /\ cycles < MaxCycles
    /\ cycles' = cycles + 1
    /\ \E k \in Key : series[k] # <<>>
    /\ stage' = "forecasting"
    /\ pending' = {k \in Key : series[k] # <<>>}
    /\ due' = [k \in Key |-> IF EnoughPoints(k) THEN Len(series[k]) ELSE 0]
    /\ owed' = due'
    /\ UNCHANGED <<now, open, series, runs, stores, calls>>

\* gather returns when every task has ended, failed or not.
Gathered ==
    /\ stage = "forecasting"
    /\ pending = {} /\ LoopRuns = {}
    /\ stage' = "detecting"
    /\ UNCHANGED <<now, open, series, pending, runs, stores, due, owed, bounds>>

\* The isolation forests and STL have run; evict_expired ends the cycle.
CycleDone ==
    /\ stage = "detecting"
    /\ stage' = "sleeping"
    /\ \E gone \in Expiries : forecasts' = Without(gone)
    /\ NothingDue
    /\ UNCHANGED <<now, open, series, pending, runs, preds, counts, bounds>>

\* Something outside the gathers raises: the loop logs it and sleeps.
CycleRaises ==
    /\ stage = "detecting"
    /\ stage' = "sleeping"
    /\ NothingDue
    /\ UNCHANGED <<now, open, series, pending, runs, stores, bounds>>

\* Shutdown, when the server has answered its requests: stop cancels the loop
\* and, through gather, its tasks.
Stop ==
    /\ runs = LoopRuns
    /\ stage' = "stopped"
    /\ pending' = {}
    /\ runs' = runs \ LoopRuns
    /\ NothingDue
    /\ UNCHANGED <<now, open, series, stores, bounds>>

\* A request reads a forecast, and drops it when it has expired.
Get(k) ==
    /\ forecasts[k].live
    /\ Read(k)
    /\ UNCHANGED <<now, open, series, stage, pending, runs, preds, counts, due, owed, bounds>>

Next ==
    /\ stage # "stopped"
    /\ \/ Tick
       \/ \E k \in Key, m \in Minute : Span(k, m)
       \/ \E k \in Key : LoopTask(k) \/ Get(k)
       \/ \E c \in Caller, k \in Key : ApiRun(c, k)
       \/ \E r \in runs : RunFails(r) \/ Forecast(r) \/ ForecastAnomaly(r) \/ Alerted(r)
       \/ StartCycle
       \/ Gathered
       \/ CycleDone
       \/ CycleRaises
       \/ Stop

Spec == Init /\ [][Next]_vars

\* A step of a cycle that has begun: asyncio runs a task whose wait is over,
\* the thread pool finishes a fit, deliveries end by their timeout.
CycleStep ==
    \/ \E k \in Key : LoopTask(k)
    \/ \E r \in LoopRuns : RunFails(r) \/ Forecast(r) \/ ForecastAnomaly(r) \/ Alerted(r)
    \/ Gathered
    \/ CycleDone
    \/ CycleRaises

FairSpec == Spec /\ WF_vars(CycleStep)

-----------------------------------------------------------------------------
(* Properties.                                                             *)

\* Every variable has the type of the state it models; the semaphore bounds
\* the fits of the loop.
TypeOK ==
    /\ now \in 1 .. MaxMinute
    /\ open \in [Key -> 0 .. MaxMinute]
    /\ \A k \in Key : series[k] \in Seq(Minute) /\ Len(series[k]) <= MaxPoints
    /\ stage \in {"sleeping", "forecasting", "detecting", "stopped"}
    /\ pending \subseteq Key
    /\ runs \subseteq Run
    /\ Cardinality(LoopRuns) <= MaxParallel
    /\ forecasts \in [Key -> Entry]
    /\ \A k \in Key : preds[k] \in Seq(Prediction) /\ Len(preds[k]) <= MaxLen
    /\ counts \in [Key -> [Position -> Nat]]
    /\ due \in [Key -> 0 .. MaxPoints]
    /\ owed \in [Key -> 0 .. MaxPoints]
    /\ cycles \in 0 .. MaxCycles
    /\ calls \in 0 .. MaxCalls

\* When the loop has forecast every key, each one that had enough points when
\* the cycle began has a forecast from a series with all of them in it, however
\* long it waited for a permit and whatever requests worked on the key beside
\* it; only a run that had read its points before the loop's run did may have
\* put an older forecast in its place, as old as what that run saw.  Exempt is
\* a key whose own fit failed or whose points left the window.  The forecast is
\* gone only when it is really ttl_seconds old.
CycleRefreshes ==
    stage = "detecting" =>
        \A k \in Key : due[k] # 0 =>
            /\ forecasts[k].seen >= owed[k]
            /\ forecasts[k].live \/ now - forecasts[k].at >= Ttl

\* Cycles may be late, several points may arrive between them and points of
\* older minutes after newer ones: the points a cycle could see when it began
\* are all in the baselines, none is missed.
NoObservationMissed ==
    stage = "detecting" =>
        \A k \in Key : \A i \in 1 .. due[k] :
            now - series[k][i] <= Window => counts[k][i] > 0

\* No prediction waits for its observation longer than the run that made it:
\* the tracker has no backlog that a later observation could be matched to.
NothingUnresolved == \A k \in Key : \A i \in DOMAIN preds[k] : preds[k][i].by # 0

\* One failing fit, a semaphore smaller than the work, or requests in between
\* never hold a cycle up.
CycleEnds == (stage \in {"forecasting", "detecting"}) ~> (stage \in {"sleeping", "stopped"})

\* accuracy_tracker.py:3-6, "Records ... at prediction time.  When actual
\* observations arrive, matches them by timestamp": what a prediction is
\* compared with arrived after it was made.
ComparedWithLaterObservation ==
    \A k \in Key : \A i \in DOMAIN preds[k] :
        preds[k][i].by # 0 => preds[k][i].by > preds[k][i].made
=============================================================================
