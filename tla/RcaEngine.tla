------------------------------ MODULE RcaEngine ------------------------------
(***************************************************************************)
(* RCAEngine (app/engine/rca_engine.py): cycles that fetch the anomalies   *)
(* of the last two intervals from ClickHouse, analyse each with spans,     *)
(* neighbours and deployments around it and with similar incidents, and    *)
(* insert a report for each; and the incident store                        *)
(* (app/rag/incident_store.py) the analysis searches.                      *)
(*                                                                         *)
(* A cycle waits for the database and the language model, so time passes   *)
(* while it runs; the next begins an interval after it ended.              *)
(***************************************************************************)
EXTENDS Naturals

CONSTANTS
    Anomaly,    \* anomalies the detector inserts
    Incident,   \* incidents the forecaster or a POST saves
    Interval,   \* RCA_INTERVAL_SECONDS
    MaxNow,     \* bound: the clock
    MaxCrashes  \* bound: crashes

ASSUME RcaAssumption == Interval \in Nat \ {0} /\ {MaxNow, MaxCrashes} \subseteq Nat

VARIABLES
    rcaNow,     \* the clock
    inserted,   \* when each anomaly's row was inserted; Never before
    phase,      \* where the engine's task is
    wake,       \* when its sleep ends
    asked,      \* when the cycle's query was answered
    batch,      \* anomalies it still has to analyse
    reports,    \* anomalies it has made a report on
    stored,     \* rows of rca_reports about each anomaly
    memory,     \* incidents the process holds
    disk,       \* incidents in the Chroma collection
    lost,       \* history: incidents whose write to the collection failed
    lastGood,   \* history: the query of the last cycle that stored what it made
    worstGap,   \* history: the longest time between two of those
    raised,     \* history: anomalies an analysis of which raised
    crashes     \* bounded count of crashes

rcaVars == <<rcaNow, inserted, phase, wake, asked, batch, reports, stored,
             memory, disk, lost, lastGood, worstGap, raised, crashes>>
cycle == <<phase, wake, asked, batch, reports>>
history == <<lastGood, worstGap, raised>>
incidentVars == <<memory, disk, lost>>

Never == MaxNow + 1

-----------------------------------------------------------------------------

\* The window of a query: two intervals, so that cycles overlap.
QueryWindow == 2 * Interval

\* query_anomalies_recent: detected_at >= now() - INTERVAL window SECOND.
Recent == {a \in Anomaly : inserted[a] <= rcaNow /\ inserted[a] + QueryWindow >= rcaNow}

RcaInit ==
    /\ rcaNow = 0
    /\ inserted = [a \in Anomaly |-> Never]
    /\ phase = "sleeping"
    /\ wake = Interval
    /\ asked = 0
    /\ batch = {}
    /\ reports = {}
    /\ stored = [a \in Anomaly |-> 0]
    /\ memory = {} /\ disk = {} /\ lost = {}
    /\ lastGood = 0
    /\ worstGap = 0
    /\ raised = {}
    /\ crashes = 0

\* The detector inserts a row; detected_at is the time of the insertion.
InsertAnomaly ==
    /\ \E a \in Anomaly : inserted[a] = Never /\ inserted' = [inserted EXCEPT ![a] = rcaNow]
    /\ UNCHANGED <<rcaNow, cycle, stored, incidentVars, history, crashes>>

\* When a cycle that ends now is followed by the next.
SleepUntil == rcaNow + Interval

\* The cycle is over.
Sleep ==
    /\ phase' = "sleeping"
    /\ wake' = SleepUntil
    /\ batch' = {} /\ reports' = {}

\* History: a cycle that asked then left no report it made unstored.
Good(then) ==
    /\ lastGood' = then
    /\ worstGap' = IF then - lastGood > worstGap THEN then - lastGood ELSE worstGap

\* _process: the anomalies of the window are fetched; none ends the cycle.
Query ==
    /\ phase = "sleeping"
    /\ rcaNow >= wake
    /\ asked' = rcaNow
    /\ \/ /\ Recent # {}
          /\ phase' = "analysing"
          /\ batch' = Recent
          /\ UNCHANGED <<wake, reports, history>>
       \/ /\ Recent = {}
          /\ Sleep
          /\ Good(rcaNow) /\ UNCHANGED raised
    /\ UNCHANGED <<rcaNow, inserted, stored, incidentVars, crashes>>

\* The query fails: nothing is analysed until the next cycle.
QueryFails ==
    /\ phase = "sleeping"
    /\ rcaNow >= wake
    /\ asked' = rcaNow
    /\ Sleep
    /\ UNCHANGED <<rcaNow, inserted, stored, incidentVars, history, crashes>>

\* search_similar asks the collection, unless that is empty, and falls back to
\* the memory when the query fails.
SearchSimilar(fails) == IF fails /\ disk # {} THEN memory ELSE disk

\* What the fetches of spans, neighbours and deployments and the language model
\* may bring: a failing one brings nothing.
Fetched == {"all of it", "part of it"}

\* Mutant: an analysis needs everything it asks for.
AnalysedWhole(a, evidence) == IF evidence = "all of it" THEN {a} ELSE {}

\* The anomaly _analyze makes a report on, whatever it was brought.
Analysed(a, evidence) == {a}

\* One anomaly of the batch is analysed: it has a report, or none when making it
\* raises. The last one leads to the insertion, which a cycle without a report
\* does without.
Analyze ==
    /\ phase = "analysing"
    /\ \E a \in batch :
          /\ batch' = batch \ {a}
          /\ \/ /\ \E evidence \in Fetched : reports' = reports \cup Analysed(a, evidence)
                /\ UNCHANGED raised
             \/ /\ raised' = raised \cup {a}
                /\ UNCHANGED reports
    /\ \/ /\ batch' # {}
          /\ UNCHANGED <<phase, wake, lastGood, worstGap>>
       \/ /\ batch' = {} /\ reports' # {}
          /\ phase' = "inserting"
          /\ UNCHANGED <<wake, lastGood, worstGap>>
       \/ /\ batch' = {} /\ reports' = {}
          /\ Sleep
          /\ Good(asked)
    /\ UNCHANGED <<rcaNow, inserted, asked, stored, incidentVars, crashes>>

\* Mutant: an insertion is repeated as if its answer were lost.
StoredTwice(rs) == [a \in Anomaly |-> IF a \in rs THEN stored[a] + 2 ELSE stored[a]]

\* The rows of a batch of reports, as the table then holds them.
StoredWith(rs) == [a \in Anomaly |-> IF a \in rs THEN stored[a] + 1 ELSE stored[a]]

\* insert_rca_reports: all of the cycle's reports at once.
Insert ==
    /\ phase = "inserting"
    /\ stored' = StoredWith(reports)
    /\ Good(asked)
    /\ Sleep
    /\ UNCHANGED <<rcaNow, inserted, asked, incidentVars, raised, crashes>>

\* The insertion fails: the reports are gone.
InsertFails ==
    /\ phase = "inserting"
    /\ Sleep
    /\ UNCHANGED <<rcaNow, inserted, asked, stored, incidentVars, history, crashes>>

\* add_incident: the memory, and the collection unless the write fails.
AddIncident(i) ==
    /\ memory' = memory \cup {i}
    /\ \/ disk' = disk \cup {i} /\ UNCHANGED lost
       \/ lost' = lost \cup {i} /\ UNCHANGED disk

\* _save_incident and POST /rag/incident: an incident is new each time.
SaveIncident ==
    /\ \E i \in Incident \ (memory \cup disk \cup lost) : AddIncident(i)
    /\ UNCHANGED <<rcaNow, inserted, cycle, stored, history, crashes>>

\* GET /rag/incidents lists the memory.
ListRagIncidents == memory

\* POST /rag/incident/analyze names what a search found, nothing when the model fails.
AnalyzeIncident(searchFails) == SearchSimilar(searchFails)

\* The process ends and starts again, a cycle of its own abandoned; an insertion
\* under way may still be made.
Crash ==
    /\ crashes < MaxCrashes
    /\ crashes' = crashes + 1
    /\ memory' = {}
    /\ Sleep
    /\ \/ UNCHANGED stored
       \/ /\ phase = "inserting"
          /\ stored' = StoredWith(reports)
    /\ UNCHANGED <<rcaNow, inserted, asked, disk, lost, history>>

RcaTick ==
    /\ rcaNow < MaxNow
    /\ rcaNow' = rcaNow + 1
    /\ UNCHANGED <<inserted, cycle, stored, incidentVars, history, crashes>>

RcaNext ==
    \/ InsertAnomaly
    \/ Query
    \/ QueryFails
    \/ Analyze
    \/ Insert
    \/ InsertFails
    \/ SaveIncident
    \/ Crash
    \/ RcaTick

RcaSpec == RcaInit /\ [][RcaNext]_rcaVars

-----------------------------------------------------------------------------
(* Properties.                                                             *)

\* Every variable has the type of the state it models.
RcaTypeOK ==
    /\ rcaNow \in 0 .. MaxNow
    /\ inserted \in [Anomaly -> 0 .. Never]
    /\ phase \in {"sleeping", "analysing", "inserting"}
    /\ wake \in Nat /\ asked \in 0 .. rcaNow /\ lastGood \in 0 .. rcaNow
    /\ batch \subseteq Anomaly /\ raised \subseteq Anomaly
    /\ reports \subseteq Anomaly
    /\ stored \in [Anomaly -> Nat]
    /\ memory \subseteq Incident /\ disk \subseteq Incident /\ lost \subseteq Incident
    /\ worstGap \in Nat
    /\ crashes \in 0 .. MaxCrashes

\* As long as the queries of the cycles that stored what they made are never more
\* than two intervals apart (one failed query or insertion, a crash or a slow
\* analysis between them is allowed for by the overlap, rca_engine.py:80), every
\* anomaly whose window has passed has a report, whichever fetches failed and
\* whichever analyses beside it raised. One whose own analysis raised may have none.
NoAnomalyMissed ==
    worstGap <= 2 * Interval /\ rcaNow - lastGood <= 2 * Interval =>
        \A a \in Anomaly \ raised : inserted[a] + 2 * Interval < rcaNow => stored[a] > 0

\* The overlap reports an anomaly at most three times (and three times only
\* when its first and third query fall on the ends of its window), however
\* cycles fail, crash and restart.
AtMostThreeReports == \A a \in Anomaly : stored[a] <= 3

\* What a doc says, and the code does not do: the list of incidents is of all that
\* are stored (api/rag.py:352), those an analysis of the same service names
\* among them (incident_store.py:185-189 reads the memory alone).
AllIncidentsListed == AnalyzeIncident(FALSE) \subseteq ListRagIncidents
=============================================================================
