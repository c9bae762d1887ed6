---------------------------- MODULE DependencyMap ----------------------------
(***************************************************************************)
(* The graph of causal dependencies (app/engine/dependency_map.py): an     *)
(* executor thread of the Granger analyzer (app/engine/granger_analyzer.py)*)
(* tests one ordered pair of services after the other and updates the      *)
(* graph, while requests (app/api/dependency.py) read it.                  *)
(***************************************************************************)
EXTENDS Naturals, Sequences, FiniteSets, Selection

CONSTANTS
    Services,   \* the services in the order the feature store first saw them
    MaxLag,     \* lags a pair is tested at
    Threshold,  \* GRANGER_P_THRESHOLD, among the p-values 1 .. One
    One         \* the p-value 1.0

ASSUME DependencyAssumption ==
    /\ Services \in Seq(ToSet(Services))
    /\ MaxLag \in Nat \ {0}
    /\ {Threshold, One} \subseteq Nat /\ 1 <= Threshold /\ Threshold < One

VARIABLES
    edges,    \* p-value and lag of every edge, by pair <<source, target>>
    todo,     \* pairs the thread has still to test
    running,  \* the analyzer has not been stopped
    reading   \* the request for causes between its two reads

graphVars == <<edges, todo, running, reading>>

GraphService == ToSet(Services)
Pair == {pr \in GraphService \X GraphService : pr[1] # pr[2]}
Idle == [service |-> "none"]

-----------------------------------------------------------------------------

\* get_all_edges: one snapshot of the pairs, which GET /dependency/graph answers.
GetAllEdges == DOMAIN edges

\* The pairs of a cycle in the order they are tested: all targets of one source,
\* then of the next.
PairsOf(names) ==
    LET of(source) == [i \in DOMAIN names |-> <<source, names[i]>>]
    IN  Select(FlattenSeq([i \in DOMAIN names |-> of(names[i])]), Pair)

\* What grangercausalitytests may answer, a p-value for every lag.
TestResult == [1 .. MaxLag -> 1 .. One]

\* The smallest p-value and the first lag it is reached at; 1.0 and lag 1 when
\* no lag is below 1.0.
Best(result) ==
    LET lag == CHOOSE l \in 1 .. MaxLag :
                   \A k \in 1 .. MaxLag : result[l] <= result[k] /\ (k < l => result[l] < result[k])
    IN  [p |-> result[lag], lag |-> lag]

\* update: a significant result replaces the pair's edge, another removes it.
Update(pr, edge) ==
    LET others == DOMAIN edges \ {pr}
    IN  IF edge.p <= Threshold
        THEN [at \in others \cup {pr} |-> IF at = pr THEN edge ELSE edges[at]]
        ELSE [at \in others |-> edges[at]]

\* get_effects: the targets of the edges of a service.
GetEffects(service) == {target \in GraphService : <<service, target>> \in DOMAIN edges}

\* get_causes: the sources of the edges into a service.
GetCauses(service) == {source \in GraphService : <<source, service>> \in DOMAIN edges}

\* One iteration of the traversal upstream: a service met before is passed over;
\* one that nothing causes is a root, unless it is the start; the causes of any
\* other not met yet are appended to the queue.
Visit(search, start) ==
    LET current == Head(search.queue)
        causes == GetCauses(current)
        met == search.visited \cup {current}
        root == causes = {} /\ current # start
    IN  IF search.queue = << >> THEN search
        ELSE IF current \in search.visited THEN [search EXCEPT !.queue = Tail(@)]
        ELSE [queue |-> Tail(search.queue) \o (IF root THEN << >> ELSE SetToSeq(causes \ met)),
              visited |-> met,
              roots |-> IF root THEN search.roots \cup {current} ELSE search.roots]

\* The roots the traversal finds.  It takes one iteration for the service and at
\* most one for every edge.
Upstream(service) ==
    LET steps == Cardinality(DOMAIN edges) + 1
        search[n \in 0 .. steps] ==
            IF n = 0 THEN [queue |-> <<service>>, visited |-> {}, roots |-> {}]
            ELSE Visit(search[n - 1], service)
    IN  search[steps].roots

\* Mutant: no fallback.
RootsOnly(service) == Upstream(service)

\* get_root_causes: the roots, or the direct causes when there is none.
GetRootCauses(service) ==
    LET roots == Upstream(service)
    IN  IF roots # {} THEN roots ELSE GetCauses(service)

-----------------------------------------------------------------------------

GraphInit ==
    /\ edges = << >>
    /\ todo = << >>
    /\ running = TRUE
    /\ reading = Idle

\* A cycle begins when the last is over: any services may have enough points,
\* fewer than two end it.
GrangerCycle ==
    /\ running
    /\ todo = << >>
    /\ \E enough \in SUBSET GraphService :
          /\ Cardinality(enough) >= 2
          /\ todo' = PairsOf(Select(Services, enough))
    /\ UNCHANGED <<edges, running, reading>>

\* Whether the answer to the request in progress may be spoilt by an update.
Spoilt(before, after) ==
    /\ reading # Idle
    /\ \E source \in GraphService :
          (<<source, reading.service>> \in DOMAIN before)
              # (<<source, reading.service>> \in DOMAIN after)

\* _test_pair: the test fails, which leaves the pair's edge as it was, or its
\* result is applied.
TestPair ==
    /\ todo # << >>
    /\ todo' = Tail(todo)
    /\ \/ UNCHANGED <<edges, reading>>
       \/ \E result \in TestResult :
             /\ edges' = Update(Head(todo), Best(result))
             /\ reading' = IF Spoilt(edges, edges') THEN [reading EXCEPT !.spoilt = TRUE]
                           ELSE reading
    /\ UNCHANGED running

\* stop cancels the task; the thread it waited for goes on with its pairs.
StopAnalyzer ==
    /\ running
    /\ running' = FALSE
    /\ UNCHANGED <<edges, todo, reading>>

\* GET /dependency/{service}/causes reads the edges under the lock ...
ReadEdges ==
    /\ reading = Idle
    /\ \E service \in GraphService :
          reading' = [service |-> service, upstream |-> GetCauses(service), spoilt |-> FALSE]
    /\ UNCHANGED <<edges, todo, running>>

\* ... and the root causes under the lock again, and answers.
ReadRoots ==
    /\ reading # Idle
    /\ reading' = Idle
    /\ UNCHANGED <<edges, todo, running>>

GraphNext ==
    \/ GrangerCycle
    \/ TestPair
    \/ StopAnalyzer
    \/ ReadEdges
    \/ ReadRoots

GraphSpec == GraphInit /\ [][GraphNext]_graphVars

-----------------------------------------------------------------------------
(* Properties.                                                             *)

\* Every variable has the type of the state it models.
GraphTypeOK ==
    /\ DOMAIN edges \subseteq Pair
    /\ \A pr \in DOMAIN edges : edges[pr] \in [p : 1 .. Threshold, lag : 1 .. MaxLag]
    /\ todo \in Seq(Pair)
    /\ running \in BOOLEAN
    /\ reading = Idle \/ reading \in [service : GraphService, upstream : SUBSET GraphService, spoilt : BOOLEAN]

\* The services from which a path of the graph's edges leads to this one.
Causing(service) ==
    LET step(found) == found \cup {source \in GraphService :
                           \E target \in found \cup {service} : <<source, target>> \in GetAllEdges}
        reach[n \in 0 .. Cardinality(GraphService)] == IF n = 0 THEN {} ELSE step(reach[n - 1])
    IN  reach[Cardinality(GraphService)]

\* The root causes agree with the graph GET /dependency/graph shows: the traversal
\* of get_root_causes, cycles included, finds exactly the services with a path to
\* this one that nothing causes; when every path ends in a cycle it names the
\* direct causes.  So the two reads of one request agree on whether the service
\* has a cause, unless the thread added or removed a cause of that very service
\* between them, whatever it changed further up.
RootCausesRight ==
    /\ \A service \in GraphService :
          LET roots == {s \in Causing(service) \ {service} : GetCauses(s) = {}}
          IN  GetRootCauses(service) = IF roots = {} THEN GetCauses(service) ELSE roots
    /\ reading # Idle /\ ~ reading.spoilt =>
          (reading.upstream = {} <=> GetRootCauses(reading.service) = {})
=============================================================================
