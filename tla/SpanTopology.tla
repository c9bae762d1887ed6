----------------------------- MODULE SpanTopology -----------------------------
(***************************************************************************)
(* SpanTopologyTracker (app/engine/span_topology.py): the call graph built *)
(* from the parents of spans, and the endpoints that read it               *)
(* (app/api/topology.py).  Every method holds the tracker's lock from      *)
(* beginning to end, so each is a function of the tracker's state and the  *)
(* clock.  The two clocks the code reads, one monotonic and one of the     *)
(* wall, are one clock here.                                               *)
(***************************************************************************)
EXTENDS Naturals, FiniteSets

CONSTANTS
    NoParent,  \* the parent of a root span
    SpanTtl,   \* how long a span stays a parent
    EdgeTtl,   \* how long an edge without calls stays in the graph
    MaxIndex   \* the size at which expired spans are dropped

ASSUME TopologyAssumption == SpanTtl \in Nat \ {0} /\ EdgeTtl \in Nat /\ MaxIndex \in Nat

-----------------------------------------------------------------------------

\* A tracker that has recorded nothing: index by span id, edges by <<caller, callee>>.
NoSpans == [index |-> <<>>, edges |-> <<>>]

\* The function f without the arguments that fail a test.
Keep(f, Test(_)) == [x \in {y \in DOMAIN f : Test(y)} |-> f[x]]

\* dict.update: f with the values of g.
Updated(f, g) == [x \in DOMAIN f \cup DOMAIN g |-> IF x \in DOMAIN g THEN g[x] ELSE f[x]]

\* Only a full index drops spans, and only the expired ones: it may overflow.
Evicted(index, at) ==
    IF Cardinality(DOMAIN index) >= MaxIndex
    THEN Keep(index, LAMBDA i : index[i].expires > at)
    ELSE index

\* The span becomes a parent its children will find.
Registered(index, span, at) ==
    Updated(Evicted(index, at),
            [i \in {span.id} |-> [service |-> span.service, expires |-> at + SpanTtl]])

\* Mutant: the time of an edge's latest call is not refreshed.
CalledFirst(edges, key, failed, at) ==
    LET old == IF key \in DOMAIN edges THEN edges[key] ELSE [calls |-> 0, errors |-> 0, seen |-> at]
    IN  Updated(edges, [k \in {key} |->
                [old EXCEPT !.calls = @ + 1, !.errors = @ + IF failed THEN 1 ELSE 0]])

\* One more call over an edge, which is made if it is new.
Called(edges, key, failed, at) ==
    LET old == IF key \in DOMAIN edges THEN edges[key] ELSE [calls |-> 0, errors |-> 0]
    IN  Updated(edges, [k \in {key} |-> [calls |-> old.calls + 1,
                                         errors |-> old.errors + IF failed THEN 1 ELSE 0,
                                         seen |-> at]])

\* record: the span is registered, and counts as a call when its parent is
\* still indexed, expired or not, and belongs to another service.
Record(t, span, at) ==
    LET index == Registered(t.index, span, at)
        found == span.parent \in DOMAIN index /\ index[span.parent].service # span.service
    IN  [index |-> index,
         edges |-> IF found
                   THEN Called(t.edges, <<index[span.parent].service, span.service>>, span.error, at)
                   ELSE t.edges]

-----------------------------------------------------------------------------
(* Readers.                                                                *)

\* get_topology removes the edges no call refreshed and returns the others.
Collected(t, at) == [t EXCEPT !.edges = Keep(@, LAMBDA k : at - t.edges[k].seen <= EdgeTtl)]

\* get_callers and get_callees do not collect: they return stale edges too.
Callers(t, s) == {k \in DOMAIN t.edges : k[2] = s}
Callees(t, s) == {k \in DOMAIN t.edges : k[1] = s}

\* GET /spans/{service_name}: each edge once; none is a 404.
ServiceTopology(t, s) == Callers(t, s) \cup Callees(t, s)

\* GET /spans/stats.
Stats(t) == [span_index_size |-> Cardinality(DOMAIN t.index),
             edge_count |-> Cardinality(DOMAIN t.edges)]
=============================================================================
