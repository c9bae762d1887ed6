------------------------------ MODULE MCIngest ------------------------------
(* Model values for Ingest: a caller and a callee with spans in a batch, a *)
(* list cut short and a batch refused, a deployment, a metric and two logs.*)
EXTENDS Ingest

CONSTANTS none

Item(kind, id, service, parent, attrs, time) ==
    [kind |-> kind, id |-> id, service |-> service, parent |-> parent,
     error |-> parent # none, attrs |-> attrs, time |-> time]

Root == Item("valid", "a", "web", none, [version |-> 1], 1)
Bad == Item("malformed", "x", "db", none, <<>>, 1)

MCMessage ==
    {[topic |-> "spans", shape |-> "list",
      items |-> <<Item("valid", "b", "db", "a", [version |-> 1], 1), Bad,
                  Item("valid", "c", "db", "a", [pod |-> 1], 1)>>],
     [topic |-> "spans", shape |-> "batch",
      items |-> <<Root, Item("unhandled", "d", "web", none, [version |-> 3], 1),
                  Item("valid", "e", "db", none, [version |-> 2, pod |-> 2], 1)>>],
     [topic |-> "spans", shape |-> "batch",
      items |-> <<Item("valid", "f", "db", "a", [version |-> 2], 1),
                  Item("malformed", "y", "db", none, <<>>, 1)>>],
     [topic |-> "logs", shape |-> "list",
      items |-> <<Item("valid", "k", "db", none, <<>>, 1),
                  Item("valid", "l", "db", none, <<>>, 1), Bad>>],
     [topic |-> "deploys", shape |-> "one",
      items |-> <<Item("valid", "v", "db", none, <<>>, 0)>>],
     [topic |-> "metrics", shape |-> "one",
      items |-> <<Item("valid", "g", "db", none, <<>>, 1)>>]}

MCBody ==
    {[topic |-> "spans", items |-> <<Root>>]}
=============================================================================
