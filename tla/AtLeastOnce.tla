----------------------------- MODULE AtLeastOnce -----------------------------
(***************************************************************************)
(* What manual offset commits promise a consumer group, seen from one      *)
(* partition: an offset is acknowledged only when every record up to it    *)
(* was handed to the application, or was forgone because the group started *)
(* to read behind it.  Forgoing is possible only until the first           *)
(* acknowledgement; records may be handed over any number of times.        *)
(***************************************************************************)
EXTENDS Naturals

VARIABLES
    published,  \* records in the partition are 1..published
    delivered,  \* records handed to the application at least once
    forgone,    \* records the group will not read
    acked       \* the acknowledged prefix, 0 before the first commit

vars == <<published, delivered, forgone, acked>>

Init ==
    /\ published \in Nat
    /\ delivered = {}
    /\ forgone = {}
    /\ acked = 0

Publish ==
    /\ published' = published + 1
    /\ UNCHANGED <<delivered, forgone, acked>>

Deliver(o) ==
    /\ o \in acked + 1 .. published
    /\ delivered' = delivered \cup {o}
    /\ UNCHANGED <<published, forgone, acked>>

Forgo ==
    /\ acked = 0
    /\ forgone' = 1 .. published
    /\ UNCHANGED <<published, delivered, acked>>

Acknowledge(k) ==
    /\ k \in acked + 1 .. published
    /\ acked + 1 .. k \subseteq delivered \cup forgone
    /\ acked' = k
    /\ UNCHANGED <<published, delivered, forgone>>

Next ==
    \/ Publish
    \/ Forgo
    \/ \E k \in 1 .. published : Deliver(k) \/ Acknowledge(k)

Spec == Init /\ [][Next]_vars

\* No acknowledged record is lost: it was handed over, or the group had
\* chosen to start behind it.
NothingLost == 1 .. acked \subseteq delivered \cup forgone
=============================================================================
