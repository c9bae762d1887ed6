------------------------------- MODULE MCAlerts -------------------------------
(***************************************************************************)
(* What becomes of a detected anomaly, for TLC: AlertStore and             *)
(* AnomalyClusterer.  The detector hands each anomaly to both and they     *)
(* share no variable, so one run explores each while the other is at rest. *)
(* Replicas are interchangeable, and so are services.                      *)
(***************************************************************************)
EXTENDS AlertStore, AnomalyClusterer, TLC

CONSTANTS p1, p2, k1, s1, s2

Symmetry == Permutations(Pod) \cup Permutations(Service)

PodsRest == up = {} /\ restarts = 0 /\ failures = 0 /\ created = {}
ClustererRests == now = 0 /\ incidents = {}

AlertsInit == Init /\ ClusterInit

AlertsNext ==
    \/ ClustererRests /\ Next /\ UNCHANGED clusterVars
    \/ PodsRest /\ ClusterNext /\ UNCHANGED vars

AlertsSpec == AlertsInit /\ [][AlertsNext]_<<vars, clusterVars>>
=============================================================================
