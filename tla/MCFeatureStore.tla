--------------------------- MODULE MCFeatureStore ---------------------------
(* Model checking of FeatureStore: services are interchangeable.           *)
EXTENDS FeatureStore, TLC

ServiceSymmetry == Permutations(Service)
=============================================================================
