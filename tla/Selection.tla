------------------------------- MODULE Selection -------------------------------
(***************************************************************************)
(* The list comprehension of the stores' readers: [x for x in seq if ...]  *)
(* (app/engine/deployment_store.py, jvm_feature_store.py, feature_store.py)*)
(* as an operator on sequences.                                            *)
(***************************************************************************)
EXTENDS SequencesExt

\* The elements of a sequence that are in a set, in their order.
Select(seq, wanted) ==
    FoldLeft(LAMBDA kept, x : IF x \in wanted THEN Append(kept, x) ELSE kept, << >>, seq)
=============================================================================
