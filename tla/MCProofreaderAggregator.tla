---------------------- MODULE MCProofreaderAggregator ----------------------
(* ProofreaderAggregator on two predictions and a few replicas. *)
EXTENDS ProofreaderAggregator, TLC

Symmetry == Permutations(Prediction) \cup Permutations(Replica)

=============================================================================
