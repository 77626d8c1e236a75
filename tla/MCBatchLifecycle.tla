-------------------------- MODULE MCBatchLifecycle --------------------------
(* The batch life cycle on small sets of batches, requests and runs.        *)
EXTENDS BatchLifecycle, TLC

Symmetry == Permutations(Batches) \cup Permutations(Handlers) \cup Permutations(Runs)
=============================================================================
