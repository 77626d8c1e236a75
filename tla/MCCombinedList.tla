--------------------------- MODULE MCCombinedList ---------------------------
(* The combined list on small sets of works, services, batches and requests. *)
EXTENDS CombinedList

Symmetry == Permutations(Works) \cup Permutations(Services)
              \cup Permutations(Batches) \cup Permutations(Handlers)
=============================================================================
