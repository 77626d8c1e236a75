--------------------------- MODULE MCWatchIntents ---------------------------
(* WatchIntents for TLC: services and handlers are interchangeable.        *)
EXTENDS WatchIntents, TLC

Symmetry == Permutations(Services) \cup Permutations(Handlers)
=============================================================================
