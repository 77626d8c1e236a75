------------------------------ MODULE MCReview ------------------------------
(* ReviewTab for TLC, with three captures: two readings on tiles of their   *)
(* own, two on one tile, and a reading that may be no title with a removal. *)
(* Between them they have every section but the unreadable tiles.           *)
EXTENDS ReviewTab, TLC

CONSTANTS c1, c2, w1, w2, t1, t2

Reading(w, verdict, sure, tile) ==
  [disp |-> "pending", work |-> w, verdict |-> verdict, sure |-> sure, tile |-> tile]
Two(tile, sure) ==
  [cand |-> c1 :> Reading(w1, "title", TRUE, t1) @@ c2 :> Reading(w2, "title", sure, tile),
   listed |-> {}]
MCCaptures ==
  {Two(t2, TRUE), Two(t1, FALSE),
   [cand |-> c1 :> Reading(Unmatched, "chrome-suspected", TRUE, t1), listed |-> {w1}]}

MCBudgets == {[choices |-> 2, troubles |-> 1], [choices |-> 1, troubles |-> 2]}
=============================================================================
