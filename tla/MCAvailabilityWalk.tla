------------------------- MODULE MCAvailabilityWalk -------------------------
(* AvailabilityWalk for TLC: the rows are numbered, as their ids order them. *)
EXTENDS AvailabilityWalk

MCRows == 1..3
=============================================================================
