------------------------------ MODULE MCTimeline ------------------------------
(* Timeline for TLC. *)
EXTENDS Timeline
=============================================================================
