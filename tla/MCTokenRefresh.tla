---------------------------- MODULE MCTokenRefresh ----------------------------
(* TokenRefresh for TLC. *)
EXTENDS TokenRefresh
=============================================================================
