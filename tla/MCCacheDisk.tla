----------------------------- MODULE MCCacheDisk -----------------------------
(* CacheDisk for TLC. *)
EXTENDS CacheDisk
=============================================================================
