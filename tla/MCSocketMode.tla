----------------------------- MODULE MCSocketMode -----------------------------
(* SocketMode for TLC: sockets and calls are interchangeable. *)
EXTENDS SocketMode, TLC

Symmetry == Permutations(Socket) \union Permutations(Request)
=============================================================================
