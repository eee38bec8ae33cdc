------------------------------- MODULE MCOutbox -------------------------------
(* Outbox for TLC: two sends, each with a text of its own. *)
EXTENDS Outbox

OwnText == [s \in Sends |-> s]
=============================================================================
