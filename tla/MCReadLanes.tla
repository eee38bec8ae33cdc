----------------------------- MODULE MCReadLanes ------------------------------
(* ReadLanes for TLC: an interactive listing and an interactive call, two    *)
(* paced calls that are the same and a third of their method.                *)
EXTENDS ReadLanes

CONSTANTS list, history, presence, again, other

TheMethods == [c \in Calls |-> IF c \in {list, history} THEN c ELSE presence]
TheKeys == [c \in Calls |-> IF c = again THEN presence ELSE c]
=============================================================================
