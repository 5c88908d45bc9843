--------------------------- MODULE MCCommandOutbox ---------------------------
(* Commands of one conversation and two replicas. *)
EXTENDS CommandOutbox

CONSTANTS r1, d1, d2

MCTo == [c \in Command |-> r1]
=============================================================================
