------------------------------ MODULE MCNodeLease ------------------------------
(* Two nodes, one connection, short durations. *)
EXTENDS NodeLease, TLC

CONSTANTS n1, n2, k1

Nodes == Permutations(Node)
=============================================================================
