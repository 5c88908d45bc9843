----------------------------- MODULE SessionOwner -----------------------------
(***************************************************************************)
(* What the orchestrators promise the WhatsApp session of a connection     *)
(* (docs/orchestrator-horizontal-scaling-plan.md, "Node liveness and       *)
(* fencing"): a client is started only where no client of the connection   *)
(* is alive, whatever nodes crash, stall or take over from one another.    *)
(***************************************************************************)
CONSTANTS Connection, Node

VARIABLE holders   \* the nodes on which a client of the connection is alive

Init == holders = [c \in Connection |-> {}]

Start(c, n) ==
    /\ holders[c] = {}
    /\ holders' = [holders EXCEPT ![c] = {n}]

\* Clients end one at a time, or all those of a node at once.
End ==
    \E kept \in SUBSET Node, ended \in SUBSET Connection :
        holders' = [c \in Connection |-> IF c \in ended THEN holders[c] \cap kept
                                                        ELSE holders[c]]

Next == End \/ \E c \in Connection, n \in Node : Start(c, n)

Spec == Init /\ [][Next]_holders
=============================================================================
