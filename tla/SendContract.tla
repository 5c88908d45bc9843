----------------------------- MODULE SendContract -----------------------------
(***************************************************************************)
(* What the send path promises the rest of the system                      *)
(* (docs/operations/message-delivery.md, "Outgoing commands"): a command   *)
(* reaches WhatsApp at most once; "confirmed" is said only of a message    *)
(* that was sent and "failed" only of one that never will be; "uncertain"  *)
(* may be said of either.                                                  *)
(***************************************************************************)
EXTENDS Naturals

CONSTANT Command

VARIABLES
    copies,   \* how often each command has been handed to WhatsApp
    answers   \* the outcomes reported to the API, as <<command, kind>>

vars == <<copies, answers>>

Init ==
    /\ copies = [c \in Command |-> 0]
    /\ answers = {}

Send(c) ==
    /\ copies[c] = 0
    /\ <<c, "failed">> \notin answers
    /\ copies' = [copies EXCEPT ![c] = 1]
    /\ UNCHANGED answers

Answer(c, kind) ==
    /\ kind = "confirmed" => copies[c] = 1
    /\ kind = "failed" => copies[c] = 0
    /\ answers' = answers \cup {<<c, kind>>}
    /\ UNCHANGED copies

Next ==
    \E c \in Command :
        Send(c) \/ \E kind \in {"confirmed", "failed", "uncertain"} : Answer(c, kind)

Spec == Init /\ [][Next]_vars
=============================================================================
