--------------------------- MODULE ConversationLog ---------------------------
(***************************************************************************)
(* What the command outbox promises about the order of a conversation      *)
(* (docs/operations/message-delivery.md, "Outgoing commands").  An entry   *)
(* gets its place when its transaction commits, behind everything the      *)
(* conversation has; it is stored, or given up, only when everything in    *)
(* front of it is stored or given up.  What was given up may still be      *)
(* stored later: the publication had only timed out.                       *)
(***************************************************************************)
EXTENDS Naturals

CONSTANTS
    Entry,
    Of,      \* the conversation of each entry
    Alone    \* the mark of an entry that belongs to none

VARIABLES
    place,    \* the place of an entry in its conversation, 0 before it has one
    stored,   \* the entries in the stream
    dropped   \* the entries given up for good

vars == <<place, stored, dropped>>

Init ==
    /\ place = [e \in Entry |-> 0]
    /\ stored = {}
    /\ dropped = {}

SameConversation(f, e) == Of[f] # Alone /\ Of[f] = Of[e]

Before(f, e) == SameConversation(f, e) /\ 0 < place[f] /\ place[f] < place[e]

AllBeforeSettled(e) == \A f \in Entry : Before(f, e) => f \in stored \cup dropped

Accept(e) ==
    /\ place[e] = 0
    /\ place'[e] \in Nat \ {0}
    /\ place' = [place EXCEPT ![e] = place'[e]]
    /\ \A f \in Entry : SameConversation(f, e) => place[f] < place'[e]
    /\ UNCHANGED <<stored, dropped>>

Store(e) ==
    /\ place[e] # 0
    /\ AllBeforeSettled(e)
    /\ stored' = stored \cup {e}
    /\ UNCHANGED <<place, dropped>>

Drop(e) ==
    /\ place[e] # 0
    /\ AllBeforeSettled(e)
    /\ dropped' = dropped \cup {e}
    /\ UNCHANGED <<place, stored>>

Next == \E e \in Entry : Accept(e) \/ Store(e) \/ Drop(e)

Spec == Init /\ [][Next]_vars
=============================================================================
