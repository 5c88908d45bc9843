---------------------------- MODULE HistoryBarrier ----------------------------
(***************************************************************************)
(* The worker's event outbox and the barrier in front of history markers   *)
(* (services/whatsapp/internal/nats/publisher.go publish and               *)
(* flushPendingEvents, store/pgstore.go worker_event_outbox,               *)
(* apps/api/src/services/history-apply-barrier.service.ts and              *)
(* message-handler.ts handleWhatsAppEvent).                                *)
(*                                                                         *)
(* A worker saves every event before it publishes it.  A live event leaves *)
(* the outbox once it is published, an imported message or contact once    *)
(* the API has applied it.  A marker says that an import is complete; it   *)
(* may be delivered before the history it closes, is then acknowledged but *)
(* not applied, and is applied by the drain, which polls the outbox.       *)
(* Events of one session; consumers and drains run in several replicas.    *)
(***************************************************************************)
EXTENDS Naturals, FiniteSets

CONSTANTS
    History,     \* history_message and history_contact events
    Marker,      \* sync_status "completed" and history_sync_page events
    Progress,    \* sync_status events that report progress
    Live,        \* all other events that are persisted
    Contact,     \* the contact events among them
    Consumer,    \* handlers fed by the event consumers
    Drain,       \* the drain loops of the replicas
    MaxFaults    \* bound on failed calls, redeliveries, crashes and dead letters

Drainable == Marker \cup Progress
Event == History \cup Drainable \cup Live
Handler == Consumer \cup Drain
NoEvent == "no event"

ASSUME BarrierAssumption ==
    /\ History \cap (Drainable \cup Live) = {} /\ Drainable \cap Live = {}
    /\ Marker \cap Progress = {} /\ Contact \subseteq Live
    /\ Consumer \cap Drain = {}
    /\ NoEvent \notin Event
    /\ MaxFaults \in Nat

VARIABLES
    row,        \* worker_event_outbox: each event's row
    earlier,    \* the events saved before each one (a smaller event_order)
    publisher,  \* what the worker is doing with each event
    stream,     \* each event in the event stream of the broker
    applied,    \* how often each event has been applied
    pc, ev,     \* what each handler is doing, and with which event
    todo,       \* what a drain has read and not tried yet
    faults

outboxVars == <<row, earlier, publisher>>
handlerVars == <<pc, ev, todo>>
vars == <<outboxVars, stream, applied, handlerVars, faults>>

\* The type invariant.  A handler that is doing something has an event, and a
\* drain only handles what it may read.
TypeOK ==
    /\ row \in [Event -> {"none", "unpublished", "published", "deleted"}]
    /\ earlier \in [Event -> SUBSET Event]
    /\ publisher \in [Event -> {"idle", "publishing", "stored"}]
    /\ stream \in [Event -> {"none", "ready", "held", "done", "dead"}]
    /\ applied \in [Event -> Nat]
    /\ pc \in [Handler -> {"idle", "gate", "process", "delete"}]
    /\ ev \in [Handler -> Event \cup {NoEvent}]
    /\ \A h \in Handler : pc[h] # "idle" => ev[h] \in Event
    /\ \A h \in Drain : pc[h] # "idle" => ev[h] \in Drainable
    /\ todo \in [Handler -> SUBSET Drainable]
    /\ faults \in 0 .. MaxFaults

Init ==
    /\ row = [e \in Event |-> "none"]
    /\ earlier = [e \in Event |-> {}]
    /\ publisher = [e \in Event |-> "idle"]
    /\ stream = [e \in Event |-> "none"]
    /\ applied = [e \in Event |-> 0]
    /\ pc = [h \in Handler |-> "idle"]
    /\ ev = [h \in Handler |-> NoEvent]
    /\ todo = [h \in Handler |-> {}]
    /\ faults = 0

Fault == faults < MaxFaults /\ faults' = faults + 1
NoFault == faults' = faults

InOutbox(e) == row[e] \in {"unpublished", "published"}

-----------------------------------------------------------------------------
(***************************************************************************)
(* The worker                                                              *)
(***************************************************************************)
\* publish: SavePendingEvent is the success boundary.
SaveEvent(e) ==
    /\ row[e] = "none"
    /\ row' = [row EXCEPT ![e] = "unpublished"]
    /\ earlier' = [earlier EXCEPT ![e] = {d \in Event : row[d] # "none"}]
    /\ publisher' = [publisher EXCEPT ![e] = "publishing"]
    /\ UNCHANGED <<stream, applied, handlerVars, faults>>

\* The broker stores an event once; its message id suppresses repetitions.
Stored(e) == stream' = [stream EXCEPT ![e] = IF @ = "none" THEN "ready" ELSE @]

PublishSucceeds(e) ==
    /\ publisher[e] = "publishing"
    /\ Stored(e)
    /\ publisher' = [publisher EXCEPT ![e] = "stored"]
    /\ UNCHANGED <<row, earlier, applied, handlerVars, faults>>

\* All attempts failed, or the worker died, with or without the event stored.
PublishFails(e) ==
    /\ publisher[e] = "publishing"
    /\ Fault
    /\ Stored(e) \/ stream' = stream
    /\ publisher' = [publisher EXCEPT ![e] = "idle"]
    /\ UNCHANGED <<row, earlier, applied, handlerVars>>

\* Mutant: every published event leaves the outbox.
AfterPublishDeletes(e) == IF InOutbox(e) THEN "deleted" ELSE row[e]

\* MarkEventPublished: history and sync events stay; a row that the API has deleted
\* in the meantime stays deleted.
AfterPublish(e) ==
    IF ~InOutbox(e) THEN row[e]
    ELSE IF e \in Live THEN "deleted" ELSE "published"

MarkEventPublished(e) ==
    /\ publisher[e] = "stored"
    /\ row' = [row EXCEPT ![e] = AfterPublish(e)]
    /\ publisher' = [publisher EXCEPT ![e] = "idle"]
    /\ UNCHANGED <<earlier, stream, applied, handlerVars, faults>>

MarkFails(e) ==
    /\ publisher[e] = "stored"
    /\ Fault
    /\ publisher' = [publisher EXCEPT ![e] = "idle"]
    /\ UNCHANGED <<row, earlier, stream, applied, handlerVars>>

\* Mutant: what the broker has already stored is not taken up again.
FlushPendingUnstored(e) ==
    /\ row[e] = "unpublished" /\ publisher[e] = "idle" /\ stream[e] = "none"
    /\ publisher' = [publisher EXCEPT ![e] = "publishing"]
    /\ UNCHANGED <<row, earlier, stream, applied, handlerVars, faults>>

\* flushPendingEvents takes up what is left unpublished, also after a restart.
FlushPendingEvent(e) ==
    /\ row[e] = "unpublished" /\ publisher[e] = "idle"
    /\ publisher' = [publisher EXCEPT ![e] = "publishing"]
    /\ UNCHANGED <<row, earlier, stream, applied, handlerVars, faults>>

-----------------------------------------------------------------------------
(***************************************************************************)
(* The API: handleWhatsAppEvent, called by the consumers and the drains    *)
(***************************************************************************)
Goto(h, l) == pc' = [pc EXCEPT ![h] = l]

\* A consumer that returns acknowledges the event to the broker.
Return(h) ==
    /\ Goto(h, "idle")
    /\ ev' = [ev EXCEPT ![h] = NoEvent]
    /\ stream' = IF h \in Consumer THEN [stream EXCEPT ![ev[h]] = "done"] ELSE stream
    /\ UNCHANGED todo

Receive(h, e) ==
    /\ pc[h] = "idle" /\ stream[e] = "ready"
    /\ stream' = [stream EXCEPT ![e] = "held"]
    /\ ev' = [ev EXCEPT ![h] = e]
    /\ Goto(h, "gate")
    /\ UNCHANGED <<outboxVars, applied, todo, faults>>

\* Mutant: only published history holds a marker back.
WaitingPublished(m) == \E d \in earlier[m] \cap History : row[d] = "published"

\* Earlier history that is still in the outbox.
Waiting(m) == \E d \in earlier[m] \cap History : InOutbox(d)

\* drainHistoryBarriers reads the published events that nothing holds back ...
DrainReads(h) ==
    /\ pc[h] = "idle" /\ todo[h] = {}
    /\ todo' = [todo EXCEPT ![h] = {m \in Drainable : row[m] = "published" /\ ~Waiting(m)}]
    /\ UNCHANGED <<outboxVars, stream, applied, pc, ev, faults>>

\* ... and applies them in their order.
DrainTakes(h, m) ==
    /\ pc[h] = "idle" /\ m \in todo[h]
    /\ \A d \in todo[h] : d \notin earlier[m]
    /\ todo' = [todo EXCEPT ![h] = @ \ {m}]
    /\ ev' = [ev EXCEPT ![h] = m]
    /\ Goto(h, "gate")
    /\ UNCHANGED <<outboxVars, stream, applied, faults>>

\* canApplyHistoryBarrier lets everything but markers pass.
CanApply(e) == e \in Marker => InOutbox(e) /\ ~Waiting(e)

GatePasses(h) ==
    /\ pc[h] = "gate" /\ CanApply(ev[h])
    /\ Goto(h, "process")
    /\ UNCHANGED <<outboxVars, stream, applied, ev, todo, faults>>

GateRefuses(h) ==
    /\ pc[h] = "gate" /\ ~CanApply(ev[h])
    /\ Return(h)
    /\ UNCHANGED <<outboxVars, applied, faults>>

\* processWhatsAppEvent.
Process(h) ==
    /\ pc[h] = "process"
    /\ applied' = [applied EXCEPT ![ev[h]] = @ + 1]
    /\ Goto(h, "delete")
    /\ UNCHANGED <<outboxVars, stream, ev, todo, faults>>

\* acknowledgeAppliedHistory: the row of a live contact event too, if the worker
\* has not deleted it yet.
Acknowledged == (Event \ Live) \cup Contact

AcknowledgeApplied(h) ==
    /\ pc[h] = "delete"
    /\ row' = [row EXCEPT ![ev[h]] = IF ev[h] \in Acknowledged /\ InOutbox(ev[h]) THEN "deleted" ELSE @]
    /\ Return(h)
    /\ UNCHANGED <<earlier, publisher, applied, faults>>

\* The handler throws, or its process dies: the broker delivers the event again,
\* and a drain reads its marker again.
HandlerFails(h) ==
    /\ pc[h] # "idle"
    /\ Fault
    /\ Goto(h, "idle")
    /\ ev' = [ev EXCEPT ![h] = NoEvent]
    /\ stream' = IF h \in Consumer THEN [stream EXCEPT ![ev[h]] = "ready"] ELSE stream
    /\ UNCHANGED <<outboxVars, applied, todo>>

\* The broker delivers again: an acknowledgement was lost or AckWait ran out.
Redeliver(e) ==
    /\ stream[e] \in {"held", "done"}
    /\ Fault
    /\ stream' = [stream EXCEPT ![e] = "ready"]
    /\ UNCHANGED <<outboxVars, applied, handlerVars>>

\* The last delivery of an event has failed.
DeadLetter(e) ==
    /\ stream[e] = "ready"
    /\ Fault
    /\ stream' = [stream EXCEPT ![e] = "dead"]
    /\ UNCHANGED <<outboxVars, applied, handlerVars>>

-----------------------------------------------------------------------------
PublishStep(e) == PublishSucceeds(e) \/ MarkEventPublished(e) \/ FlushPendingEvent(e)
HandleStep(h) == GatePasses(h) \/ GateRefuses(h) \/ Process(h) \/ AcknowledgeApplied(h)

Next ==
    \/ \E e \in Event :
        \/ SaveEvent(e) \/ PublishStep(e) \/ PublishFails(e) \/ MarkFails(e)
        \/ Redeliver(e) \/ DeadLetter(e)
    \/ \E h \in Consumer : \E e \in Event : Receive(h, e)
    \/ \E h \in Drain : DrainReads(h) \/ \E m \in Drainable : DrainTakes(h, m)
    \/ \E h \in Handler : HandleStep(h) \/ HandlerFails(h)

\* The flusher and the drains poll, the broker delivers what is ready, and a
\* handler that has started returns.
Fairness ==
    /\ \A e \in Event : WF_vars(PublishStep(e))
    /\ \A e \in Event : SF_vars(\E h \in Consumer : Receive(h, e))
    /\ \A h \in Drain : WF_vars(DrainReads(h) \/ \E m \in Drainable : DrainTakes(h, m))
    /\ \A h \in Handler : WF_vars(HandleStep(h))

Spec == Init /\ [][Next]_vars /\ Fairness

-----------------------------------------------------------------------------
(***************************************************************************)
(* Properties                                                              *)
(***************************************************************************)

\* "The browser's final refresh happens after application": a marker is applied
\* only when all history saved before it has been applied, whichever consumer
\* or drain applies it and however its rows were published.
HistoryFirst ==
    \A m \in Marker : applied[m] > 0 =>
        \A d \in earlier[m] \cap History : applied[d] > 0

\* An imported message or contact leaves the outbox only when it was applied, and
\* a live event only when the broker has it.
RowOutlivesWork ==
    \A e \in Event : row[e] = "deleted" =>
        IF e \in Live THEN stream[e] # "none" ELSE applied[e] > 0

\* However publishing, marking, delivery and handling fail, a saved event that has
\* not been applied has someone left to apply it: the flusher (its row is still
\* unpublished), the drain (a marker whose row is published), the broker (it is to
\* be delivered, or dead-lettered) or the consumer that is handling it.
NothingLost ==
    \A e \in Event : row[e] # "none" =>
        \/ applied[e] > 0
        \/ row[e] = "unpublished"
        \/ e \in Marker /\ row[e] = "published"
        \/ stream[e] \in {"ready", "dead"}
        \/ \E h \in Consumer : pc[h] # "idle" /\ ev[h] = e

\* Every saved event is applied, a marker by the drain if its delivery came too
\* early, unless it is dead-lettered or, for a marker, history before it is.
EventuallyApplied ==
    \A e \in Event :
        row[e] # "none" ~>
            \/ applied[e] > 0
            \/ stream[e] = "dead"
            \/ e \in Marker /\ \E d \in earlier[e] \cap History : stream[d] = "dead"

\* history-apply-barrier.service.ts: "the loser of the delete race returns false
\* and skips the duplicate": without faults a marker is applied once.
MarkerAppliedOnce == \A m \in Marker : applied[m] <= 1
=============================================================================
