------------------------- MODULE HistoryBarrierProofs -------------------------
(***************************************************************************)
(* The barrier holds for any number of events, consumers and drains.       *)
(*                                                                         *)
(* The row of a history event stays in the outbox until the event was      *)
(* applied (RowOutlivesWork), so a gate that finds no earlier row has seen *)
(* the earlier events applied, and what a marker waits for is fixed when   *)
(* its own row is saved (SavedInv): nothing earlier can appear between the *)
(* gate and the application (GateInv).                                     *)
(***************************************************************************)
EXTENDS HistoryBarrier, TLAPS

\* Whatever is published, delivered, handled or applied was saved before.
SavedInv ==
    /\ \A e \in Event : publisher[e] # "idle" \/ stream[e] # "none" \/ applied[e] > 0 => row[e] # "none"
    /\ \A e \in Event : \A d \in earlier[e] : row[d] # "none"
    /\ \A h \in Handler : pc[h] # "idle" => row[ev[h]] # "none"
    /\ \A h \in Handler : \A m \in todo[h] : row[m] # "none"

\* A row is marked as published after the broker stored it, and deleted by a
\* handler after the handler applied it; a live event is handled once it was stored.
ProgressInv ==
    /\ \A e \in Event : publisher[e] = "stored" => stream[e] # "none"
    /\ \A h \in Handler : pc[h] = "delete" => applied[ev[h]] > 0
    /\ \A h \in Handler : pc[h] # "idle" /\ ev[h] \in Live => stream[ev[h]] # "none"

\* A marker that has passed the gate has its history behind it.
GateInv ==
    \A h \in Handler : pc[h] = "process" /\ ev[h] \in Marker =>
        \A d \in earlier[ev[h]] \cap History : applied[d] > 0

\* The inductive invariant of the barrier.
BarrierInv == SavedInv /\ ProgressInv /\ RowOutlivesWork /\ GateInv /\ HistoryFirst
Inv == TypeOK /\ BarrierInv

\* What the broker's view of an event says about the rest of the system: a row is
\* marked as published when the broker has the event, an event that is out for
\* delivery is with a consumer, and one that was acknowledged has been applied or
\* is a marker that the drain will find in the outbox.
DeliveryInv ==
    /\ \A e \in Event : row[e] = "published" => stream[e] # "none"
    /\ \A e \in Event : stream[e] = "held" => \E h \in Consumer : pc[h] # "idle" /\ ev[h] = e
    /\ \A e \in Event : stream[e] = "done" => applied[e] > 0 \/ (e \in Marker /\ InOutbox(e))

-----------------------------------------------------------------------------
LEMMA InitInv == Init => Inv
<1> SUFFICES ASSUME Init PROVE Inv
  OBVIOUS
<1>1. TypeOK
  <2>1. faults \in 0 .. MaxFaults
    BY BarrierAssumption DEF Init
  <2>2. applied \in [Event -> Nat] /\ earlier \in [Event -> SUBSET Event]
        /\ todo \in [Handler -> SUBSET Drainable] /\ ev \in [Handler -> Event \cup {NoEvent}]
    BY DEF Init
  <2>3. \A h \in Handler : pc[h] = "idle"
    BY DEF Init
  <2> QED
    BY <2>1, <2>2, <2>3 DEF Init, TypeOK, Handler
<1>2. BarrierInv
  BY DEF Init, BarrierInv, SavedInv, ProgressInv, RowOutlivesWork, GateInv, HistoryFirst, Event, Drainable, Handler
<1> QED
  BY <1>1, <1>2 DEF Inv

\* Types are preserved by every step.
LEMMA TypeStep == ASSUME TypeOK, [Next]_vars PROVE TypeOK'
<1> USE BarrierAssumption DEF TypeOK, outboxVars, handlerVars, Fault, Goto, Return
<1>1. ASSUME NEW e \in Event, SaveEvent(e) PROVE TypeOK'
  BY <1>1 DEF SaveEvent
<1>2. ASSUME NEW e \in Event, PublishSucceeds(e) \/ PublishFails(e) PROVE TypeOK'
  BY <1>2 DEF PublishSucceeds, PublishFails, Stored
<1>3. ASSUME NEW e \in Event, MarkEventPublished(e) \/ MarkFails(e) \/ FlushPendingEvent(e) PROVE TypeOK'
  BY <1>3 DEF MarkEventPublished, MarkFails, FlushPendingEvent, AfterPublish
<1>4. ASSUME NEW e \in Event, Redeliver(e) \/ DeadLetter(e) PROVE TypeOK'
  BY <1>4 DEF Redeliver, DeadLetter
<1>5. ASSUME NEW h \in Consumer, NEW e \in Event, Receive(h, e) PROVE TypeOK'
  BY <1>5 DEF Receive, Handler
<1>6. ASSUME NEW h \in Drain, DrainReads(h) PROVE TypeOK'
  BY <1>6 DEF DrainReads, Handler
<1>7. ASSUME NEW h \in Drain, NEW m \in Drainable, DrainTakes(h, m) PROVE TypeOK'
  BY <1>7 DEF DrainTakes, Handler, Event
<1>8. ASSUME NEW h \in Handler, GatePasses(h) \/ Process(h) PROVE TypeOK'
  BY <1>8 DEF GatePasses, Process, Handler
<1>9. ASSUME NEW h \in Handler, GateRefuses(h) PROVE TypeOK'
  BY <1>9 DEF GateRefuses, Handler
<1>10. ASSUME NEW h \in Handler, AcknowledgeApplied(h) PROVE TypeOK'
  BY <1>10 DEF AcknowledgeApplied, Handler
<1>11. ASSUME NEW h \in Handler, HandlerFails(h) PROVE TypeOK'
  BY <1>11 DEF HandlerFails, Handler
<1>12. CASE UNCHANGED vars
  BY <1>12 DEF vars
<1> QED
  BY <1>1, <1>2, <1>3, <1>4, <1>5, <1>6, <1>7, <1>8, <1>9, <1>10, <1>11, <1>12
     DEF Next, PublishStep, HandleStep

\* The rest of the invariant is preserved by every step.
LEMMA BarrierStep == ASSUME Inv, [Next]_vars PROVE BarrierInv'
<1> USE BarrierAssumption DEF Inv, BarrierInv, TypeOK, SavedInv, ProgressInv, RowOutlivesWork, GateInv, HistoryFirst,
        outboxVars, handlerVars, Goto, Return, InOutbox
<1>1. ASSUME NEW e \in Event, SaveEvent(e) PROVE BarrierInv'
  BY <1>1 DEF SaveEvent, Event, Drainable
<1>2. ASSUME NEW e \in Event, PublishSucceeds(e) \/ PublishFails(e) PROVE BarrierInv'
  BY <1>2 DEF PublishSucceeds, PublishFails, Stored
<1>3. ASSUME NEW e \in Event, MarkEventPublished(e) \/ MarkFails(e) \/ FlushPendingEvent(e) PROVE BarrierInv'
  <2>1. CASE MarkEventPublished(e)
    <3>1. /\ row' = [row EXCEPT ![e] = AfterPublish(e)]
          /\ publisher' = [publisher EXCEPT ![e] = "idle"]
          /\ UNCHANGED <<earlier, stream, applied, pc, ev, todo>>
      BY <2>1 DEF MarkEventPublished
    <3>2. /\ row[e] # "none" /\ stream[e] # "none" /\ AfterPublish(e) # "none"
          /\ AfterPublish(e) = "deleted" => row[e] = "deleted" \/ e \in Live
      BY <2>1 DEF MarkEventPublished, AfterPublish
    <3> QED
      BY <3>1, <3>2
  <2>2. CASE MarkFails(e) \/ FlushPendingEvent(e)
    BY <2>2 DEF MarkFails, FlushPendingEvent
  <2> QED
    BY <1>3, <2>1, <2>2
<1>4. ASSUME NEW e \in Event, Redeliver(e) \/ DeadLetter(e) PROVE BarrierInv'
  BY <1>4 DEF Redeliver, DeadLetter
<1>5. ASSUME NEW h \in Consumer, NEW e \in Event, Receive(h, e) PROVE BarrierInv'
  BY <1>5 DEF Receive, Handler
<1>6. ASSUME NEW h \in Drain, DrainReads(h) PROVE BarrierInv'
  BY <1>6 DEF DrainReads, Handler
<1>7. ASSUME NEW h \in Drain, NEW m \in Drainable, DrainTakes(h, m) PROVE BarrierInv'
  BY <1>7 DEF DrainTakes, Handler, Event
<1>8. ASSUME NEW h \in Handler, GatePasses(h) PROVE BarrierInv'
  <2>1. \A d \in earlier[ev[h]] \cap History : ev[h] \in Marker => applied[d] > 0
    BY <1>8 DEF GatePasses, CanApply, Waiting, Event
  <2> QED
    BY <1>8, <2>1 DEF GatePasses
<1>9. ASSUME NEW h \in Handler, Process(h) PROVE BarrierInv'
  BY <1>9 DEF Process, Event, Drainable
<1>10. ASSUME NEW h \in Handler, GateRefuses(h) PROVE BarrierInv'
  BY <1>10 DEF GateRefuses, Handler
<1>11. ASSUME NEW h \in Handler, AcknowledgeApplied(h) PROVE BarrierInv'
  BY <1>11 DEF AcknowledgeApplied, Handler, Acknowledged
<1>12. ASSUME NEW h \in Handler, HandlerFails(h) PROVE BarrierInv'
  BY <1>12 DEF HandlerFails, Handler
<1>13. CASE UNCHANGED vars
  BY <1>13 DEF vars
<1> HIDE DEF Inv, BarrierInv, TypeOK, SavedInv, ProgressInv, RowOutlivesWork, GateInv, HistoryFirst,
        outboxVars, handlerVars, Goto, Return, InOutbox
<1> QED
  BY <1>1, <1>2, <1>3, <1>4, <1>5, <1>6, <1>7, <1>8, <1>9, <1>10, <1>11, <1>12, <1>13
     DEF Next, PublishStep, HandleStep

LEMMA AlwaysInv == Spec => []Inv
<1>1. Inv /\ [Next]_vars => Inv'
  BY TypeStep, BarrierStep DEF Inv
<1> QED
  BY InitInv, <1>1, PTL DEF Spec

-----------------------------------------------------------------------------
\* A consumer that returns has applied its event or leaves its marker to the drain.
LEMMA DeliveryStep == ASSUME Inv, DeliveryInv, [Next]_vars PROVE DeliveryInv'
<1> USE BarrierAssumption DEF Inv, TypeOK, DeliveryInv, outboxVars, handlerVars, Goto, Return, InOutbox
<1>1. ASSUME NEW e \in Event, SaveEvent(e) PROVE DeliveryInv'
  BY <1>1 DEF SaveEvent, BarrierInv, SavedInv
<1>2. ASSUME NEW e \in Event, PublishSucceeds(e) \/ PublishFails(e) PROVE DeliveryInv'
  BY <1>2 DEF PublishSucceeds, PublishFails, Stored
<1>3. ASSUME NEW e \in Event, MarkEventPublished(e) PROVE DeliveryInv'
  <2>1. stream[e] # "none"
    BY <1>3 DEF MarkEventPublished, BarrierInv, ProgressInv
  <2>2. e \in Marker /\ InOutbox(e) => AfterPublish(e) = "published"
    BY DEF AfterPublish, Drainable
  <2>3. /\ row' = [row EXCEPT ![e] = AfterPublish(e)]
        /\ UNCHANGED <<earlier, stream, applied, pc, ev, todo>>
    BY <1>3 DEF MarkEventPublished
  <2> QED
    BY <2>1, <2>2, <2>3
<1>4. ASSUME NEW e \in Event, MarkFails(e) \/ FlushPendingEvent(e) PROVE DeliveryInv'
  BY <1>4 DEF MarkFails, FlushPendingEvent
<1>5. ASSUME NEW e \in Event, Redeliver(e) \/ DeadLetter(e) PROVE DeliveryInv'
  BY <1>5 DEF Redeliver, DeadLetter
<1>6. ASSUME NEW h \in Consumer, NEW e \in Event, Receive(h, e) PROVE DeliveryInv'
  BY <1>6 DEF Receive, Handler
<1>7. ASSUME NEW h \in Drain, DrainReads(h) PROVE DeliveryInv'
  BY <1>7 DEF DrainReads
<1>8. ASSUME NEW h \in Drain, NEW m \in Drainable, DrainTakes(h, m) PROVE DeliveryInv'
  BY <1>8 DEF DrainTakes, Handler
<1>9. ASSUME NEW h \in Handler, GatePasses(h) \/ Process(h) PROVE DeliveryInv'
  BY <1>9 DEF GatePasses, Process, Handler
<1>10. ASSUME NEW h \in Handler, GateRefuses(h) PROVE DeliveryInv'
  <2>1. ev[h] \in Marker /\ row[ev[h]] # "none"
    BY <1>10 DEF GateRefuses, CanApply, BarrierInv, SavedInv
  <2>2. InOutbox(ev[h]) \/ applied[ev[h]] > 0
    BY <2>1 DEF BarrierInv, RowOutlivesWork, Drainable, Event
  <2>3. /\ pc' = [pc EXCEPT ![h] = "idle"] /\ ev' = [ev EXCEPT ![h] = NoEvent]
        /\ stream' = IF h \in Consumer THEN [stream EXCEPT ![ev[h]] = "done"] ELSE stream
        /\ UNCHANGED <<row, applied>>
    BY <1>10 DEF GateRefuses
  <2>4. ASSUME NEW e \in Event, stream'[e] = "held"
        PROVE  \E g \in Consumer : pc'[g] # "idle" /\ ev'[g] = e
    <3>1. PICK g \in Consumer : pc[g] # "idle" /\ ev[g] = e
      BY <2>3, <2>4
    <3>2. g # h
      BY <2>3, <2>4, <3>1
    <3> QED
      BY <2>3, <3>1, <3>2 DEF Handler
  <2>5. ASSUME NEW e \in Event PROVE row'[e] = "published" => stream'[e] # "none"
    BY <2>3
  <2>6. ASSUME NEW e \in Event, stream'[e] = "done" PROVE applied'[e] > 0 \/ (e \in Marker /\ InOutbox(e)')
    BY <2>1, <2>2, <2>3, <2>6
  <2> QED
    BY <2>4, <2>5, <2>6
<1>11. ASSUME NEW h \in Handler, AcknowledgeApplied(h) PROVE DeliveryInv'
  <2>1. applied[ev[h]] > 0
    BY <1>11 DEF AcknowledgeApplied, BarrierInv, ProgressInv
  <2>2. /\ pc' = [pc EXCEPT ![h] = "idle"] /\ ev' = [ev EXCEPT ![h] = NoEvent]
        /\ stream' = IF h \in Consumer THEN [stream EXCEPT ![ev[h]] = "done"] ELSE stream
        /\ \A e \in Event : row'[e] = row[e] \/ (e = ev[h] /\ row'[e] = "deleted")
        /\ UNCHANGED applied
    BY <1>11 DEF AcknowledgeApplied
  <2>3. ASSUME NEW e \in Event, stream'[e] = "held"
        PROVE  \E g \in Consumer : pc'[g] # "idle" /\ ev'[g] = e
    <3>1. PICK g \in Consumer : pc[g] # "idle" /\ ev[g] = e
      BY <2>2, <2>3
    <3>2. g # h
      BY <2>2, <2>3, <3>1
    <3> QED
      BY <2>2, <3>1, <3>2 DEF Handler
  <2>4. ASSUME NEW e \in Event PROVE row'[e] = "published" => stream'[e] # "none"
    BY <2>2
  <2>5. ASSUME NEW e \in Event, stream'[e] = "done" PROVE applied'[e] > 0 \/ (e \in Marker /\ InOutbox(e)')
    BY <2>1, <2>2, <2>5
  <2> QED
    BY <2>3, <2>4, <2>5
<1>12. ASSUME NEW h \in Handler, HandlerFails(h) PROVE DeliveryInv'
  BY <1>12 DEF HandlerFails, Handler
<1>13. CASE UNCHANGED vars
  BY <1>13 DEF vars
<1> HIDE DEF Inv, TypeOK, DeliveryInv, outboxVars, handlerVars, Goto, Return, InOutbox
<1> QED
  BY <1>1, <1>2, <1>3, <1>4, <1>5, <1>6, <1>7, <1>8, <1>9, <1>10, <1>11, <1>12, <1>13
     DEF Next, PublishStep, HandleStep

LEMMA AlwaysDeliveryInv == Spec => []DeliveryInv
<1>1. Init => DeliveryInv
  BY DEF Init, DeliveryInv
<1>2. Inv /\ DeliveryInv /\ [Next]_vars => DeliveryInv'
  BY DeliveryStep
<1> QED
  BY AlwaysInv, <1>1, <1>2, PTL DEF Spec

\* With its row gone or published and the broker done with it, an event was applied.
LEMMA SomeoneIsLeft == ASSUME Inv, DeliveryInv PROVE NothingLost
<1> SUFFICES ASSUME NEW e \in Event, row[e] # "none", row[e] # "unpublished",
                    ~(e \in Marker /\ row[e] = "published"), stream[e] \notin {"ready", "dead"}
             PROVE  applied[e] > 0 \/ \E h \in Consumer : pc[h] # "idle" /\ ev[h] = e
  BY DEF NothingLost
<1>1. row[e] \in {"published", "deleted"} /\ stream[e] \in {"none", "held", "done"}
  BY DEF Inv, TypeOK
<1>2. stream[e] = "none" => applied[e] > 0
  BY <1>1 DEF Inv, BarrierInv, RowOutlivesWork, DeliveryInv
<1>3. stream[e] = "done" => applied[e] > 0
  BY <1>1 DEF DeliveryInv, InOutbox
<1> QED
  BY <1>1, <1>2, <1>3 DEF DeliveryInv

-----------------------------------------------------------------------------
\* The type invariant, for any sets of events, consumers and drains.
THEOREM TypeCorrect == Spec => []TypeOK
  BY AlwaysInv, PTL DEF Inv, BarrierInv

\* No marker is applied before the history it closes (canApplyHistoryBarrier
\* together with the rows that MarkEventPublished retains).
THEOREM HistoryComesFirst == Spec => []HistoryFirst
  BY AlwaysInv, PTL DEF Inv, BarrierInv

\* No row of the event outbox is deleted before its event was applied or, for a
\* live event, stored by the broker.
THEOREM NothingLeavesEarly == Spec => []RowOutlivesWork
  BY AlwaysInv, PTL DEF Inv, BarrierInv

\* An event that was saved is never forgotten: until it is applied, the flusher, the
\* drain, the broker or a consumer still has it, whatever fails in between.
THEOREM NoEventIsLost == Spec => []NothingLost
  BY AlwaysInv, AlwaysDeliveryInv, SomeoneIsLeft, PTL
=============================================================================
