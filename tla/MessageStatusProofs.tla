------------------------- MODULE MessageStatusProofs -------------------------
(***************************************************************************)
(* What holds of MessageStatus for every bound on faults and replays.      *)
(*                                                                         *)
(* The properties are about the row; what makes them inductive is where    *)
(* the evidence comes from: every event that is on its way, the replayed   *)
(* row and the final id all go back to something the worker has recorded   *)
(* or WhatsApp has been given (EvidenceInv).                               *)
(***************************************************************************)
EXTENDS MessageStatus, TLAPS

\* Every event in the consumer was caused by what it reports.
EvidenceInv ==
    /\ \A r \in Receipt : event[r] # "none" => transmitted
    /\ event["confirmation"] # "none" => ledger = "sent"
    /\ event["failure"] # "none" => ledger = "failed"
    /\ event["uncertainty"] # "none" => ledger \in {"in_flight", "unknown"}
    /\ ledger = "sent" => transmitted
    /\ transmitted => ledger \in {"in_flight", "unknown", "sent"}

\* A row takes the final id together with a status or the note of uncertainty,
\* so that a pending row without a note is still under its temporary id.
FinalIdInv == id = "final" /\ status \notin Reached => error = "unknown"

\* The inductive invariant.
RowInv == ReachedWasSent /\ FailureIsHonest /\ NoteAgrees /\ FinalIdInv
Inv == TypeOK /\ EvidenceInv /\ RowInv

-----------------------------------------------------------------------------
\* The initial row has neither evidence nor a note.
LEMMA InitInv == Init => Inv
<1> SUFFICES ASSUME Init PROVE Inv
  OBVIOUS
<1>1. extra \in BOOLEAN
  BY StatusAssumption, Zenon DEF Init
<1>2. event \in [Event -> {"none", "ready", "lookup", "done", "dead"}]
  BY DEF Init
<1>3. faults \in 0 .. MaxFaults /\ replays \in 0 .. MaxReplays
  BY StatusAssumption DEF Init
<1>4. TypeOK
  BY <1>1, <1>2, <1>3, Zenon DEF Init, TypeOK, Status, Reached
<1>5. EvidenceInv
  BY DEF Init, EvidenceInv, Event, Receipt
<1>6. RowInv
  BY DEF Init, RowInv, ReachedWasSent, FailureIsHonest, NoteAgrees, FinalIdInv, Reached
<1> QED
  BY <1>4, <1>5, <1>6 DEF Inv

\* Types are preserved by every step.
LEMMA TypeStep == ASSUME TypeOK, [Next]_vars PROVE TypeOK'
<1> USE StatusAssumption DEF TypeOK, Event, Receipt, Reached, Status, rowVars, workerVars,
        cleanupVars, bounds, Fault, Handled, Emit
<1>1. CASE StoreCommand \/ OutboxStep \/ FailMessageLost \/ TimeoutPasses
  <2>1. CASE StoreCommand \/ TimeoutPasses
    BY <2>1 DEF StoreCommand, TimeoutPasses
  <2>2. CASE MarkPublished \/ GiveUp
    BY <2>2 DEF MarkPublished, GiveUp
  <2>3. CASE FailMessage
    BY <2>3 DEF FailMessage
  <2>4. CASE FailMessageLost
    BY <2>4 DEF FailMessageLost
  <2> QED
    BY <1>1, <2>1, <2>2, <2>3, <2>4 DEF OutboxStep
<1>2. CASE WorkerBegins \/ WorkerTransmits \/ WorkerReports
  BY <1>2 DEF WorkerBegins, WorkerTransmits, WorkerReports
<1>3. CASE \E o \in {"sent", "unknown", "failed"} : WorkerRecords(o)
  BY <1>3 DEF WorkerRecords
<1>4. CASE \E r \in Receipt : WhatsAppReceipt(r)
  BY <1>4 DEF WhatsAppReceipt
<1>5. CASE \E r \in Receipt : HistoryReplay(r)
  BY <1>5 DEF HistoryReplay, Higher
<1>6. CASE \E e \in Event : Handle(e)
  <2>1. PICK e \in Event : Handle(e)
    BY <1>6
  <2>2. CASE e \in Receipt /\ ReceiptByFinalId(e)
    BY <2>2 DEF ReceiptByFinalId, ApplyReceipt, ApplyToEcho, Cleared
  <2>3. CASE e \in Receipt /\ ReceiptNotFound(e)
    BY <2>3 DEF ReceiptNotFound
  <2>4. CASE e \in Receipt /\ ReceiptByLedger(e)
    BY <2>4 DEF ReceiptByLedger, ApplyReceipt, ApplyToEcho, Cleared
  <2>5. CASE SendConfirmation
    BY <2>5 DEF SendConfirmation, Cleared
  <2>6. CASE SendUncertain
    BY <2>6 DEF SendUncertain
  <2>7. CASE SendFailed
    BY <2>7 DEF SendFailed
  <2> QED
    BY <2>1, <2>2, <2>3, <2>4, <2>5, <2>6, <2>7 DEF Handle
<1>7. CASE \E e \in Event : Redeliver(e) \/ DeadLetter(e)
  BY <1>7 DEF Redeliver, DeadLetter
<1>8. CASE CleanupStep
  BY <1>8 DEF CleanupStep, Reconcile, ReconcileFails, ExpireSnapshot, ExpireWrite, vars
<1>9. CASE UNCHANGED vars
  BY <1>9 DEF vars
<1> QED
  BY <1>1, <1>2, <1>3, <1>4, <1>5, <1>6, <1>7, <1>8, <1>9 DEF Next

\* Evidence is preserved: nothing is emitted without its cause, and a cause that
\* has been reported stays as it is.
LEMMA EvidenceStep == ASSUME TypeOK, EvidenceInv, [Next]_vars PROVE EvidenceInv'
<1> USE DEF EvidenceInv, TypeOK, Event, Receipt, rowVars, workerVars, cleanupVars, bounds, Handled, Emit
<1>1. CASE StoreCommand \/ OutboxStep \/ FailMessageLost \/ TimeoutPasses
  BY <1>1 DEF StoreCommand, OutboxStep, MarkPublished, GiveUp, FailMessage, FailMessageLost,
     TimeoutPasses
<1>2. CASE WorkerBegins
  BY <1>2 DEF WorkerBegins
<1>3. CASE WorkerTransmits
  BY <1>3 DEF WorkerTransmits, Working
<1>4. CASE WorkerReports
  BY <1>4 DEF WorkerReports
<1>5. CASE \E o \in {"sent", "unknown", "failed"} : WorkerRecords(o)
  BY <1>5 DEF WorkerRecords, Working
<1>6. CASE \E r \in Receipt : WhatsAppReceipt(r)
  BY <1>6 DEF WhatsAppReceipt
<1>7. CASE \E r \in Receipt : HistoryReplay(r)
  BY <1>7 DEF HistoryReplay
<1>8. CASE \E e \in Event : Handle(e)
  BY <1>8 DEF Handle, ReceiptByFinalId, ReceiptNotFound, ReceiptByLedger, SendConfirmation,
     SendUncertain, SendFailed
<1>9. CASE \E e \in Event : Redeliver(e) \/ DeadLetter(e)
  BY <1>9 DEF Redeliver, DeadLetter
<1>10. CASE CleanupStep
  BY <1>10 DEF CleanupStep, Reconcile, ReconcileFails, ExpireSnapshot, ExpireWrite, vars
<1>11. CASE UNCHANGED vars
  BY <1>11 DEF vars
<1> QED
  BY <1>1, <1>2, <1>3, <1>4, <1>5, <1>6, <1>7, <1>8, <1>9, <1>10, <1>11 DEF Next

\* The order of the statuses, as numbers.
LEMMA RankFacts ==
    /\ Rank("failed") = 0 /\ Rank("pending") = 1
    /\ Rank("sent") = 2 /\ Rank("delivered") = 3 /\ Rank("read") = 4
  BY DEF Rank

\* A merge keeps the higher of two statuses.
LEMMA HigherFacts ==
    ASSUME NEW s \in Status, NEW t \in Receipt
    PROVE  /\ Higher(s, t) \in Reached
           /\ s \in Reached => Rank(Higher(s, t)) >= Rank(s)
  BY RankFacts DEF Higher, Status, Receipt, Reached

\* The row is preserved: every writer that advances it has evidence, every
\* writer that fails it leaves an uncertain or advanced row alone.
LEMMA RowStep == ASSUME Inv, [Next]_vars PROVE RowInv'
<1> USE DEF Inv, RowInv, ReachedWasSent, FailureIsHonest, NoteAgrees, FinalIdInv, EvidenceInv, TypeOK, Event,
        Receipt, Reached, Status, rowVars, workerVars, cleanupVars, bounds, Fault
<1>1. CASE StoreCommand \/ MarkPublished \/ GiveUp \/ FailMessageLost \/ TimeoutPasses
  BY <1>1 DEF StoreCommand, MarkPublished, GiveUp, FailMessageLost, TimeoutPasses
<1>2. CASE FailMessage
  BY <1>2 DEF FailMessage
<1>3. CASE WorkerBegins \/ WorkerReports
  BY <1>3 DEF WorkerBegins, WorkerReports, Emit
<1>4. CASE WorkerTransmits
  BY <1>4 DEF WorkerTransmits, Working
<1>5. CASE \E o \in {"sent", "unknown", "failed"} : WorkerRecords(o)
  BY <1>5 DEF WorkerRecords, Working
<1>6. CASE \E r \in Receipt : WhatsAppReceipt(r)
  BY <1>6 DEF WhatsAppReceipt, Emit
<1>7. CASE \E r \in Receipt : HistoryReplay(r)
  BY <1>7, HigherFacts DEF HistoryReplay
<1>8. CASE \E e \in Event : Handle(e)
  <2>1. PICK e \in Event : Handle(e)
    BY <1>8
  <2>2. CASE e \in Receipt /\ ReceiptByFinalId(e)
    BY <2>2 DEF ReceiptByFinalId, ApplyReceipt, ApplyToEcho, Cleared
  <2>3. CASE e \in Receipt /\ ReceiptNotFound(e)
    BY <2>3 DEF ReceiptNotFound
  <2>4. CASE e \in Receipt /\ ReceiptByLedger(e)
    BY <2>4 DEF ReceiptByLedger, ApplyReceipt, ApplyToEcho, Cleared
  <2>5. CASE SendConfirmation
    BY <2>5 DEF SendConfirmation, Cleared
  <2>6. CASE SendUncertain
    BY <2>6 DEF SendUncertain
  <2>7. CASE SendFailed
    BY <2>7 DEF SendFailed
  <2> QED
    BY <2>1, <2>2, <2>3, <2>4, <2>5, <2>6, <2>7 DEF Handle
<1>9. CASE \E e \in Event : Redeliver(e) \/ DeadLetter(e)
  BY <1>9 DEF Redeliver, DeadLetter
<1>10. CASE Reconcile
  BY <1>10 DEF Reconcile, Reconcilable, Unsettled
<1>11. CASE ExpireWrite
  BY <1>11 DEF ExpireWrite
<1>12. CASE ReconcileFails \/ ExpireSnapshot \/ UNCHANGED vars
  BY <1>12 DEF ReconcileFails, ExpireSnapshot, vars
<1> QED
  BY <1>1, <1>2, <1>3, <1>4, <1>5, <1>6, <1>7, <1>8, <1>9, <1>10, <1>11, <1>12
     DEF Next, OutboxStep, CleanupStep

\* The invariant is inductive.
LEMMA InvStep == Inv /\ [Next]_vars => Inv'
  BY TypeStep, EvidenceStep, RowStep DEF Inv

LEMMA AlwaysInv == Spec => []Inv
  BY InitInv, InvStep, PTL DEF Spec

\* Each writer either finds the row in a status it may advance, or keeps a status
\* it must not lower.
LEMMA RankNeverDrops ==
    ASSUME Inv, [Next]_vars, status \in Reached
    PROVE  Rank(status') >= Rank(status)
<1> USE RankFacts DEF Inv, TypeOK, Reached, Receipt, Event, Status, rowVars, workerVars,
        cleanupVars, bounds
<1>1. CASE status' = status
  BY <1>1
<1>2. CASE \E r \in Receipt : HistoryReplay(r)
  BY <1>2, HigherFacts DEF HistoryReplay
<1>3. CASE \E e \in Event : Handle(e)
  <2>1. PICK e \in Event : Handle(e)
    BY <1>3
  <2>2. CASE e \in Receipt /\ (ReceiptByFinalId(e) \/ ReceiptByLedger(e))
    <3>1. status' = status \/ (status \in Eligible(e) /\ status' = e)
      BY <2>2 DEF ReceiptByFinalId, ReceiptByLedger, ApplyReceipt, ApplyToEcho
    <3> QED
      BY <2>2, <3>1 DEF Eligible
  <2>3. CASE SendConfirmation
    BY <2>3 DEF SendConfirmation
  <2>4. status' = status \/ (e \in Receipt /\ (ReceiptByFinalId(e) \/ ReceiptByLedger(e)))
                         \/ SendConfirmation
    BY <2>1 DEF Handle, ReceiptNotFound, SendUncertain, SendFailed
  <2> QED
    BY <1>1, <2>2, <2>3, <2>4
<1>4. CASE OutboxStep \/ CleanupStep
  BY <1>1, <1>4 DEF OutboxStep, MarkPublished, GiveUp, FailMessage, CleanupStep, Reconcile,
     ReconcileFails, Reconcilable, Unsettled, ExpireSnapshot, ExpireWrite, vars
<1>5. CASE \/ StoreCommand \/ FailMessageLost \/ WorkerBegins \/ WorkerTransmits \/ WorkerReports
           \/ TimeoutPasses \/ \E o \in {"sent", "unknown", "failed"} : WorkerRecords(o)
  BY <1>1, <1>5 DEF StoreCommand, FailMessageLost, WorkerBegins, WorkerTransmits, WorkerReports,
     TimeoutPasses, WorkerRecords, Emit
<1>6. CASE (\E r \in Receipt : WhatsAppReceipt(r)) \/ UNCHANGED vars
           \/ (\E e \in Event : Redeliver(e) \/ DeadLetter(e))
  BY <1>1, <1>6 DEF WhatsAppReceipt, Emit, Redeliver, DeadLetter, vars
<1> QED
  BY <1>2, <1>3, <1>4, <1>5, <1>6 DEF Next

\* A receipt of a message that was given to WhatsApp finds its row in the second
\* statement at the latest, so one that changes nothing came too late to.
LEMMA AckedStep ==
    ASSUME Inv, AckedReceiptCounts, [Next]_vars
    PROVE  AckedReceiptCounts'
<1> SUFFICES ASSUME NEW r \in Receipt, event'[r] = "done", ~Duplicated'
             PROVE  Rank(status') >= Rank(r)
  BY DEF AckedReceiptCounts
<1> USE DEF Receipt, Event
<1>1. ~Duplicated
  <2> USE DEF Duplicated, rowVars, vars
  <2>1. CASE StoreCommand \/ OutboxStep \/ FailMessageLost \/ TimeoutPasses \/ CleanupStep \/ UNCHANGED vars
    BY <2>1 DEF StoreCommand, OutboxStep, MarkPublished, GiveUp, FailMessage, FailMessageLost,
       TimeoutPasses, CleanupStep, Reconcile, ReconcileFails, ExpireSnapshot, ExpireWrite
  <2>2. CASE WorkerBegins \/ WorkerTransmits \/ WorkerReports
             \/ \E o \in {"sent", "unknown", "failed"} : WorkerRecords(o)
    BY <2>2 DEF WorkerBegins, WorkerTransmits, WorkerReports, WorkerRecords, Emit
  <2>3. CASE \E q \in Receipt : WhatsAppReceipt(q) \/ HistoryReplay(q)
    BY <2>3 DEF WhatsAppReceipt, Emit, HistoryReplay, Higher, Inv, TypeOK, Reached
  <2>4. CASE \E e \in Event : Handle(e)
    BY <2>4 DEF Handle, ReceiptByFinalId, ReceiptNotFound, ReceiptByLedger, ApplyReceipt, ApplyToEcho,
       SendConfirmation, SendUncertain, SendFailed, Eligible
  <2>5. CASE \E e \in Event : Redeliver(e) \/ DeadLetter(e)
    BY <2>5 DEF Redeliver, DeadLetter
  <2> QED
    BY <2>1, <2>2, <2>3, <2>4, <2>5 DEF Next
<1>2. CASE event[r] = "done"
  <2>1. Rank(status) >= Rank(r) /\ status \in Reached
    BY <1>1, <1>2, RankFacts DEF AckedReceiptCounts, Inv, TypeOK, Status, Reached
  <2>2. Rank(status') >= Rank(status) /\ status' \in Status
    BY <2>1, RankNeverDrops, TypeStep DEF Inv, TypeOK
  <2> QED
    BY <2>1, <2>2, RankFacts DEF Status, Reached
<1>3. CASE event[r] # "done"
  <2>1. ReceiptByFinalId(r) \/ ReceiptByLedger(r)
    <3> USE <1>3 DEF Inv, TypeOK, workerVars, cleanupVars, rowVars, bounds, vars, Emit, Handled
    <3>1. CASE \E e \in Event : Handle(e)
      BY <3>1 DEF Handle, ReceiptByFinalId, ReceiptNotFound, ReceiptByLedger,
         SendConfirmation, SendUncertain, SendFailed
    <3>2. CASE \E e \in Event : Redeliver(e) \/ DeadLetter(e)
      BY <3>2 DEF Redeliver, DeadLetter
    <3>3. CASE WorkerReports \/ \E q \in Receipt : WhatsAppReceipt(q)
      BY <3>3 DEF WorkerReports, WhatsAppReceipt
    <3>4. CASE event' = event
      BY <3>4
    <3>5. \/ event' = event \/ WorkerReports \/ \E q \in Receipt : WhatsAppReceipt(q)
          \/ \E e \in Event : Handle(e) \/ Redeliver(e) \/ DeadLetter(e)
      BY DEF Next, StoreCommand, OutboxStep, MarkPublished, GiveUp, FailMessage, FailMessageLost,
         TimeoutPasses, CleanupStep, Reconcile, ReconcileFails, ExpireSnapshot, ExpireWrite,
         WorkerBegins, WorkerTransmits, WorkerRecords, HistoryReplay
    <3> QED
      BY <3>1, <3>2, <3>3, <3>4, <3>5
  <2>2. OwnRowIsCandidate
    BY <2>1 DEF ReceiptByFinalId, ReceiptByLedger, Inv, EvidenceInv, OwnRowIsCandidate
  <2>3. status' = r \/ (status' = status /\ status \notin Eligible(r))
    BY <1>1, <2>1, <2>2 DEF ReceiptByFinalId, ReceiptByLedger, ApplyReceipt, ApplyToEcho, rowVars,
       Duplicated, Eligible
  <2>4. status \notin Eligible(r) => Rank(status) >= Rank(r)
    BY RankFacts DEF Eligible, Inv, TypeOK, Status
  <2> QED
    BY <2>3, <2>4, RankFacts
<1> QED
  BY <1>2, <1>3

-----------------------------------------------------------------------------
\* The type invariant, for every bound.
THEOREM TypeCorrect == Spec => []TypeOK
  BY AlwaysInv, PTL DEF Inv

\* A message is shown as sent, delivered or read only if WhatsApp was given it:
\* confirmations, receipts, replays and reconciliation all carry evidence.
THEOREM ShownWasSent == Spec => []ReachedWasSent
  BY AlwaysInv, PTL DEF Inv, RowInv

\* A message reported as send_failed by the cleanup cycle was never sent.
THEOREM FailuresAreHonest == Spec => []FailureIsHonest
  BY AlwaysInv, PTL DEF Inv, RowInv

\* No writer declares an uncertain message failed, and a timeout is noted on
\* failed messages only.
THEOREM UncertainStaysOpen == Spec => []NoteAgrees
  BY AlwaysInv, PTL DEF Inv, RowInv

\* Ticks never regress: no event, replay, timeout or exhausted outbox takes back a
\* status that the message has reached.
THEOREM TicksNeverRegress == Spec => NeverFallsBack
<1>1. Inv /\ [Next]_vars => (status \in Reached => Rank(status') >= Rank(status))
  BY RankNeverDrops
<1> QED
  BY <1>1, AlwaysInv, PTL DEF Spec, NeverFallsBack

\* No receipt is acknowledged without being taken in: handleReceiptEvent, which
\* returns normally when neither of its statements matches, does so only for a row
\* that is at least as far, unless a replayed row has taken the final id.
THEOREM AckedReceiptsCount == Spec => []AckedReceiptCounts
<1>1. Init => AckedReceiptCounts
  BY DEF Init, AckedReceiptCounts, Receipt, Event
<1>2. Inv /\ AckedReceiptCounts /\ [Next]_vars => AckedReceiptCounts'
  BY AckedStep
<1> QED
  BY <1>1, <1>2, AlwaysInv, PTL DEF Spec
=============================================================================
