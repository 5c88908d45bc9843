---------------------------- MODULE MessageStatus ----------------------------
(***************************************************************************)
(* The status of one outgoing message in the messages table of the API     *)
(* (apps/api/src/services/handlers/message-handlers.ts, the cleanup cycle  *)
(* of message-cleanup.service.ts and the exhausted outbox of               *)
(* command-outbox.service.ts).                                             *)
(*                                                                         *)
(* The row starts pending under a temporary id.  Six writers change it:    *)
(* the confirmation, failure and uncertainty events of the worker, the     *)
(* receipts of WhatsApp, history replays, the outbox that gives up, and    *)
(* the cleanup cycle, which reads the worker's ledger.  Events are applied *)
(* in any order, more than once, concurrently, or never (dead letters).    *)
(* The worker side is the contract that WorkerSend shows for one owner.    *)
(***************************************************************************)
EXTENDS Naturals

CONSTANTS
    Extra,       \* whether the row may have metadata of its own (a file name)
    MaxFaults,   \* bound on redeliveries, dead letters and interrupted turns
    MaxReplays   \* bound on history replays

ASSUME StatusAssumption ==
    Extra \subseteq BOOLEAN /\ MaxFaults \in Nat /\ MaxReplays \in Nat

VARIABLES
    status, id, error, extra,  \* the row: status, message_id, metadata.error, other metadata
    echo,         \* the status of a second row, inserted by a history replay
    outbox,       \* the command's row in nats_outbox
    stored,       \* the command has reached the command stream
    ledger,       \* the worker's processed_commands row
    transmitted,  \* WhatsApp has been given the message
    event,        \* what the event consumer knows of each event
    old,          \* the message is older than the timeout
    cleanup,      \* where the cleanup cycle is
    faults, replays

rowVars == <<status, id, error, extra, echo>>
workerVars == <<outbox, stored, ledger, transmitted>>
cleanupVars == <<old, cleanup>>
bounds == <<faults, replays>>
vars == <<rowVars, workerVars, event, cleanupVars, bounds>>

Status == {"failed", "pending", "sent", "delivered", "read"}
Receipt == {"sent", "delivered", "read"}        \* mapReceiptStatus
Event == {"confirmation", "failure", "uncertainty"} \cup Receipt
Reached == {"sent", "delivered", "read"}
Rank(s) == CASE s = "failed" -> 0 [] s = "pending" -> 1 [] s = "sent" -> 2
             [] s = "delivered" -> 3 [] s = "read" -> 4

\* The type invariant.
TypeOK ==
    /\ status \in Status
    /\ id \in {"temporary", "final"}
    /\ error \in {"none", "timeout", "unknown", "send_failed"}
    /\ extra \in BOOLEAN
    /\ echo \in {"absent"} \cup Reached
    /\ outbox \in {"waiting", "published", "giving_up", "failed"}
    /\ stored \in BOOLEAN
    /\ ledger \in {"none", "in_flight", "unknown", "failed", "sent"}
    /\ transmitted \in BOOLEAN
    /\ event \in [Event -> {"none", "ready", "lookup", "done", "dead"}]
    /\ old \in BOOLEAN
    /\ cleanup \in {"idle", "reconciled", "expiring"}
    /\ faults \in 0 .. MaxFaults
    /\ replays \in 0 .. MaxReplays

Init ==
    /\ status = "pending" /\ id = "temporary" /\ error = "none"
    /\ extra \in Extra
    /\ echo = "absent"
    /\ outbox = "waiting" /\ stored = FALSE
    /\ ledger = "none" /\ transmitted = FALSE
    /\ event = [e \in Event |-> "none"]
    /\ old = FALSE /\ cleanup = "idle"
    /\ faults = 0 /\ replays = 0

Fault == faults < MaxFaults /\ faults' = faults + 1 /\ UNCHANGED replays

-----------------------------------------------------------------------------
(***************************************************************************)
(* The command, the worker that owns the session, and WhatsApp             *)
(***************************************************************************)
\* The broker stores the command, at once or after the publish timed out.
StoreCommand ==
    /\ ~stored
    /\ stored' = TRUE
    /\ UNCHANGED <<rowVars, outbox, ledger, transmitted, event, cleanupVars, bounds>>

\* The outbox learns that the command was stored, or records its last failed
\* attempt ...
MarkPublished ==
    /\ outbox = "waiting" /\ stored
    /\ outbox' = "published"
    /\ UNCHANGED <<rowVars, stored, ledger, transmitted, event, cleanupVars, bounds>>

GiveUp ==
    /\ outbox = "waiting"
    /\ outbox' = "giving_up"
    /\ UNCHANGED <<rowVars, stored, ledger, transmitted, event, cleanupVars, bounds>>

\* ... and then, in a statement of its own, fails the message if it is pending.
FailMessage ==
    /\ outbox = "giving_up"
    /\ outbox' = "failed"
    /\ status' = IF id = "temporary" /\ status = "pending" THEN "failed" ELSE status
    /\ UNCHANGED <<id, error, extra, echo, stored, ledger, transmitted, event, cleanupVars, bounds>>

\* The replica stops between the two statements; nobody repeats the second.
FailMessageLost ==
    /\ outbox = "giving_up"
    /\ Fault
    /\ outbox' = "failed"
    /\ UNCHANGED <<rowVars, stored, ledger, transmitted, event, cleanupVars>>

\* The write-ahead intent, the send, and the outcome.  A process that died with
\* its intent written has reported uncertainty and does neither of the others.
Working == ledger = "in_flight" /\ event["uncertainty"] = "none"

WorkerBegins ==
    /\ stored /\ ledger = "none"
    /\ ledger' = "in_flight"
    /\ UNCHANGED <<rowVars, outbox, stored, transmitted, event, cleanupVars, bounds>>

WorkerTransmits ==
    /\ Working /\ ~transmitted
    /\ transmitted' = TRUE
    /\ UNCHANGED <<rowVars, outbox, stored, ledger, event, cleanupVars, bounds>>

\* Mutant: an error after the transport was called is recorded as a failure.
WorkerRecordsFailed(outcome) ==
    /\ \/ Working
       \/ stored /\ ledger = "none" /\ outcome = "failed"
    /\ outcome = "sent" => transmitted
    /\ ledger' = outcome
    /\ UNCHANGED <<rowVars, outbox, stored, transmitted, event, cleanupVars, bounds>>

WorkerRecords(outcome) ==
    /\ \/ Working
       \/ stored /\ ledger = "none" /\ outcome = "failed"
    /\ outcome = "sent" => transmitted
    /\ outcome = "failed" => ~transmitted
    /\ ledger' = outcome
    /\ UNCHANGED <<rowVars, outbox, stored, transmitted, event, cleanupVars, bounds>>

Emit(e) ==
    /\ event[e] = "none"
    /\ event' = [event EXCEPT ![e] = "ready"]
    /\ UNCHANGED <<rowVars, workerVars, cleanupVars, bounds>>

\* publishStoredCommandResult; an intent is reported when a later process finds it.
WorkerReports ==
    \/ ledger = "sent" /\ Emit("confirmation")
    \/ ledger = "failed" /\ Emit("failure")
    \/ ledger \in {"in_flight", "unknown"} /\ Emit("uncertainty")

WhatsAppReceipt(r) == transmitted /\ Emit(r)

-----------------------------------------------------------------------------
(***************************************************************************)
(* The event handlers                                                      *)
(***************************************************************************)
\* An event is acknowledged when its handler returns.
Handled(e) == event' = [event EXCEPT ![e] = "done"]

\* Mutant: only the note of a timeout is removed.
ClearedTimeout == IF error = "timeout" THEN "none" ELSE error

\* metadata without a timeout or an uncertainty, which the event has disproved.
Cleared == IF error \in {"timeout", "unknown"} THEN "none" ELSE error

\* UNIQUE (whatsapp_connection_id, message_id): the row cannot take the final id
\* while the replayed row has it; the statement fails and the event is retried.
CanTakeFinalId == id = "final" \/ echo = "absent"

\* The statuses that a receipt advances.
Eligible(r) ==
    CASE r = "sent" -> {"pending", "failed"}
      [] r = "delivered" -> {"pending", "sent", "failed"}
      [] r = "read" -> {"pending", "sent", "delivered", "failed"}

ApplyReceipt(r) ==
    /\ status \in Eligible(r)
    /\ status' = r /\ id' = "final" /\ error' = Cleared
    /\ UNCHANGED <<extra, echo>>

ApplyToEcho(r) ==
    /\ echo \in Eligible(r)
    /\ echo' = r
    /\ UNCHANGED <<status, id, error, extra>>

\* handleReceiptEvent, first statement: the row with the final id.
ReceiptByFinalId(r) ==
    /\ event[r] = "ready"
    /\ (id = "final" /\ ApplyReceipt(r)) \/ ApplyToEcho(r)
    /\ Handled(r)
    /\ UNCHANGED <<workerVars, cleanupVars, bounds>>

ReceiptNotFound(r) ==
    /\ event[r] = "ready"
    /\ ~(id = "final" /\ status \in Eligible(r)) /\ echo \notin Eligible(r)
    /\ event' = [event EXCEPT ![r] = "lookup"]
    /\ UNCHANGED <<rowVars, workerVars, cleanupVars, bounds>>

\* Mutant: the second statement looks for the temporary id only.
OwnRowIsCandidateTemporary == id = "temporary" /\ ledger \in {"in_flight", "unknown", "sent"}

\* Its second statement: the final id again, or the temporary one that the
\* ledger maps it to.
OwnRowIsCandidate == id = "final" \/ ledger \in {"in_flight", "unknown", "sent"}

ReceiptByLedger(r) ==
    /\ event[r] = "lookup"
    /\ \/ OwnRowIsCandidate /\ CanTakeFinalId /\ ApplyReceipt(r)
       \/ ~(OwnRowIsCandidate /\ status \in Eligible(r)) /\ ApplyToEcho(r)
       \/ /\ ~(OwnRowIsCandidate /\ status \in Eligible(r)) /\ echo \notin Eligible(r)
          /\ UNCHANGED rowVars
    /\ Handled(r)
    /\ UNCHANGED <<workerVars, cleanupVars, bounds>>

\* Mutant: the confirmation always writes "sent".
SendConfirmationAlways ==
    /\ event["confirmation"] = "ready"
    /\ echo = "absent"
    /\ status' = "sent"
    /\ id' = "final" /\ error' = Cleared
    /\ Handled("confirmation")
    /\ UNCHANGED <<extra, echo, workerVars, cleanupVars, bounds>>

\* handleSendConfirmationEvent matches both rows, so the replayed one blocks it.
SendConfirmation ==
    /\ event["confirmation"] = "ready"
    /\ echo = "absent"
    /\ status' = IF status \in {"delivered", "read"} THEN status ELSE "sent"
    /\ id' = "final" /\ error' = Cleared
    /\ Handled("confirmation")
    /\ UNCHANGED <<extra, echo, workerVars, cleanupVars, bounds>>

\* handleSendFailedEvent with outcome "unknown".
SendUncertain ==
    /\ event["uncertainty"] = "ready"
    /\ IF id = "temporary" /\ (status = "pending" \/ (status = "failed" /\ error = "timeout"))
         THEN /\ CanTakeFinalId
              /\ status' = "pending" /\ id' = "final" /\ error' = "unknown"
         ELSE UNCHANGED <<status, id, error>>
    /\ Handled("uncertainty")
    /\ UNCHANGED <<extra, echo, workerVars, cleanupVars, bounds>>

\* handleSendFailedEvent.
SendFailed ==
    /\ event["failure"] = "ready"
    /\ status' = IF id = "temporary" /\ status = "pending" THEN "failed" ELSE status
    /\ Handled("failure")
    /\ UNCHANGED <<id, error, extra, echo, workerVars, cleanupVars, bounds>>

Higher(s, t) == IF Rank(s) < Rank(t) THEN t ELSE s

\* handleMessageEvent for a replayed message: merge into the row with the final
\* id, or insert one.  What a replay holds went through WhatsApp's server.
HistoryReplay(s) ==
    /\ transmitted /\ replays < MaxReplays
    /\ replays' = replays + 1
    /\ IF id = "final" THEN status' = Higher(status, s) /\ echo' = echo
       ELSE /\ echo' = IF echo = "absent" THEN s ELSE Higher(echo, s)
            /\ status' = status
    /\ UNCHANGED <<id, error, extra, workerVars, event, cleanupVars, faults>>

\* JetStream delivers an event again: after it was handled, or in the middle of it.
Redeliver(e) ==
    /\ event[e] \in {"lookup", "done"}
    /\ Fault
    /\ event' = [event EXCEPT ![e] = "ready"]
    /\ UNCHANGED <<rowVars, workerVars, cleanupVars>>

DeadLetter(e) ==
    /\ event[e] = "ready"
    /\ Fault
    /\ event' = [event EXCEPT ![e] = "dead"]
    /\ UNCHANGED <<rowVars, workerVars, cleanupVars>>

-----------------------------------------------------------------------------
(***************************************************************************)
(* The cleanup cycle (cleanupCompanyMessages)                              *)
(***************************************************************************)
TimeoutPasses ==
    /\ ~old
    /\ old' = TRUE
    /\ UNCHANGED <<rowVars, workerVars, event, cleanup, bounds>>

\* Mutant: reconciliation does not return to the messages that timed out.
UnsettledPending == status = "pending"

Unsettled == status = "pending" \/ (status = "failed" /\ error = "timeout")

\* Mutant: any row of the ledger counts as an outcome.
ReconcilableIntent == id = "temporary" /\ old /\ Unsettled /\ ledger # "none"

Reconcilable == id = "temporary" /\ old /\ Unsettled /\ ledger \in {"failed", "sent"}

\* reconcileProcessedCommands.
Reconcile ==
    /\ cleanup = "idle"
    /\ IF ~Reconcilable THEN UNCHANGED <<status, id, error>> /\ cleanup' = "reconciled"
       ELSE IF ledger = "failed"
         THEN /\ status' = "failed" /\ error' = "send_failed"
              /\ UNCHANGED id /\ cleanup' = "reconciled"
         ELSE /\ CanTakeFinalId
              /\ id' = "final" /\ status' = "sent"
              /\ error' = IF error = "timeout" THEN "none" ELSE error
              /\ cleanup' = "reconciled"
    /\ UNCHANGED <<extra, echo, workerVars, event, old, bounds>>

\* The unique key refuses the final id: the turn ends, and every later one too.
ReconcileFails ==
    /\ cleanup = "idle"
    /\ Reconcilable /\ ledger = "sent" /\ ~CanTakeFinalId
    /\ UNCHANGED vars

\* Mutant: the cutoff is compared the wrong way round.
ExpirableYoung ==
    /\ ~old /\ status = "pending"
    /\ ~extra /\ error = "none"
    /\ ~(id = "temporary" /\ ledger # "none")

Expirable ==
    /\ old /\ status = "pending"
    /\ ~extra /\ error = "none"               \* metadata IS NULL
    /\ ~(id = "temporary" /\ ledger # "none")

\* The statement's snapshot of the ledger ...
ExpireSnapshot ==
    /\ cleanup = "reconciled"
    /\ cleanup' = IF Expirable THEN "expiring" ELSE "idle"
    /\ UNCHANGED <<rowVars, workerVars, event, old, bounds>>

\* ... and its write, for which the row, not the ledger, is looked at again.
ExpireWrite ==
    /\ cleanup = "expiring"
    /\ cleanup' = "idle"
    /\ IF status = "pending" /\ ~extra /\ error = "none"
         THEN status' = "failed" /\ error' = "timeout"
         ELSE UNCHANGED <<status, error>>
    /\ UNCHANGED <<id, extra, echo, workerVars, event, old, bounds>>

-----------------------------------------------------------------------------
Handle(e) ==
    \/ e \in Receipt /\ (ReceiptByFinalId(e) \/ ReceiptNotFound(e) \/ ReceiptByLedger(e))
    \/ e = "confirmation" /\ SendConfirmation
    \/ e = "uncertainty" /\ SendUncertain
    \/ e = "failure" /\ SendFailed

OutboxStep == MarkPublished \/ GiveUp \/ FailMessage
CleanupStep == Reconcile \/ ReconcileFails \/ ExpireSnapshot \/ ExpireWrite

Next ==
    \/ StoreCommand \/ OutboxStep \/ FailMessageLost
    \/ WorkerBegins \/ WorkerTransmits \/ WorkerReports
    \/ \E o \in {"sent", "unknown", "failed"} : WorkerRecords(o)
    \/ \E r \in Receipt : WhatsAppReceipt(r) \/ HistoryReplay(r)
    \/ \E e \in Event : Handle(e) \/ Redeliver(e) \/ DeadLetter(e)
    \/ TimeoutPasses \/ CleanupStep

\* The outbox settles its row, the consumer redelivers until a handler succeeds,
\* the cycle runs every minute, and time passes.  A worker need not run, and then
\* its commands wait, but it does report what it has recorded.
Fairness ==
    /\ WF_vars(OutboxStep) /\ WF_vars(WorkerReports)
    /\ \A e \in Event : WF_vars(Handle(e))
    /\ WF_vars(CleanupStep) /\ WF_vars(TimeoutPasses)

Spec == Init /\ [][Next]_vars /\ Fairness

-----------------------------------------------------------------------------
(***************************************************************************)
(* Properties                                                              *)
(***************************************************************************)

\* Ticks never regress: once a message is sent, delivered or read, no event,
\* replay, timeout or exhausted outbox takes it back.
NeverFallsBack ==
    [][(status \in Reached) => (Rank(status') >= Rank(status))]_vars

\* A message is shown as sent only if WhatsApp was given it.
ReachedWasSent == status \in Reached => transmitted

\* A message that the cleanup cycle reports as send_failed was never sent, and
\* the worker's ledger says so for good.
FailureIsHonest == error = "send_failed" => ledger = "failed" /\ ~transmitted

\* A timeout is only noted on a failed message, and an uncertain message is not
\* declared failed by anyone: it stays open until a receipt or a replay settles
\* it (SendUncertain takes the final id, which the failing writers do not match).
NoteAgrees ==
    /\ error = "timeout" => status = "failed" /\ id = "temporary"
    /\ error = "unknown" => id = "final" /\ status # "failed"
    /\ error = "unknown" /\ replays = 0 => status = "pending"

\* A history replay came before the confirmation and has a row of its own: the
\* unique key keeps the message's row from its final id, and so from its events.
Duplicated == echo # "absent"

\* What the ledger says of a message is shown in the end, although the
\* confirmation is late or lost and a timeout was shown in between.  The
\* exceptions: a replayed row has the final id, or the outbox had given up and
\* the confirmation was dead-lettered.
OutcomeIsShown ==
    <>[](/\ ledger = "sent" => \/ status \in Reached
                               \/ outbox = "failed" /\ event["confirmation"] = "dead"
                               \/ Duplicated
         /\ ledger = "failed" => status = "failed")

\* A receipt that arrives before the confirmation is not lost, except to a
\* replayed row: in the end the status has taken in every receipt.
ReceiptCounts ==
    <>[](\A r \in Receipt : event[r] # "none" =>
            Rank(status) >= Rank(r) \/ event[r] = "dead" \/ Duplicated)

\* Its safety part: an acknowledged receipt has been taken in and stays so, in
\* whatever order it came with the confirmation, and although its two statements
\* read the row at different times.
AckedReceiptCounts ==
    \A r \in Receipt : event[r] = "done" => Rank(status) >= Rank(r) \/ Duplicated

\* A message without metadata is not pending for good while no worker has taken
\* its command.
PlainTimesOut ==
    <>[](~extra /\ old => status # "pending" \/ ledger # "none")

\* config/cleanup.config.ts: "Minutes before marking a pending message as
\* failed".  Not so for a message with a file name or an album.
PendingTimesOut ==
    old /\ status = "pending" ~> (status # "pending" \/ ledger # "none")
=============================================================================
