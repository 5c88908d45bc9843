---------------------------- MODULE CommandOutbox ----------------------------
(***************************************************************************)
(* The durable command outbox of the API                                   *)
(* (apps/api/src/services/command-outbox.service.ts).                      *)
(*                                                                         *)
(* A request enqueues a command in the same transaction as the change it   *)
(* belongs to.  Dispatchers (one poll loop per API replica) claim due rows *)
(* under a lease, publish them to the JetStream command stream and record  *)
(* the outcome.  next_attempt_at is at once the retry time, the lease      *)
(* deadline and the fencing token of a claim.                              *)
(*                                                                         *)
(* Time is the database clock, in abstract units.  A poll loop that the    *)
(* clock overtakes in the middle of its work is a fault, as are a crash    *)
(* and a database error: MaxFaults bounds them, so that the liveness       *)
(* property is about progress once the faults stop.                        *)
(***************************************************************************)
EXTENDS Integers, FiniteSets

CONSTANTS
    Command,      \* the commands requests may enqueue (the outbox row ids)
    Recipient,    \* the (subject, payload.to) pairs
    NoRecipient,  \* a command whose payload has no string "to"
    To,           \* the recipient of each command
    Dispatcher,   \* the API replicas' poll loops
    BatchSize,    \* BATCH_SIZE
    MaxAttempts,  \* MAX_ATTEMPTS
    Lease,        \* CLAIM_LEASE_MS
    RetryBase,    \* the 1_000 of getOutboxRetryDelayMs
    RetryCap,     \* its 60_000
    MaxTime,      \* bound on the clock
    MaxFaults     \* bound on crashes, database errors and stalls

ASSUME ToAssumption ==
    /\ NoRecipient \notin Recipient
    /\ To \in [Command -> Recipient \cup {NoRecipient}]

ASSUME BoundsAssumption ==
    /\ BatchSize \in Nat \ {0} /\ MaxAttempts \in Nat \ {0}
    /\ Lease \in Nat \ {0} /\ MaxTime \in Nat /\ MaxFaults \in Nat

VARIABLES
    now,       \* the database clock (statement_timestamp())
    faults,    \* how many faults have happened
    phase,     \* the enqueueing transaction of each command
    created,   \* created_at of each row, as its place in the order of INSERTs
    serial,    \* the last created_at given out
    row,       \* the nats_outbox table
    pc,        \* where each dispatcher's turn is
    batch,     \* the claims a dispatcher's turn still has to work through
    wire,      \* publications sent and not yet stored by the broker
    accepted,  \* the commands the stream has stored
    message    \* the status of the message each command carries

enqueueVars == <<phase, created, serial>>
dispatchVars == <<pc, batch>>
brokerVars == <<wire, accepted>>
vars == <<now, faults, enqueueVars, row, dispatchVars, brokerVars, message>>

Phase == {"idle", "locked", "inserted", "committed", "rolledback"}
Active == {"pending", "claimed"}
Final == {"published", "failed"}
Row ==
    [status : Active, attempts : 0 .. MaxAttempts - 1, next_attempt_at : Nat]
      \cup [status : Final, attempts : 1 .. MaxAttempts, next_attempt_at : Nat]
Claim == [id : Command, attempts : 0 .. MaxAttempts - 1, claimUntil : Nat]
PC == {"idle", "renew", "publish", "await", "stored", "rejected", "exhausted"}

\* The type invariant.  An active row has attempts left and a final one has
\* used at least one: the retry budget is neither exceeded nor cut short.
TypeOK ==
    /\ now \in Nat
    /\ faults \in Nat
    /\ phase \in [Command -> Phase]
    /\ created \in [Command -> Nat]
    /\ serial \in Nat
    /\ row \in [Command -> Row]
    /\ pc \in [Dispatcher -> PC]
    /\ batch \in [Dispatcher -> SUBSET Claim]
    /\ wire \in SUBSET Command
    /\ accepted \in SUBSET Command
    /\ message \in [Command -> {"none", "pending", "failed", "sent"}]

NewRow(t) == [status |-> "pending", attempts |-> 0, next_attempt_at |-> t]

Init ==
    /\ now = 0
    /\ faults = 0
    /\ phase = [c \in Command |-> "idle"]
    /\ created = [c \in Command |-> 0]
    /\ serial = 0
    /\ row = [c \in Command |-> NewRow(0)]
    /\ pc = [d \in Dispatcher |-> "idle"]
    /\ batch = [d \in Dispatcher |-> {}]
    /\ wire = {}
    /\ accepted = {}
    /\ message = [c \in Command |-> "none"]

(***************************************************************************)
(* getOutboxRetryDelayMs: exponential back-off, capped.                    *)
(***************************************************************************)
MinOf(a, b) == IF a <= b THEN a ELSE b
RetryDelay(attempts) == MinOf(RetryCap, RetryBase * 2 ^ MinOf(attempts, 6))

ASSUME RetryAssumption ==
    \A a \in 1 .. MaxAttempts : RetryDelay(a) \in Nat

-----------------------------------------------------------------------------
(***************************************************************************)
(* enqueueCommand: the advisory lock on (subject, to) is taken before the  *)
(* INSERT reads the clock and is held until the transaction ends.  The row *)
(* and the message are visible to others from the commit on.               *)
(***************************************************************************)
SameRecipient(c, e) == To[c] # NoRecipient /\ To[c] = To[e]

HoldsLock(c) == phase[c] \in {"locked", "inserted"}

\* Mutant: the transaction does not wait for the advisory lock.
LockRecipientUnlocked(c) ==
    /\ phase[c] = "idle"
    /\ phase' = [phase EXCEPT ![c] = "locked"]
    /\ UNCHANGED <<now, faults, created, serial, row, dispatchVars, brokerVars, message>>

LockRecipient(c) ==
    /\ phase[c] = "idle"
    /\ \A e \in Command : SameRecipient(c, e) => ~HoldsLock(e)
    /\ phase' = [phase EXCEPT ![c] = "locked"]
    /\ UNCHANGED <<now, faults, created, serial, row, dispatchVars, brokerVars, message>>

InsertRow(c) ==
    /\ phase[c] = "locked"
    /\ phase' = [phase EXCEPT ![c] = "inserted"]
    /\ serial' = serial + 1
    /\ created' = [created EXCEPT ![c] = serial + 1]
    /\ row' = [row EXCEPT ![c] = NewRow(now)]
    /\ UNCHANGED <<now, faults, dispatchVars, brokerVars, message>>

CommitEnqueue(c) ==
    /\ phase[c] = "inserted"
    /\ phase' = [phase EXCEPT ![c] = "committed"]
    /\ message' = [message EXCEPT ![c] = "pending"]
    /\ UNCHANGED <<now, faults, created, serial, row, dispatchVars, brokerVars>>

RollbackEnqueue(c) ==
    /\ HoldsLock(c)
    /\ phase' = [phase EXCEPT ![c] = "rolledback"]
    /\ UNCHANGED <<now, faults, created, serial, row, dispatchVars, brokerVars, message>>

-----------------------------------------------------------------------------
(***************************************************************************)
(* dispatchCompany, the claim transaction: due rows that no earlier active *)
(* row of their recipient precedes, the oldest BatchSize of them.          *)
(***************************************************************************)
Committed(c) == phase[c] = "committed"

Precedes(e, c) ==
    /\ Committed(e) /\ Committed(c)
    /\ SameRecipient(e, c)
    /\ created[e] < created[c]

EarlierActive(c) == \E e \in Command : Precedes(e, c) /\ row[e].status \in Active

\* Mutant: a claimed row is taken over before its lease has run out.
DueIgnoringLease(c) ==
    row[c].status = "claimed" \/ (row[c].status = "pending" /\ row[c].next_attempt_at <= now)

\* Mutant: only pending rows are claimed, so a crashed claim is never taken over.
DuePendingOnly(c) == row[c].status = "pending" /\ row[c].next_attempt_at <= now

Due(c) == row[c].status \in Active /\ row[c].next_attempt_at <= now

Claimable(c) == Committed(c) /\ Due(c) /\ ~EarlierActive(c)

Oldest(S) ==
    /\ \A c \in S : Claimable(c)
    /\ \A c \in S, e \in Command \ S : Claimable(e) => created[c] < created[e]
    /\ \/ Cardinality(S) = BatchSize
       \/ Cardinality(S) < BatchSize /\ \A e \in Command \ S : ~Claimable(e)

ClaimBatch(d, S) ==
    /\ pc[d] = "idle"
    /\ S # {} /\ Oldest(S)
    /\ row' = [c \in Command |->
                 IF c \in S
                   THEN [status |-> "claimed", attempts |-> row[c].attempts,
                         next_attempt_at |-> now + Lease]
                   ELSE row[c]]
    /\ batch' = [batch EXCEPT ![d] =
                   {[id |-> c, attempts |-> row[c].attempts, claimUntil |-> now + Lease]
                      : c \in S}]
    /\ pc' = [pc EXCEPT ![d] = "renew"]
    /\ UNCHANGED <<now, faults, enqueueVars, brokerVars, message>>

(***************************************************************************)
(* The publishing loop, one claim at a time in the order of created_at.    *)
(* Every write is conditional on the claim still being current.            *)
(***************************************************************************)
First(d, k) == k \in batch[d] /\ \A m \in batch[d] : created[k.id] <= created[m.id]

Current(k) ==
    row[k.id].status = "claimed" /\ row[k.id].next_attempt_at = k.claimUntil

NextClaim(d, k) ==
    /\ batch' = [batch EXCEPT ![d] = @ \ {k}]
    /\ pc' = [pc EXCEPT ![d] = "renew"]

Renew(d, k) ==
    /\ pc[d] = "renew" /\ First(d, k)
    /\ Current(k)
    /\ row' = [row EXCEPT ![k.id].next_attempt_at = now + Lease]
    /\ batch' = [batch EXCEPT ![d] = (@ \ {k}) \cup {[k EXCEPT !.claimUntil = now + Lease]}]
    /\ pc' = [pc EXCEPT ![d] = "publish"]
    /\ UNCHANGED <<now, faults, enqueueVars, brokerVars, message>>

LeaseLost(d, k) ==
    /\ pc[d] = "renew" /\ First(d, k)
    /\ ~Current(k)
    /\ NextClaim(d, k)
    /\ UNCHANGED <<now, faults, enqueueVars, row, brokerVars, message>>

Publish(d, k) ==
    /\ pc[d] = "publish" /\ First(d, k)
    /\ wire' = wire \cup {k.id}
    /\ pc' = [pc EXCEPT ![d] = "await"]
    /\ UNCHANGED <<now, faults, enqueueVars, row, batch, accepted, message>>

PublishSucceeds(d, k) ==
    /\ pc[d] = "await" /\ First(d, k)
    /\ k.id \in accepted
    /\ pc' = [pc EXCEPT ![d] = "stored"]
    /\ UNCHANGED <<now, faults, enqueueVars, row, batch, brokerVars, message>>

\* A timeout or an error: the publication may still be on its way, or stored.
PublishFails(d, k) ==
    /\ pc[d] = "await" /\ First(d, k)
    /\ pc' = [pc EXCEPT ![d] = "rejected"]
    /\ UNCHANGED <<now, faults, enqueueVars, row, batch, brokerVars, message>>

MarkPublished(d, k) ==
    /\ pc[d] = "stored" /\ First(d, k)
    /\ row' = IF Current(k)
                THEN [row EXCEPT ![k.id].status = "published",
                                 ![k.id].attempts = k.attempts + 1]
                ELSE row
    /\ NextClaim(d, k)
    /\ UNCHANGED <<now, faults, enqueueVars, brokerVars, message>>

\* The broker has the command but the outcome cannot be written: the row stays
\* leased and the loop goes on.
MarkPublishedFails(d, k) ==
    /\ pc[d] = "stored" /\ First(d, k)
    /\ faults < MaxFaults /\ faults' = faults + 1
    /\ NextClaim(d, k)
    /\ UNCHANGED <<now, enqueueVars, row, brokerVars, message>>

\* Mutant: one attempt too many.
ExhaustedLate(attempts) == attempts > MaxAttempts

Exhausted(attempts) == attempts >= MaxAttempts

RecordFailure(d, k) ==
    LET attempts  == k.attempts + 1
        exhausted == Exhausted(attempts)
    IN  /\ pc[d] = "rejected" /\ First(d, k)
        /\ \/ /\ Current(k)
              /\ row' = [row EXCEPT ![k.id] =
                           [status |-> IF exhausted THEN "failed" ELSE "pending",
                            attempts |-> attempts,
                            next_attempt_at |-> now + RetryDelay(attempts)]]
              /\ IF exhausted
                   THEN batch' = batch /\ pc' = [pc EXCEPT ![d] = "exhausted"]
                   ELSE NextClaim(d, k)
           \/ ~Current(k) /\ row' = row /\ NextClaim(d, k)
        /\ UNCHANGED <<now, faults, enqueueVars, brokerVars, message>>

\* Mutant: the message fails whatever its status has become.
FailMessageAlways(d, k) ==
    /\ pc[d] = "exhausted" /\ First(d, k)
    /\ message' = [message EXCEPT ![k.id] = "failed"]
    /\ NextClaim(d, k)
    /\ UNCHANGED <<now, faults, enqueueVars, row, brokerVars>>

FailMessage(d, k) ==
    /\ pc[d] = "exhausted" /\ First(d, k)
    /\ message' = [message EXCEPT ![k.id] = IF @ = "pending" THEN "failed" ELSE @]
    /\ NextClaim(d, k)
    /\ UNCHANGED <<now, faults, enqueueVars, row, brokerVars>>

EndBatch(d) ==
    /\ pc[d] = "renew" /\ batch[d] = {}
    /\ pc' = [pc EXCEPT ![d] = "idle"]
    /\ UNCHANGED <<now, faults, enqueueVars, row, batch, brokerVars, message>>

\* A crash, or a database error that leaves dispatchCompany: the rest of the
\* batch stays claimed until its leases run out.
Abandon(d) ==
    /\ pc[d] # "idle"
    /\ faults < MaxFaults /\ faults' = faults + 1
    /\ pc' = [pc EXCEPT ![d] = "idle"]
    /\ batch' = [batch EXCEPT ![d] = {}]
    /\ UNCHANGED <<now, enqueueVars, row, brokerVars, message>>

-----------------------------------------------------------------------------
(***************************************************************************)
(* The broker (external): a publication on the wire is stored, perhaps     *)
(* long after its publisher gave up, or lost.  The message id makes a      *)
(* second copy of a stored command a no-op.                                *)
(***************************************************************************)
BrokerStores(c) ==
    /\ c \in wire
    /\ wire' = wire \ {c}
    /\ accepted' = accepted \cup {c}
    /\ UNCHANGED <<now, faults, enqueueVars, row, dispatchVars, message>>

BrokerLoses(c) ==
    /\ c \in wire
    /\ wire' = wire \ {c}
    /\ UNCHANGED <<now, faults, enqueueVars, row, dispatchVars, accepted, message>>

\* handleMessageSendConfirmation, for a command the worker has executed.
ConfirmSend(c) ==
    /\ c \in accepted
    /\ message[c] \in {"pending", "failed"}
    /\ message' = [message EXCEPT ![c] = "sent"]
    /\ UNCHANGED <<now, faults, enqueueVars, row, dispatchVars, brokerVars>>

\* The loops are idle and wait for a deadline: rows are active, none is due.
Quiescent ==
    /\ \A d \in Dispatcher : pc[d] = "idle"
    /\ \A c \in Command : ~Claimable(c)
    /\ \E c \in Command : Committed(c) /\ row[c].status \in Active

Tick ==
    /\ now < MaxTime /\ now' = now + 1
    /\ IF Quiescent THEN faults' = faults
                    ELSE faults < MaxFaults /\ faults' = faults + 1
    /\ UNCHANGED <<enqueueVars, row, dispatchVars, brokerVars, message>>

-----------------------------------------------------------------------------
Enqueue(c) ==
    LockRecipient(c) \/ InsertRow(c) \/ CommitEnqueue(c) \/ RollbackEnqueue(c)

Handle(d, k) ==
    \/ Renew(d, k) \/ LeaseLost(d, k) \/ Publish(d, k)
    \/ PublishSucceeds(d, k) \/ PublishFails(d, k)
    \/ MarkPublished(d, k) \/ MarkPublishedFails(d, k)
    \/ RecordFailure(d, k) \/ FailMessage(d, k)

Broker(c) == BrokerStores(c) \/ BrokerLoses(c) \/ ConfirmSend(c)

Next ==
    \/ \E c \in Command : Enqueue(c) \/ Broker(c)
    \/ \E d \in Dispatcher :
         \/ \E S \in SUBSET Command : ClaimBatch(d, S)
         \/ \E k \in batch[d] : Handle(d, k)
         \/ EndBatch(d) \/ Abandon(d)
    \/ Tick

\* poll() reschedules itself for as long as the process runs, every await in
\* the loop settles (the publish has a timeout), and time passes.
Fairness ==
    /\ \A d \in Dispatcher :
         /\ WF_vars(\E S \in SUBSET Command : ClaimBatch(d, S))
         /\ WF_vars(EndBatch(d) \/ \E k \in batch[d] : Handle(d, k))
    /\ \A c \in Command : WF_vars(InsertRow(c) \/ CommitEnqueue(c) \/ RollbackEnqueue(c))
    /\ WF_vars(Tick)

Spec == Init /\ [][Next]_vars /\ Fairness

-----------------------------------------------------------------------------
(***************************************************************************)
(* Properties                                                              *)
(***************************************************************************)

\* When the stream stores a command, every earlier command to the same
\* recipient is stored already or has failed for good: retries, expired leases,
\* late publications and concurrent replicas never reorder a conversation.
\* (the advisory lock of enqueueCommand and the NOT EXISTS of the claim)
RecipientOrder ==
    \A e, c \in Command :
        c \in accepted /\ Precedes(e, c) => e \in accepted \/ row[e].status = "failed"

\* The outbox and the stream keep an ordered log per conversation
\* (ConversationLog): a commit appends behind everything the recipient has, and
\* a command is stored, or given up, only after everything in front of it.
Place == [c \in Command |-> IF Committed(c) THEN created[c] ELSE 0]
Dropped == {c \in Command : Committed(c) /\ row[c].status = "failed"}
Log == INSTANCE ConversationLog WITH
           Entry <- Command, Of <- To, Alone <- NoRecipient,
           place <- Place, stored <- accepted, dropped <- Dropped
KeepsOrder == Log!Spec

\* A claim is current for at most one dispatcher: the lease deadline really is
\* a fencing token, so a loop that outlived its lease cannot finish a newer claim.
ClaimExclusive ==
    \A d, f \in Dispatcher : \A k \in batch[d], m \in batch[f] :
        d # f /\ k.id = m.id => ~(Current(k) /\ Current(m))

\* A published or failed row is never written again, whichever stale
\* dispatcher, late answer or second failure comes after it.
FinalIsFinal ==
    [][\A c \in Command :
         Committed(c) /\ row[c].status \in Final => row'[c] = row[c]]_vars

\* The exhausted branch never takes back a send the worker has confirmed: an
\* attempt that timed out may have been stored and executed.
ConfirmedStaysSent ==
    [][\A c \in Command : message[c] = "sent" => message'[c] = "sent"]_vars

\* The retry budget is spent one attempt at a time and never given back: a stale
\* loop cannot write an attempt count read before another loop's attempts.
AttemptsCounted ==
    [][\A c \in Command :
         Committed(c) => row'[c].attempts \in {row[c].attempts, row[c].attempts + 1}]_vars

\* A message shows "failed" only when its row has used up the retry budget.
FailedMeansExhausted ==
    \A c \in Command :
        message[c] = "failed" =>
            Committed(c) /\ row[c].status = "failed" /\ row[c].attempts = MaxAttempts

\* Every committed command is eventually published or failed, through crashes,
\* lost leases, database errors and broker outages.
EventuallySettled ==
    <>[](\A c \in Command : Committed(c) => row[c].status \in Final)
=============================================================================
